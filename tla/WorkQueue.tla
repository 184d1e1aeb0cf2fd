----------------------------- MODULE WorkQueue -----------------------------
(***************************************************************************)
(* What PersistedQueue.ts promises its clients, whatever stores the queue:    *)
(* an offered item is worked on by one consumer at a time, again until it is   *)
(* settled (done, or out of attempts), and never after that.                  *)
(***************************************************************************)
CONSTANTS Items, Consumers

VARIABLES offered, settled, workers

vars == <<offered, settled, workers>>

Init == offered = {} /\ settled = {} /\ workers = [i \in Items |-> {}]

Offer(i) == /\ i \notin offered /\ offered' = offered \cup {i}
            /\ UNCHANGED <<settled, workers>>

Start(i) == /\ i \in offered \ settled /\ workers[i] = {}
            /\ \E c \in Consumers : workers' = [workers EXCEPT ![i] = {c}]
            /\ UNCHANGED <<offered, settled>>

\* A handler succeeds, fails or is interrupted.
Stop(i) == /\ workers[i] # {} /\ workers' = [workers EXCEPT ![i] = {}]
           /\ settled' \in {settled, settled \cup {i}} /\ UNCHANGED offered

\* The end of a process stops several handlers.
Abandon == /\ \E S \in SUBSET Items : workers' = [i \in Items |-> IF i \in S THEN {} ELSE workers[i]]
           /\ UNCHANGED <<offered, settled>>

Next == (\E i \in Items : Offer(i) \/ Start(i) \/ Stop(i)) \/ Abandon

Spec == Init /\ [][Next]_vars
===========================================================================

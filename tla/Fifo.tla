------------------------------- MODULE Fifo -------------------------------
(* What Queue.ts promises: "hands each value to one consumer in offer order" *)
(* (Queue.ts:4-5). The values are the numbers of the offers.                 *)
EXTENDS Naturals, SequencesExt

VARIABLES content,   \* the values offered and not handed over
          taken,     \* the values handed over, in order
          last       \* the last value offered

vars == <<content, taken, last>>

Init == content = {} /\ taken = <<>> /\ last = 0

Offer == last' = last + 1 /\ content' = content \cup {last + 1} /\ UNCHANGED taken

\* A consumer takes any number of values, the first of them and in their order.
Take == LET handed == SubSeq(taken', Len(taken) + 1, Len(taken'))
        IN /\ taken' = taken \o handed /\ ToSet(handed) \subseteq content
           /\ \A i, j \in DOMAIN handed : i < j => handed[i] < handed[j]
           /\ content' = content \ ToSet(handed)
           /\ \A v \in ToSet(handed), w \in content' : v < w
           /\ UNCHANGED last

\* An offer is withdrawn.
Withdraw(v) == content' = content \ {v} /\ UNCHANGED <<taken, last>>

\* A full sliding queue gives up its oldest value for the new one.
Slide(v) == /\ \A w \in content : v <= w
            /\ last' = last + 1 /\ content' = (content \ {v}) \cup {last + 1} /\ UNCHANGED taken

Discard == content' = {} /\ UNCHANGED <<taken, last>>

Next == Offer \/ Take \/ Discard \/ \E v \in content : Withdraw(v) \/ Slide(v)

Spec == Init /\ [][Next]_vars
===========================================================================

-------------------------- MODULE AtomicTransfers --------------------------
(* What Effect.tx promises its clients: a transaction happens as a whole, at *)
(* one moment (Effect.ts:14611-14612). A program takes one from some refs,   *)
(* puts one into others and reads some.                                      *)
EXTENDS Integers, FiniteSets, Sequences

CONSTANTS Txns, Refs, Program, InitialValue

VARIABLES value, result   \* what each transaction that read has read

vars == <<value, result>>

Count(t, op, r) == Cardinality({i \in DOMAIN Program[t] : Program[t][i] = [op |-> op, ref |-> r]})
Read(t) == {r \in Refs : Count(t, "read", r) > 0}

Init == value = InitialValue /\ result = [t \in Txns |-> <<>>]

\* What it takes is there; what it reads was there at the same moment.
Commit(t) ==
  /\ \A r \in Refs : Count(t, "take", r) <= value[r]
  /\ value' = [r \in Refs |-> value[r] + Count(t, "put", r) - Count(t, "take", r)]
  /\ result' = [result EXCEPT ![t] = [r \in Read(t) |-> value[r]]]

Next == \E t \in Txns : Commit(t)
Spec == Init /\ [][Next]_vars
============================================================================

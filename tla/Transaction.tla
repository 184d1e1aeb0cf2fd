---------------------------- MODULE Transaction ----------------------------
(***************************************************************************)
(* Effect.tx, Effect.txRetry and TxRef of the pinned Effect source.          *)
(*                                                                          *)
(* Each transaction runs a program of takes (one off a ref, txRetry when it  *)
(* is zero), puts (one onto a ref) and reads. Any number of turns of the     *)
(* event loop may pass between two operations.                               *)
(***************************************************************************)
EXTENDS Integers, FiniteSets, Sequences

CONSTANTS Txns, Refs, Program, InitialValue,
          SlowRetry,      \* programs may wait between a read and txRetry
          MayFail, MayInterrupt

Operations == [op : {"take", "put", "read"}, ref : Refs]

\* What the constants have to satisfy: a program leaves what it reads alone,
\* and takes from a ref before it puts onto it.
TransactionAssumption ==
  /\ InitialValue \in [Refs -> Nat]
  /\ Program \in [Txns -> Seq(Operations)]
  /\ \A t \in Txns : \A i, j \in DOMAIN Program[t] :
       Program[t][i].ref = Program[t][j].ref =>
         /\ Program[t][i].op = "read" => Program[t][j].op = "read"
         /\ Program[t][i].op = "take" /\ Program[t][j].op = "put" => i < j

VARIABLES value, version, pending,   \* the fields of each TxRef
          journal, retry,            \* Transaction: per transaction
          pc, at,                    \* where it is, and the operation it is at
          interrupted,               \* the fibers with a pending interruption
          tasks,                     \* the transactions whose wake-up is scheduled
          result                     \* history: what it has read, once committed

refVars == <<value, version, pending>>
txnVars == <<journal, retry, pc, at>>
vars == <<refVars, txnVars, interrupted, tasks, result>>

NoJournal == [r \in {} |-> 0]

Init == /\ value = InitialValue /\ version = [r \in Refs |-> 0]
        /\ pending = [r \in Refs |-> {}]
        /\ journal = [t \in Txns |-> NoJournal] /\ retry = [t \in Txns |-> FALSE]
        /\ pc = [t \in Txns |-> "body"] /\ at = [t \in Txns |-> 1]
        /\ interrupted = {} /\ tasks = {} /\ result = [t \in Txns |-> <<>>]

Goes(t, p) == pc' = [pc EXCEPT ![t] = p]

--------------------------------------------------------------------------
\* modify: the entry of the journal, made on the first access.
Entry(t, r) == IF r \in DOMAIN journal[t] THEN journal[t][r]
               ELSE [version |-> version[r], value |-> value[r]]
Writes(t, r, n) ==
  journal' = [journal EXCEPT ![t] = [s \in DOMAIN @ \cup {r} |->
                IF s = r THEN [Entry(t, r) EXCEPT !.value = @ + n] ELSE @[s]]]

\* awaitPendingTransaction: every ref of the journal gets a callback.
Await(t, J) == pending' = [r \in Refs |-> IF r \in DOMAIN J THEN pending[r] \cup {t} ELSE pending[r]]

\* One operation of the program, with the value it finds.
Operation(t) ==
  /\ pc[t] = "body" /\ t \notin interrupted /\ at[t] <= Len(Program[t])
  /\ LET op == Program[t][at[t]].op
         r == Program[t][at[t]].ref
     IN \/ /\ op # "take" \/ Entry(t, r).value > 0
           /\ Writes(t, r, CASE op = "take" -> -1 [] op = "put" -> 1 [] op = "read" -> 0)
           /\ at' = [at EXCEPT ![t] = @ + 1]
           /\ UNCHANGED <<retry, pc, pending>>
        \/ /\ op = "take" /\ Entry(t, r).value = 0 /\ Writes(t, r, 0)
           /\ retry' = [retry EXCEPT ![t] = TRUE] /\ UNCHANGED at
           /\ \/ SlowRetry /\ Goes(t, "retrying") /\ UNCHANGED pending
              \/ ~SlowRetry /\ Goes(t, "waiting") /\ Await(t, journal'[t])
  /\ UNCHANGED <<value, version, interrupted, tasks, result>>

\* tapCause after txRetry.
AwaitPending(t) ==
  /\ pc[t] = "retrying" /\ Goes(t, "waiting") /\ Await(t, journal[t])
  /\ UNCHANGED <<value, version, journal, retry, at, interrupted, tasks, result>>

\* The body has succeeded, or it fails anywhere.
BodyEnds(t) ==
  /\ pc[t] = "body" /\ t \notin interrupted /\ at[t] > Len(Program[t]) /\ Goes(t, "succeeded")
  /\ UNCHANGED <<refVars, journal, retry, at, interrupted, tasks, result>>

BodyFails(t) ==
  /\ MayFail \/ t \in interrupted
  /\ pc[t] = "body" /\ Goes(t, "failed")
  /\ UNCHANGED <<refVars, journal, retry, at, interrupted, tasks, result>>

--------------------------------------------------------------------------
\* Mutant: one ref that is as it was is enough.
OneConsistent(t) ==
  journal[t] # NoJournal => \E r \in DOMAIN journal[t] : version[r] = journal[t][r].version

isTransactionConsistent(t) ==
  \A r \in DOMAIN journal[t] : version[r] = journal[t][r].version

\* Mutant: retry is not reset.
ClearJournal(t) == /\ journal' = [journal EXCEPT ![t] = NoJournal]
                   /\ at' = [at EXCEPT ![t] = 1] /\ UNCHANGED retry

\* clearTransaction
Clear(t) == /\ journal' = [journal EXCEPT ![t] = NoJournal]
            /\ retry' = [retry EXCEPT ![t] = FALSE] /\ at' = [at EXCEPT ![t] = 1]

\* Mutant: the loop ends after one ref.
OneTouched(t) == {CHOOSE r \in DOMAIN journal[t] : TRUE}
\* commitTransaction: the refs whose waiters it wakes.
Touched(t) == DOMAIN journal[t]

\* step: another round, because it has to be or the journal is stale.
Again(t) ==
  /\ pc[t] \in {"succeeded", "failed"} /\ (retry[t] \/ ~isTransactionConsistent(t))
  /\ Goes(t, "body") /\ Clear(t)
  /\ UNCHANGED <<refVars, interrupted, tasks, result>>

\* step, commitTransaction: values, versions and wake-ups in one go.
Commit(t) ==
  /\ pc[t] = "succeeded" /\ ~retry[t] /\ isTransactionConsistent(t)
  /\ Goes(t, "done")
  /\ value' = [r \in Refs |-> IF r \in DOMAIN journal[t] THEN journal[t][r].value ELSE value[r]]
  /\ version' = [r \in Refs |-> IF value'[r] # value[r] THEN version[r] + 1 ELSE version[r]]
  /\ tasks' = tasks \cup UNION {pending[r] : r \in Touched(t)}
  /\ pending' = [r \in Refs |-> IF r \in Touched(t) THEN {} ELSE pending[r]]
  /\ result' = [result EXCEPT ![t] =
       [r \in {Program[t][i].ref : i \in {j \in DOMAIN Program[t] : Program[t][j].op = "read"}}
          |-> journal[t][r].value]]
  /\ UNCHANGED <<journal, retry, at, interrupted>>

Fail(t) ==
  /\ pc[t] = "failed" /\ ~retry[t] /\ isTransactionConsistent(t)
  /\ Goes(t, "ended") /\ Clear(t)
  /\ UNCHANGED <<refVars, interrupted, tasks, result>>

\* onCall: the scheduled callback of a ref that was committed.
Wake(t) ==
  /\ t \in tasks /\ tasks' = tasks \ {t}
  /\ pending' = [r \in Refs |-> pending[r] \ {t}] /\ Goes(t, "failed")
  /\ UNCHANGED <<value, version, journal, retry, at, interrupted, result>>

\* Mutant: the callbacks stay behind.
InterruptOnly(t) ==
  /\ MayInterrupt /\ t \notin interrupted /\ pc[t] \in {"body", "retrying", "waiting"}
  /\ interrupted' = interrupted \cup {t} /\ tasks' = tasks \ {t} /\ Goes(t, "failed")
  /\ UNCHANGED <<refVars, journal, retry, at, result>>

\* interruptUnsafe: the body and the wait are restored regions.
Interrupt(t) ==
  /\ MayInterrupt /\ t \notin interrupted /\ pc[t] \in {"body", "retrying", "waiting"}
  /\ interrupted' = interrupted \cup {t} /\ tasks' = tasks \ {t} /\ Goes(t, "failed")
  /\ pending' = [r \in Refs |-> pending[r] \ {t}]
  /\ UNCHANGED <<value, version, journal, retry, at, result>>

Step(t) == Operation(t) \/ AwaitPending(t) \/ BodyEnds(t) \/ Again(t) \/ Commit(t) \/ Fail(t) \/ Wake(t)
           \/ (t \in interrupted /\ BodyFails(t))

Next == \E t \in Txns : Step(t) \/ BodyFails(t) \/ Interrupt(t)
Spec == Init /\ [][Next]_vars
\* Fibers go on and tasks run; nobody has to fail or be interrupted.
FairSpec == Spec /\ \A t \in Txns : WF_vars(Step(t))

--------------------------------------------------------------------------
(* Properties.                                                             *)

Atomic == INSTANCE AtomicTransfers
\* Every commit is its whole program, run at that moment, whatever the others
\* did while its body ran (Effect.ts:14676-14734).
ImplementsAtomic == Atomic!Spec

\* A transaction waits for refs that are as it has seen them, or its wake-up is
\* coming: "when its body explicitly calls `Effect.txRetry` and any accessed
\* transactional value changes" (Effect.ts:14619-14621).
NoMissedChange == \A t \in Txns :
  pc[t] = "waiting" /\ ~isTransactionConsistent(t) => t \in tasks

\* A ref keeps no callbacks but those of transactions that wait for it
\* (Effect.ts:14702-14720).
NothingPending == \A r \in Refs : \A t \in pending[r] : pc[t] = "waiting" /\ r \in DOMAIN journal[t]

\* A program looks at nothing before the ref it retries for.
RetriesAtOnce ==
  /\ ~SlowRetry
  /\ \A t \in Txns : \A i \in DOMAIN Program[t] : Program[t][i].op = "take" => i = 1

\* What the callbacks of the refs keep between any two steps. A change is
\* missed by a transaction that takes its time between a read and txRetry, so
\* that is promised of the others only (Effect.ts:14702-14734).
TransactionsSafe == NothingPending /\ (RetriesAtOnce => NoMissedChange)

\* A transaction that retries ends, unless what it takes keeps going away.
Possible(t) == \A r \in Refs : Atomic!Count(t, "take", r) <= value[r]
RetriesEnd == \A t \in Txns : []<>~Possible(t) \/ <>(pc[t] \in {"done", "ended"})
============================================================================

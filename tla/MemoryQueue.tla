---------------------------- MODULE MemoryQueue ----------------------------
(***************************************************************************)
(* PersistedQueue.ts over layerStoreMemory: a set of items and a latch. Fibers *)
(* that wait for a latch are all resumed, one after the other, when it opens.  *)
(***************************************************************************)
EXTENDS Integers, Sequences, SequencesExt

CONSTANTS Elements, Takers, NoElement, MaxTries,
          Undecodable,       \* elements the schema cannot decode
          OneTaker           \* no two consumers wait at a time

\* What the constants have to satisfy.
MemoryQueueAssumption ==
  /\ NoElement \notin Elements /\ Undecodable \subseteq Elements
  /\ MaxTries \in Nat \ {0} /\ OneTaker \in BOOLEAN

VARIABLES ids,            \* every id that was ever offered
          items,          \* the items to be taken, oldest first
          attempts, open, \* of each item; the latch
          waiters,        \* the latch's
          resumed,        \* those of them that are to go on, in this very call
          taker, has, settled

memoryVars == <<ids, items, attempts, open, waiters, resumed, taker, has, settled>>

MemoryInit ==
  /\ ids = {} /\ items = <<>> /\ attempts = [i \in Elements |-> 0]
  /\ open = FALSE /\ waiters = <<>> /\ resumed = <<>> /\ settled = {}
  /\ taker = [c \in Takers |-> "idle"] /\ has = [c \in Takers |-> NoElement]

Quiet == resumed = <<>>

\* Mutant: an id that is no longer in the queue may be offered again.
KnownNow(i) == i \in Range(items)
Known(i) == i \in ids

\* Mutant: only the next one to come will notice.
OpenQuietly == open' = TRUE /\ UNCHANGED <<resumed, waiters>>
\* openUnsafe: if the latch was closed, everybody goes on.
OpenLatch == /\ open' = TRUE
             /\ resumed' = IF open THEN <<>> ELSE waiters
             /\ waiters' = IF open THEN waiters ELSE <<>>

OfferElement(i) ==
  /\ Quiet /\ ~Known(i) /\ ids' = ids \cup {i} /\ items' = Append(items, i) /\ OpenLatch
  /\ UNCHANGED <<attempts, taker, has, settled>>

\* What follows the latch: headUnsafe throws if there is no item. If the item cannot
\* be decoded the take fails, and its scope is left open, with its finalizer.
ReceiveElement(c) ==
  IF items = <<>> THEN taker' = [taker EXCEPT ![c] = "defect"] /\ UNCHANGED <<items, open, has>>
  ELSE /\ IF Head(items) \in Undecodable THEN UNCHANGED has /\ taker' = [taker EXCEPT ![c] = "idle"]
          ELSE taker' = [taker EXCEPT ![c] = "running"] /\ has' = [has EXCEPT ![c] = Head(items)]
       /\ items' = Tail(items) /\ open' = (open /\ Len(items) > 1)

TakeElement(c) ==
  /\ Quiet /\ taker[c] = "idle" /\ (OneTaker => open \/ waiters = <<>>)
  /\ IF open THEN ReceiveElement(c) /\ UNCHANGED waiters
     ELSE /\ taker' = [taker EXCEPT ![c] = "waiting"] /\ waiters' = Append(waiters, c)
          /\ UNCHANGED <<items, open, has>>
  /\ UNCHANGED <<ids, attempts, resumed, settled>>

Resume ==
  /\ ~Quiet /\ ReceiveElement(Head(resumed)) /\ resumed' = Tail(resumed)
  /\ UNCHANGED <<ids, attempts, waiters, settled>>

Stopped(c) == Quiet /\ taker[c] = "running" /\ taker' = [taker EXCEPT ![c] = "idle"]
              /\ has' = [has EXCEPT ![c] = NoElement]

SucceedTake(c) == /\ Stopped(c) /\ settled' = settled \cup {has[c]}
                  /\ UNCHANGED <<ids, items, attempts, open, waiters, resumed>>

Exhausted(n) == n >= MaxTries

\* The finalizer: one attempt more, unless the handler was interrupted.
PutBack(c, n) ==
  /\ Stopped(c) /\ attempts' = [attempts EXCEPT ![has[c]] = n] /\ UNCHANGED ids
  /\ IF Exhausted(n) THEN settled' = settled \cup {has[c]} /\ UNCHANGED <<items, open, waiters, resumed>>
     ELSE items' = Append(items, has[c]) /\ OpenLatch /\ UNCHANGED settled
\* Mutant: a failed attempt does not count.
FailForFree(c) == taker[c] = "running" /\ PutBack(c, attempts[has[c]])
FailTake(c) == taker[c] = "running" /\ PutBack(c, attempts[has[c]] + 1)
InterruptHandler(c) == taker[c] = "running" /\ PutBack(c, attempts[has[c]])

StopWaiting(c) ==
  /\ Quiet /\ taker[c] = "waiting" /\ taker' = [taker EXCEPT ![c] = "idle"]
  /\ \E n \in DOMAIN waiters : waiters[n] = c /\ waiters' = RemoveAt(waiters, n)
  /\ UNCHANGED <<ids, items, attempts, open, resumed, has, settled>>

MemoryNext == \/ \E i \in Elements : OfferElement(i)
              \/ \E c \in Takers : \/ TakeElement(c) \/ SucceedTake(c) \/ FailTake(c)
                                    \/ InterruptHandler(c) \/ StopWaiting(c)
              \/ Resume

MemorySpec == MemoryInit /\ [][MemoryNext]_memoryVars
MemoryFairSpec ==
  /\ MemorySpec /\ WF_memoryVars(Resume)
  /\ \A c \in Takers : WF_memoryVars(TakeElement(c)) /\ SF_memoryVars(SucceedTake(c) \/ FailTake(c))

--------------------------------------------------------------------------
(* Properties.                                                             *)

\* Each item is worked on by one consumer at a time and not after it is done
\* (PersistedQueue.ts:321-353).
MemoryPromise == INSTANCE WorkQueue WITH
  Items <- Elements, Consumers <- Takers, offered <- ids,
  workers <- [i \in Elements |-> {c \in Takers : taker[c] = "running" /\ has[c] = i}]
MemoryImplementsWorkQueue == MemoryPromise!Spec

\* Nobody waits at the latch while there are items (PersistedQueue.ts:327, 335-337,
\* 347-348).
NoStrandedTaker == Quiet /\ items # <<>> => waiters = <<>>

\* "Takes an element from the queue, waiting until one is available when the
\* queue is empty." (PersistedQueue.ts:78-79): a take does not die instead.
NoDefect == \A c \in Takers : taker[c] # "defect"

\* What the latch keeps. Two takes that wait for one item are the exception.
MemoryQueueSafe == NoStrandedTaker /\ (OneTaker => NoDefect)

\* "marking it complete on success or retrying it until the maximum attempts is
\* reached" (PersistedQueue.ts:56-57, 338-350): an item that can be decoded is taken
\* until it is settled, behind whatever item that cannot.
ElementsSettle == \A i \in Elements \ Undecodable : i \in ids ~> i \in settled
===========================================================================

------------------------------ MODULE MCStores ------------------------------
(*****************************************************************************)
(* What is kept under a key until it is settled: the entries of an RcMap, the *)
(* persisted queue over its SQL store and the in-memory one, side by side.   *)
(* Clients, faults and offers are bounded.                                   *)
(*****************************************************************************)
EXTENDS RcMap, PersistedQueue, MemoryQueue, TLC

VARIABLES
  part,   \* the component that runs
  BRows, BOrder, BMailbox, BTakers, BPollLatch, BTakenLatch, BPoll, BPc,
  BHeld, BFaults,
  SRows, SOrder, SMailbox, STakers, SPollLatch, STakenLatch, SPoll, SPc,
  SHeld, SFaults

\* Two workers with a consumer each.
HomeOf == "c1" :> "w1" @@ "c2" :> "w2"

\* A worker with two consumers, one of two items cannot be decoded.
B == INSTANCE PersistedQueue WITH
  Nobody <- Nobody, None <- None, Expiration <- 2, Long <- FALSE,
  Workers <- {"w1"}, Consumers <- {"c1", "c2"},
  Home <- "c1" :> "w1" @@ "c2" :> "w1", Items <- {"i1", "i2"}, Bad <- {"i2"},
  MaxAttempts <- 2, Yields <- FALSE, MaxFaults <- 1, rows <- BRows,
  order <- BOrder, mailbox <- BMailbox, takers <- BTakers,
  pollLatch <- BPollLatch, takenLatch <- BTakenLatch, poll <- BPoll,
  pc <- BPc, held <- BHeld, faults <- BFaults
Bvars == <<BRows, BOrder, BMailbox, BTakers, BPollLatch, BTakenLatch, BPoll,
  BPc, BHeld, BFaults>>

\* Two workers, one item and a fault.
S == INSTANCE PersistedQueue WITH
  Nobody <- Nobody, None <- None, Expiration <- 2, Long <- FALSE,
  Workers <- {"w1", "w2"}, Consumers <- {"c1", "c2"},
  Home <- "c1" :> "w1" @@ "c2" :> "w2", Items <- {"i1"}, Bad <- {},
  MaxAttempts <- 2, Yields <- FALSE, MaxFaults <- 1, rows <- SRows,
  order <- SOrder, mailbox <- SMailbox, takers <- STakers,
  pollLatch <- SPollLatch, takenLatch <- STakenLatch, poll <- SPoll,
  pc <- SPc, held <- SHeld, faults <- SFaults
Svars == <<SRows, SOrder, SMailbox, STakers, SPollLatch, STakenLatch, SPoll,
  SPc, SHeld, SFaults>>

ASSUME /\ RcMapAssumption
       /\ PersistedQueueAssumption
       /\ MemoryQueueAssumption
       /\ B!PersistedQueueAssumption
       /\ S!PersistedQueueAssumption

allVars == <<part, vars, storeVars, memoryVars, Bvars, Svars>>

\* A behaviour is one of one component; the others stay as they begin.
AllInit == /\ part \in {"map", "store", "memory", "batch", "live store"}
           /\ Init
           /\ StoreInit
           /\ MemoryInit
           /\ B!StoreInit
           /\ S!StoreInit
           /\ part # "map" => ttl = 0
AllNext == \/ part = "map" /\ Next /\ UNCHANGED <<part, storeVars, memoryVars, Bvars, Svars>>
           \/ part = "store" /\ StoreNext /\ UNCHANGED <<part, vars, memoryVars, Bvars, Svars>>
           \/ part = "memory" /\ MemoryNext /\ UNCHANGED <<part, vars, storeVars, Bvars, Svars>>
           \/ part = "batch" /\ B!StoreNext /\ UNCHANGED <<part, vars, storeVars, memoryVars, Svars>>
           \/ part = "live store" /\ S!StoreNext /\ UNCHANGED <<part, vars, storeVars, memoryVars, Bvars>>
\* The fairness each component states.
AllFairSpec == /\ AllInit /\ [][AllNext]_allVars
               /\ WF_vars(part = "map" /\ IdleStep)
               /\ WF_vars(part = "map" /\ Tick)
               /\ WF_vars(part = "map" /\ CloseMap)
               /\ WF_Svars(part = "live store" /\ S!LocksAge)
               /\ \A w \in {"w1", "w2"} : WF_Svars(part = "live store" /\ S!Polls(w))
               /\ \A w \in {"w1", "w2"} : WF_Svars(part = "live store" /\ S!Idle(w))
               /\ \A c \in {"c1", "c2"} : WF_Svars(part = "live store" /\ S!Take(c))
               /\ \A c \in {"c1", "c2"} : WF_Svars(part = "live store" /\ S!Receive(c))
               /\ \A c \in {"c1", "c2"} : WF_Svars(part = "live store" /\ S!Started(c))
               /\ \A c \in {"c1", "c2"} : WF_Svars(part = "live store" /\ S!Ends(c))
               /\ WF_memoryVars(part = "memory" /\ Resume)
               /\ \A c \in Takers : WF_memoryVars(part = "memory" /\ TakeElement(c))
               /\ \A c \in Takers : SF_memoryVars(part = "memory" /\ (SucceedTake(c) \/ FailTake(c)))

--------------------------------------------------------------------------
(* Properties: those of the components.                                    *)

\* All stores are work queues: one consumer at a time works on an item, and not after
\* it is settled, with several consumers of a worker, items that cannot be decoded and
\* a second attempt (PersistedQueue.ts:172-186, 1028-1170), and in memory (321-353).
StoresAreWorkQueues ==
  /\ B!ImplementsWorkQueue
  /\ S!ImplementsWorkQueue
  /\ MemoryImplementsWorkQueue

\* What is kept comes to an end:
\* An idle entry is used again or released (RcMap.ts:382-415).
\* Every item is completed or has used up its attempts (PersistedQueue.ts:172-186, 1028-1099).
\* In memory every item that can be decoded is (PersistedQueue.ts:338-350).
ItemsSettle ==
  /\ part = "map" => IdleEnds
  /\ S!StoredItemsSettle
  /\ part = "memory" => ElementsSettle
=============================================================================

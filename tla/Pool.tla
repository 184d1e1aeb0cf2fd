------------------------------- MODULE Pool -------------------------------
(***************************************************************************)
(* Pool.ts of the pinned Effect source: items that fibers borrow, a resize  *)
(* that allocates or reclaims them, invalidation, expiry by both strategies *)
(* and shutdown. The pool's own semaphore is a PermitPool of                *)
(* Concurrency * Max permits, one for each get past semaphore.take(1); its   *)
(* queue is not repeated here. Time to live ends at any moment.              *)
(***************************************************************************)
EXTENDS Integers, FiniteSets, Sequences

CONSTANTS Borrowers, Concurrency, MinSize, MaxSize,
          Utilization,      \* targetUtilization in tenths
          Strategy,         \* "noop", "creation" or "usage"
          MaxPoolGets, MaxFailures, MaxPoolInvalidates

\* What the constants have to satisfy.
PoolAssumption == /\ IsFiniteSet(Borrowers) /\ Concurrency \in Nat \ {0} /\ Utilization \in 1 .. 10
                  /\ MinSize \in Nat /\ MaxSize \in Nat /\ MinSize <= MaxSize
                  /\ Strategy \in {"noop", "creation", "usage"}

VARIABLES item,         \* every item so far: [ok, refCount, open, disableReclaim]
          pool,         \* State: [items, available, invalidated]
          borrower,     \* where each fiber is: [at, of]
          resizers,     \* resize fibers that wait for resizeSemaphore
          resizing,     \* the one that has it: [on, allocs, failed]
          latch, flush, \* availableLatch: open, and a scheduled flushWaiters
          phase,        \* "open", "closing", "shutting", "draining", "closed"
          visited, owed,\* shutdown: items seen, permits taken of its semaphore
          poolGets, failures, poolInvalidates

shutdownVars == <<phase, visited, owed>>
resizeVars == <<resizers, resizing>>
latchVars == <<latch, flush>>
bounds == <<poolGets, failures, poolInvalidates>>
poolVars == <<item, pool, borrower, resizeVars, latchVars, shutdownVars, bounds>>

Still == [on |-> FALSE, allocs |-> 0, failed |-> FALSE]

PoolInit == /\ item = <<>>
            /\ pool = [items |-> {}, available |-> {}, invalidated |-> {}]
            /\ borrower = [u \in Borrowers |-> [at |-> "idle", of |-> 0]]
            /\ resizers = 1 /\ resizing = Still     \* make forks a resize
            /\ latch = FALSE /\ flush = FALSE
            /\ phase = "open" /\ visited = {} /\ owed = 0
            /\ poolGets = 0 /\ failures = 0 /\ poolInvalidates = 0

isShuttingDown == phase \in {"shutting", "draining", "closed"}
At(p) == {u \in Borrowers : borrower[u].at = p}
waiters == Cardinality(At("loop") \cup At("latched"))
Goes(u, p, i) == borrower' = [borrower EXCEPT ![u] = [at |-> p, of |-> i]]

\* Mutant: the maximum is forgotten.
targetUnbounded(n) ==
  LET wanted == (10 * (n + Cardinality(At("holding")) + waiters)) \div (Utilization * Concurrency)
  IN IF isShuttingDown THEN 0 ELSE IF wanted < MinSize THEN MinSize ELSE wanted

\* Mutant: the get that asks is not counted.
usageSoFar(n) == waiters + Cardinality({u \in At("holding") : borrower[u].of \in pool.items})
\* currentUsage: the waiters and the references, n more waiters counted.
currentUsage(n) == n + waiters
  + Cardinality({u \in At("holding") : borrower[u].of \in pool.items})
CeilDiv(a, b) == (a + b - 1) \div b
targetSize(n) ==
  LET wanted == CeilDiv(10 * currentUsage(n), Utilization * Concurrency)
      atLeast == IF wanted < MinSize THEN MinSize ELSE wanted
  IN IF isShuttingDown THEN 0 ELSE IF atLeast > MaxSize THEN MaxSize ELSE atLeast
activeSize == Cardinality(pool.items) - Cardinality(pool.invalidated)

Without(i) == [items |-> pool.items \ {i}, available |-> pool.available \ {i},
               invalidated |-> pool.invalidated \ {i}]

\* forkIn(resize, scope): in a closed scope the fiber is interrupted at once.
ForkResize == resizers' = IF phase = "open" THEN resizers + 1 ELSE resizers

\* Mutant: an invalidated item that is in use stays available.
InvalidateLater(i, it) ==
  \/ i \notin pool.items /\ item' = it /\ UNCHANGED <<pool, resizers>>
  \/ /\ i \in pool.items /\ it[i].refCount = 0
     /\ pool' = Without(i) /\ item' = [it EXCEPT ![i].open = FALSE] /\ ForkResize
  \/ /\ i \in pool.items /\ it[i].refCount > 0
     /\ pool' = [pool EXCEPT !.invalidated = @ \cup {i}]
     /\ item' = it /\ UNCHANGED resizers

\* invalidatePoolItem, once the items are as in it.
InvalidatePoolItem(i, it) ==
  \/ i \notin pool.items /\ item' = it /\ UNCHANGED <<pool, resizers>>
  \/ /\ i \in pool.items /\ it[i].refCount = 0
     /\ pool' = Without(i) /\ item' = [it EXCEPT ![i].open = FALSE] /\ ForkResize
  \/ /\ i \in pool.items /\ it[i].refCount > 0
     /\ pool' = [pool EXCEPT !.invalidated = @ \cup {i}, !.available = @ \ {i}]
     /\ item' = it /\ UNCHANGED resizers

--------------------------------------------------------------------------
\* get: fibers queue for a permit of the pool's semaphore.
GetItem(u) ==
  /\ borrower[u].at = "idle" /\ poolGets < MaxPoolGets /\ poolGets' = poolGets + 1
  /\ ~isShuttingDown /\ Goes(u, "queued", 0)
  /\ UNCHANGED <<item, pool, resizeVars, latchVars, shutdownVars, failures, poolInvalidates>>

InterruptGet(u) ==
  /\ borrower[u].at = "queued" /\ Goes(u, "idle", 0)
  /\ UNCHANGED <<item, pool, resizeVars, latchVars, shutdownVars, bounds>>

\* getPoolItem: the item is taken; a failed one is reported and thrown away.
Serve(u) ==
  \E i \in pool.available :
    \/ /\ ~item[i].ok /\ pool' = Without(i) /\ Goes(u, "idle", 0)
       /\ UNCHANGED item
    \/ /\ item[i].ok /\ item' = [item EXCEPT ![i].refCount = @ + 1]
       /\ pool' = IF item[i].refCount + 1 < Concurrency THEN pool
                  ELSE [pool EXCEPT !.available = @ \ {i}]
       /\ Goes(u, "holding", i)

\* getPoolItemInner: with enough items there is one to be had, or so it takes
\* it: headUnsafe of an empty set is a defect.
Enter(u) ==
  /\ borrower[u].at = "queued"
  /\ Cardinality(At("holding")) + waiters < Concurrency * MaxSize
  /\ \/ isShuttingDown /\ Goes(u, "idle", 0) /\ UNCHANGED <<item, pool>>
     \/ /\ ~isShuttingDown /\ targetSize(1) > activeSize
        /\ Goes(u, "loop", 0) /\ UNCHANGED <<item, pool>>
     \/ ~isShuttingDown /\ targetSize(1) <= activeSize /\ Serve(u)
     \/ /\ ~isShuttingDown /\ targetSize(1) <= activeSize /\ pool.available = {}
        /\ Goes(u, "defect", 0) /\ UNCHANGED <<item, pool>>
  /\ UNCHANGED <<resizeVars, latchVars, shutdownVars, bounds>>

\* getPoolItemInner: the body of its loop, up to the wait for the latch.
Loop(u) ==
  /\ borrower[u].at = "loop"
  /\ IF resizing.on THEN UNCHANGED resizers ELSE ForkResize
  /\ \/ isShuttingDown /\ Goes(u, "idle", 0) /\ UNCHANGED <<item, pool, latch>>
     \/ ~isShuttingDown /\ Serve(u) /\ UNCHANGED latch
     \/ /\ ~isShuttingDown /\ pool.available = {}
        /\ latch' = FALSE /\ Goes(u, "latched", 0) /\ UNCHANGED <<item, pool>>
  /\ UNCHANGED <<resizing, flush, shutdownVars, bounds>>

Awake == [u \in Borrowers |-> IF borrower[u].at = "latched" THEN [at |-> "loop", of |-> 0] ELSE borrower[u]]
FlushWaiters == /\ flush /\ flush' = FALSE /\ borrower' = Awake
                /\ UNCHANGED <<item, pool, resizeVars, latch, shutdownVars, bounds>>

\* The scope of a get closes: its finalizer. An item that was invalidated goes,
\* and during a shutdown its finalizer gives a permit to the shutdown.
ReleaseItem(u) ==
  /\ borrower[u].at = "holding" /\ Goes(u, "idle", 0)
  /\ LET i == borrower[u].of
         left == [item EXCEPT ![i].refCount = @ - 1]
     IN /\ IF i \in pool.invalidated THEN InvalidatePoolItem(i, left)
           ELSE /\ item' = left /\ UNCHANGED resizers
                /\ pool' = [pool EXCEPT !.available = @ \cup {i}]
        /\ owed' = IF i \in visited /\ left[i].refCount = 0 THEN owed - 1 ELSE owed
  /\ UNCHANGED <<resizing, latchVars, phase, visited, bounds>>

InvalidateItem(i) ==
  /\ i \in pool.items /\ item[i].ok /\ ~isShuttingDown
  /\ poolInvalidates < MaxPoolInvalidates /\ poolInvalidates' = poolInvalidates + 1
  /\ InvalidatePoolItem(i, [item EXCEPT ![i].disableReclaim = TRUE])
  /\ UNCHANGED <<borrower, resizing, latchVars, shutdownVars, poolGets, failures>>

\* The strategy's fiber: by age, or as long as there are more than needed.
Expire(i) ==
  /\ i \in pool.items \ pool.invalidated /\ phase = "open"
  /\ Strategy = "creation" \/ (Strategy = "usage" /\ activeSize > targetSize(0))
  /\ poolInvalidates < MaxPoolInvalidates /\ poolInvalidates' = poolInvalidates + 1
  /\ InvalidatePoolItem(i, item)
  /\ UNCHANGED <<borrower, resizing, latchVars, shutdownVars, poolGets, failures>>

--------------------------------------------------------------------------
\* resizeLoop: as many as are missing are reclaimed, or else allocated.
Reclaimable == {i \in pool.invalidated : Strategy = "usage" /\ ~item[i].disableReclaim}
Batch ==
  LET missing == targetSize(0) - activeSize
  IN \E S \in SUBSET Reclaimable :
       /\ Cardinality(S) = IF Cardinality(Reclaimable) < missing
                           THEN Cardinality(Reclaimable) ELSE missing
       /\ pool' = [pool EXCEPT !.invalidated = @ \ S,
                     !.available = @ \cup {i \in S : item[i].refCount < Concurrency}]
       /\ resizing' = [on |-> TRUE, allocs |-> missing - Cardinality(S), failed |-> FALSE]

StartResize ==
  /\ resizers > 0 /\ ~resizing.on
  /\ resizers' = resizers - 1
  /\ IF targetSize(0) > activeSize THEN Batch ELSE UNCHANGED <<pool, resizing>>
  /\ UNCHANGED <<item, borrower, latchVars, shutdownVars, bounds>>

\* allocate: a failed acquire becomes an item too, for a get to report.
Allocate ==
  /\ resizing.on /\ resizing.allocs > 0
  /\ \E ok \in BOOLEAN :
       /\ ok \/ failures < MaxFailures
       /\ failures' = IF ok THEN failures ELSE failures + 1
       /\ item' = Append(item, [ok |-> ok, refCount |-> 0, open |-> ok, disableReclaim |-> FALSE])
       /\ resizing' = [resizing EXCEPT !.allocs = @ - 1, !.failed = @ \/ ~ok]
  /\ pool' = [pool EXCEPT !.items = @ \cup {Len(item')}, !.available = @ \cup {Len(item')}]
  /\ UNCHANGED <<borrower, resizers, latchVars, shutdownVars, poolGets, poolInvalidates>>

\* Mutant: a batch with a failure wakes nobody.
EndGoodBatch ==
  /\ resizing.on /\ resizing.allocs = 0
  /\ latch' = (latch \/ ~resizing.failed)
  /\ flush' = (flush \/ (~resizing.failed /\ ~latch /\ At("latched") # {}))
  /\ IF ~resizing.failed /\ targetSize(0) > activeSize THEN Batch
     ELSE resizing' = Still /\ UNCHANGED pool
  /\ UNCHANGED <<item, borrower, resizers, shutdownVars, bounds>>

\* The batch is there: availableLatch.open, and once more unless one failed.
EndBatch ==
  /\ resizing.on /\ resizing.allocs = 0
  /\ latch' = TRUE /\ flush' = (flush \/ (~latch /\ At("latched") # {}))
  /\ IF ~resizing.failed /\ targetSize(0) > activeSize THEN Batch
     ELSE resizing' = Still /\ UNCHANGED pool
  /\ UNCHANGED <<item, borrower, resizers, shutdownVars, bounds>>

--------------------------------------------------------------------------
\* The scope closes: the fibers forked in it are interrupted first.
ClosePool ==
  /\ phase = "open" /\ phase' = "closing"
  /\ resizers' = 0 /\ resizing' = Still
  /\ UNCHANGED <<item, pool, borrower, latchVars, visited, owed, bounds>>

ShutdownBegins ==
  /\ phase = "closing" /\ phase' = "shutting"
  /\ UNCHANGED <<item, pool, borrower, resizeVars, latchVars, visited, owed, bounds>>

\* Mutant: shutdown does not wait for anybody.
VisitAll(i) ==
  /\ phase = "shutting" /\ i \in pool.items \ visited
  /\ visited' = visited \cup {i} /\ UNCHANGED owed
  /\ pool' = Without(i) /\ item' = [item EXCEPT ![i].open = FALSE]
  /\ UNCHANGED <<borrower, resizeVars, latchVars, phase, bounds>>

\* Mutant: an item in use is left as it is.
VisitIdle(i) ==
  /\ phase = "shutting" /\ i \in pool.items \ visited
  /\ visited' = visited \cup {i}
  /\ \/ item[i].refCount > 0 /\ owed' = owed + 1 /\ UNCHANGED <<pool, item>>
     \/ /\ item[i].refCount = 0 /\ UNCHANGED owed
        /\ pool' = Without(i) /\ item' = [item EXCEPT ![i].open = FALSE]
  /\ UNCHANGED <<borrower, resizeVars, latchVars, phase, bounds>>

\* shutdown: an idle item is released; one in use will be, and owes a permit.
Visit(i) ==
  /\ phase = "shutting" /\ i \in pool.items \ visited
  /\ visited' = visited \cup {i}
  /\ \/ /\ item[i].refCount > 0 /\ owed' = owed + 1
        /\ pool' = [pool EXCEPT !.invalidated = @ \cup {i}] /\ UNCHANGED item
     \/ /\ item[i].refCount = 0 /\ UNCHANGED owed
        /\ pool' = Without(i) /\ item' = [item EXCEPT ![i].open = FALSE]
  /\ UNCHANGED <<borrower, resizeVars, latchVars, phase, bounds>>

\* semaphore.releaseAll, of the local semaphore; then openUnsafe.
ShutdownReleases ==
  /\ phase = "shutting" /\ pool.items \subseteq visited
  /\ owed' = 0 /\ phase' = "draining"
  /\ latch' = TRUE
  /\ borrower' = IF latch THEN borrower ELSE Awake
  /\ flush' = (flush /\ latch)
  /\ UNCHANGED <<item, pool, resizeVars, visited, bounds>>

\* semaphore.take(size)
ShutdownEnds ==
  /\ phase = "draining" /\ owed <= 0 /\ phase' = "closed"
  /\ UNCHANGED <<item, pool, borrower, resizeVars, latchVars, visited, owed, bounds>>

UserStep(u) == Enter(u) \/ Loop(u) \/ ReleaseItem(u)
PoolStep == FlushWaiters \/ StartResize \/ Allocate \/ EndBatch
Shutdown == ShutdownBegins \/ (\E i \in pool.items : Visit(i)) \/ ShutdownReleases \/ ShutdownEnds

PoolNext == \/ \E u \in Borrowers : GetItem(u) \/ InterruptGet(u) \/ UserStep(u)
            \/ \E i \in pool.items : InvalidateItem(i) \/ Expire(i)
            \/ PoolStep \/ ClosePool \/ Shutdown

PoolSpec == PoolInit /\ [][PoolNext]_poolVars
\* Scopes close in the end and acquisitions end; nobody has to get or close.
PoolFairSpec == PoolSpec /\ WF_poolVars(PoolStep) /\ WF_poolVars(Shutdown) /\ \A u \in Borrowers : WF_poolVars(UserStep(u))

--------------------------------------------------------------------------
(* Properties.                                                             *)

\* The bookkeeping agrees: references are held, what may be borrowed is
\* available and nothing else (Pool.ts:429-465, 524-540, 650-686).
Consistent ==
  /\ \A i \in DOMAIN item : item[i].refCount = Cardinality({u \in Borrowers : borrower[u].of = i})
  /\ \A i \in DOMAIN item : item[i].refCount <= Concurrency
  /\ pool.invalidated \cup pool.available \subseteq pool.items
  /\ ~isShuttingDown => pool.available
       = {i \in pool.items \ pool.invalidated : item[i].refCount < Concurrency}

\* headUnsafe always finds an item: enough active items for the usage means
\* that one of them is free (Pool.ts:473, 487, 588-605).
NoDefect == At("defect") = {}

\* Nobody is left with a released item: not by invalidate, expiry, reclaim or
\* shutdown (Pool.ts:377-397, 524-540, 668-685).
NoReleasedItemHeld == \A u \in At("holding") : item[borrower[u].of].open

\* The pool never holds more active items than its maximum, though resizes are
\* forked by every get and every invalidation (Pool.ts:542-559).
SizeBound == activeSize + resizing.allocs <= MaxSize

\* Every get ends: with an item, with the error of an acquire or interrupted
\* (Pool.ts:410-411, 429-488).
GetsEnd == \A u \in Borrowers :
  borrower[u].at \in {"queued", "loop", "latched"} ~> borrower[u].at \in {"idle", "holding"}

\* After the shutdown every item is released as soon as nobody holds it
\* (Pool.ts:382-393, 452-454).
PoolLeaksNothing ==
  phase = "closed" /\ At("holding") = {} => \A i \in DOMAIN item : ~item[i].open

\* What a pool keeps.
PoolSafe == Consistent /\ NoDefect /\ NoReleasedItemHeld /\ SizeBound /\ PoolLeaksNothing

\* "releases all acquired values when the pool scope closes" (Pool.ts:5-6)
ClosedMeansReleased == phase = "closed" => \A i \in DOMAIN item : ~item[i].open
==========================================================================

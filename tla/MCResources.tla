---------------------------- MODULE MCResources -----------------------------
(*****************************************************************************)
(* Resources that fibers share: RcRef, Semaphore, Pool and LayerMemo, and the *)
(* hazards of RcRef and RcMap, side by side. Clients are bounded and stop.   *)
(*****************************************************************************)
EXTENDS RcRef, Pool, LayerMemo, TLC

VARIABLES
  part,   \* the component that runs
  HState, HEntry, HUser, HClosed, HPermit, HTtl, HGets, HInvalidates,
  NMap, NEntry, NUser, NState, NTtl, NNow, NInvalidates,
  YPermits, YTaken, YWaiters, YPc, YRunning, YCursor, YTasks, YRounds,
  YResizes, YResets,
  FItem, FPool, FUser, FResizers, FResizing, FLatch, FFlush, FPhase,
  FVisited, FOwed, FGets, FFailures, FInvalidates,
  SItem, SPool, SUser, SResizers, SResizing, SLatch, SFlush, SPhase,
  SVisited, SOwed, SGets, SFailures, SInvalidates,
  LEntries, LCurrent, LPc, LEntry

\* A map, its child and its grandchild; builders with the first and the last.
MapOfBuilder == "u1" :> "m1" @@ "u2" :> "m3"
AncestryOfMap == "m1" :> <<"m1">> @@ "m2" :> <<"m2", "m1">> @@ "m3" :> <<"m3", "m2", "m1">>

\* Overlapping, partial and late gets.
H == INSTANCE RcRef WITH
  Nobody <- Nobody, MaxEntries <- 4, MaxGets <- 5, MaxInvalidates <- 1,
  Users <- {"a", "b"}, Hazards <- {"overlap", "partial", "closing"},
  Ttls <- {"none", "finite", "infinite"}, state <- HState, entry <- HEntry,
  user <- HUser, closed <- HClosed, permit <- HPermit, ttl <- HTtl,
  gets <- HGets, invalidates <- HInvalidates
Hvars == <<HState, HEntry, HUser, HClosed, HPermit, HTtl, HGets, HInvalidates>>

\* Two keys and room for one entry, with both hazards.
N == INSTANCE RcMap WITH
  Users <- {"a", "b"}, Capacity <- 1, Infinity <- 9, MaxTime <- 2,
  MaxInvalidates <- 1, MaxEntries <- 3, Keys <- {"k", "l"},
  Hazards <- {"reget", "yield"}, Ttls <- {0, 1, 9}, map <- NMap,
  entry <- NEntry, user <- NUser, state <- NState, ttl <- NTtl, now <- NNow,
  invalidates <- NInvalidates
Nvars == <<NMap, NEntry, NUser, NState, NTtl, NNow, NInvalidates>>

\* withPermits where the scheduler may yield between any two primitives, and releaseAll.
Y == INSTANCE Semaphore WITH
  Fibers <- {"a", "b", "c"},
  Need <- [f \in {"a", "b", "c"} |-> IF f = "b" THEN 2 ELSE 1],
  Nobody <- Nobody, Sizes <- {1, 2},
  IfAvailable <- {}, MayYield <- TRUE, MaxRounds <- 1, MaxResizes <- 1,
  MaxReleaseAlls <- 1, permits <- YPermits, taken <- YTaken,
  waiters <- YWaiters, pc <- YPc, running <- YRunning, cursor <- YCursor,
  tasks <- YTasks, rounds <- YRounds, resizes <- YResizes, resets <- YResets
Yvars == <<YPermits, YTaken, YWaiters, YPc, YRunning, YCursor, YTasks,
  YRounds, YResizes, YResets>>

\* One item, for which two users wait.
F == INSTANCE Pool WITH
  MaxPoolInvalidates <- 1, MaxFailures <- 1, Borrowers <- {"a", "b"},
  Concurrency <- 1, MinSize <- 1, MaxSize <- 1, Utilization <- 10,
  Strategy <- "noop", MaxPoolGets <- 3, item <- FItem, pool <- FPool,
  borrower <- FUser, resizers <- FResizers, resizing <- FResizing,
  latch <- FLatch, flush <- FFlush, phase <- FPhase, visited <- FVisited,
  owed <- FOwed, poolGets <- FGets, failures <- FFailures,
  poolInvalidates <- FInvalidates
Fvars == <<FItem, FPool, FUser, FResizers, FResizing, FLatch, FFlush, FPhase,
  FVisited, FOwed, FGets, FFailures, FInvalidates>>

\* Two users per item, half utilization, items that expire by age.
S == INSTANCE Pool WITH
  MaxPoolInvalidates <- 1, MaxFailures <- 0, Borrowers <- {"a", "b", "c"},
  Concurrency <- 2, MinSize <- 1, MaxSize <- 2, Utilization <- 5,
  Strategy <- "creation", MaxPoolGets <- 3, item <- SItem, pool <- SPool,
  borrower <- SUser, resizers <- SResizers, resizing <- SResizing,
  latch <- SLatch, flush <- SFlush, phase <- SPhase, visited <- SVisited,
  owed <- SOwed, poolGets <- SGets, failures <- SFailures,
  poolInvalidates <- SInvalidates
Svars == <<SItem, SPool, SUser, SResizers, SResizing, SLatch, SFlush, SPhase,
  SVisited, SOwed, SGets, SFailures, SInvalidates>>

\* One map, builds that begin while the last instance is being released.
L == INSTANCE LayerMemo WITH
  MaxObservers <- 2, Builders <- {"u1", "u2", "u3"},
  Maps <- {"m1"}, MapOf <- [u \in {"u1", "u2", "u3"} |-> "m1"],
  Ancestry <- [m \in {"m1"} |-> <<m>>], MaxMemoEntries <- 2, Yields <- FALSE,
  Rebuild <- TRUE, memo <- LEntries, memoized <- LCurrent, stage <- LPc,
  uses <- LEntry
Lvars == <<LEntries, LCurrent, LPc, LEntry>>

ASSUME /\ RcRefAssumption
       /\ PoolAssumption
       /\ LayerMemoAssumption
       /\ H!RcRefAssumption
       /\ N!RcMapAssumption
       /\ Y!SemaphoreAssumption
       /\ F!PoolAssumption
       /\ S!PoolAssumption
       /\ L!LayerMemoAssumption

allVars == <<part, vars, poolVars, layerVars, Hvars, Nvars, Yvars, Fvars, Svars, Lvars>>

\* A behaviour is one of one component; the others stay as they begin.
AllInit == /\ part \in {"ref", "elastic pool", "forked maps", "any ref", "any map",
                        "permits", "fixed pool", "shared pool", "layer"}
           /\ Init
           /\ PoolInit
           /\ LayerInit
           /\ H!Init
           /\ N!Init
           /\ Y!Init
           /\ F!PoolInit
           /\ S!PoolInit
           /\ L!LayerInit
           /\ part # "ref" => ttl = "finite"
           /\ part # "any ref" => HTtl = "finite"
           /\ part # "any map" => NTtl = 0
           /\ part # "permits" => YPermits = 1
AllNext == \/ part = "ref" /\ Next /\ UNCHANGED <<part, poolVars, layerVars, Hvars, Nvars, Yvars, Fvars, Svars, Lvars>>
           \/ part = "elastic pool" /\ PoolNext /\ UNCHANGED <<part, vars, layerVars, Hvars, Nvars, Yvars, Fvars, Svars, Lvars>>
           \/ part = "forked maps" /\ LayerNext /\ UNCHANGED <<part, vars, poolVars, Hvars, Nvars, Yvars, Fvars, Svars, Lvars>>
           \/ part = "any ref" /\ H!Next /\ UNCHANGED <<part, vars, poolVars, layerVars, Nvars, Yvars, Fvars, Svars, Lvars>>
           \/ part = "any map" /\ N!Next /\ UNCHANGED <<part, vars, poolVars, layerVars, Hvars, Yvars, Fvars, Svars, Lvars>>
           \/ part = "permits" /\ Y!Next /\ UNCHANGED <<part, vars, poolVars, layerVars, Hvars, Nvars, Fvars, Svars, Lvars>>
           \/ part = "fixed pool" /\ F!PoolNext /\ UNCHANGED <<part, vars, poolVars, layerVars, Hvars, Nvars, Yvars, Svars, Lvars>>
           \/ part = "shared pool" /\ S!PoolNext /\ UNCHANGED <<part, vars, poolVars, layerVars, Hvars, Nvars, Yvars, Fvars, Lvars>>
           \/ part = "layer" /\ L!LayerNext /\ UNCHANGED <<part, vars, poolVars, layerVars, Hvars, Nvars, Yvars, Fvars, Svars>>
\* The fairness each component states.
AllFairSpec == /\ AllInit /\ [][AllNext]_allVars
               /\ WF_vars(part = "ref" /\ IdleStep)
               /\ \A u \in Users : WF_vars(part = "ref" /\ Step(u))
               /\ WF_Fvars(part = "fixed pool" /\ F!PoolStep)
               /\ WF_Fvars(part = "fixed pool" /\ F!Shutdown)
               /\ \A u \in {"a", "b"} : WF_Fvars(part = "fixed pool" /\ F!UserStep(u))
               /\ \A u \in {"u1", "u2", "u3"} : WF_Lvars(part = "layer" /\ L!Builds(u))
               /\ WF_Lvars(part = "layer" /\ (\E e \in L!MemoIds : L!ScopeClosed(e)))

--------------------------------------------------------------------------
(* Properties: those of the components.                                    *)

\* What they keep as well when clients do anything, or with other sizes: overlapping,
\* partial and late gets (rcRef.ts:85-133); a key that is looked up behind an
\* invalidated entry, a get that yields (RcMap.ts:296-345, 376-415); yields and
\* releaseAll between the primitives of withPermits (Semaphore.ts:205-293); one item,
\* or two borrowers for each (Pool.ts:429-540, 588-605); builds that begin while the
\* last instance is being released (Layer.ts:389-408).
VariantsSafe ==
  /\ H!RefSafe
  /\ N!MapSafe
  /\ Y!SemaphoreSafe
  /\ F!PoolSafe
  /\ S!PoolSafe
  /\ L!LayerSafe

\* Who waits is answered and what is idle ends:
\* An idle resource is used again or released (rcRef.ts:152-166).
\* Every get of a fixed pool ends (Pool.ts:410-488).
\* Every build has an answer (Layer.ts:403-408).
ResourcesSettle ==
  /\ part = "ref" => IdleEnds
  /\ F!GetsEnd
  /\ L!BuildsEnd
=============================================================================

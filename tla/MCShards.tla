------------------------------ MODULE MCShards ------------------------------
(*****************************************************************************)
(* The shard locks of a cluster of two runners, twice side by side. Crashes  *)
(* and failures are bounded.                                                 *)
(*****************************************************************************)
EXTENDS ShardLocks

VARIABLES
  part,   \* the component that runs
  VLock, VHeartbeat, VUp, VView, VSelf, VAcquired, VReleasing, VProcessing,
  VCleared, VAcquire, VRefresh, VCrashes, VFailures

\* HashRing: the shard belongs to r1 while r1 is there.
Ring == [V \in SUBSET Runners \ {{}} |-> [s \in Shards |-> IF "r1" \in V THEN "r1" ELSE "r2"]]

\* The same with refreshes that overlap a release, and fair loops.
V == INSTANCE ShardLocks WITH
  Runners <- Runners, Shards <- Shards, Nobody <- Nobody, Expiration <- Expiration,
  Assignment <- Ring, Late <- FALSE, Stale <- TRUE, MaxCrashes <- 1,
  MaxFailures <- 0, lock <- VLock, heartbeat <- VHeartbeat, up <- VUp,
  view <- VView, self <- VSelf, acquired <- VAcquired,
  releasing <- VReleasing, processing <- VProcessing, cleared <- VCleared,
  acquire <- VAcquire, refresh <- VRefresh, crashes <- VCrashes,
  failures <- VFailures
Vvars == <<VLock, VHeartbeat, VUp, VView, VSelf, VAcquired, VReleasing,
  VProcessing, VCleared, VAcquire, VRefresh, VCrashes, VFailures>>

ASSUME /\ ShardLocksAssumption
       /\ V!ShardLocksAssumption

allVars == <<part, vars, Vvars>>

\* A behaviour is one of one component; the others stay as they begin.
AllInit == /\ part \in {"locks", "fair"}
           /\ Init
           /\ V!Init
AllNext == \/ part = "locks" /\ Next /\ UNCHANGED <<part, Vvars>>
           \/ part = "fair" /\ V!Next /\ UNCHANGED <<part, vars>>
\* The fairness each component states.
AllFairSpec == /\ AllInit /\ [][AllNext]_allVars
               /\ WF_Vvars(part = "fair" /\ V!Tick)
               /\ \A r \in Runners : WF_Vvars(part = "fair" /\ V!Sync(r))
               /\ \A r \in Runners : WF_Vvars(part = "fair" /\ V!Restart(r))
               /\ \A r \in Runners : SF_Vvars(part = "fair" /\ V!Acquires(r))
               /\ \A r \in Runners : SF_Vvars(part = "fair" /\ V!Refreshes(r))
               /\ \A r \in Runners : WF_Vvars(part = "fair" /\ V!Releases(r, "s1"))

--------------------------------------------------------------------------
(* Properties: those of the components.                                    *)

\* Every shard finds a runner again after a crash (Sharding.ts:344-416),
\* also if refreshes overlap a release (Sharding.ts:289-373).
ShardsComeBack == part = "fair" => V!EveryShardProcessed
=============================================================================

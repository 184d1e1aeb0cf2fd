\* A crash or shutdown and a failing statement.
SPECIFICATION AllFairSpec
CONSTANTS
  Runners = {"r1", "r2"}
  Shards = {"s1"}
  Nobody = Nobody
  Expiration = 2
  Assignment <- Ring
  Late = FALSE
  Stale = FALSE
  MaxCrashes = 1
  MaxFailures = 1
\* Crashes are bounded, and a cluster may be shut down.
CHECK_DEADLOCK FALSE
INVARIANTS ShardsSafe
PROPERTIES ShardsComeBack

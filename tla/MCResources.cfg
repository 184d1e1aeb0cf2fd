\* Gets that do not overlap, close at a quiet moment.
SPECIFICATION AllFairSpec
CONSTANTS
  Users = {"a", "b"}
  Hazards = {}
  Ttls = {"finite", "infinite"}
  MaxEntries = 4
  MaxGets = 5
  MaxInvalidates = 1
  Nobody = Nobody
\* Up to two items that expire by usage.
  Borrowers = {"a", "b"}
  Concurrency = 1
  MinSize = 0
  MaxSize = 2
  Utilization = 10
  Strategy = "usage"
  MaxPoolGets = 3
  MaxPoolInvalidates = 1
  MaxFailures = 1
\* A map forked twice, and interruption between the bookkeeping and its effect.
  Maps = {"m1", "m2", "m3"}
  Builders = {"u1", "u2"}
  MapOf <- MapOfBuilder
  Ancestry <- AncestryOfMap
  MaxObservers = 2
  MaxMemoEntries = 2
  Yields = TRUE
  Rebuild = FALSE
\* Clients stop.
CHECK_DEADLOCK FALSE
INVARIANTS RefSafe PoolSafe LayerSafe VariantsSafe
PROPERTIES ResourcesSettle

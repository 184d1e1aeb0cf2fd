\* withPermits by two fibers, withPermitsIfAvailable by one, interruption, a resize.
SPECIFICATION AllFairSpec
CONSTANTS
  Fibers = {"a", "b", "c"}
  Need <- AskOf
  IfAvailable = {"c"}
  Sizes = {1, 2}
  Nobody = Nobody
  MayYield = FALSE
  MaxRounds = 2
  MaxResizes = 1
  MaxReleaseAlls = 0
\* Requests of two keys that fill a batch, behind a cache of one value.
  Requests = {"r1", "r2", "r3"}
  Batches = {"b1", "b2"}
  None = "none"
  Key <- KeyOf
  Value <- ValueOf
  Limit = 2
  Cached = TRUE
  Capacity = 1
  Immediate = FALSE
  Orphans = FALSE
\* Results that persisted requests find in their store.
  Nothing = Nothing
  Unreadable = Unreadable
\* Clients stop.
CHECK_DEADLOCK FALSE
INVARIANTS SemaphoreSafe RequestsSafe
PROPERTIES ImplementsPermitPool AnswersKept WaitersGoOn

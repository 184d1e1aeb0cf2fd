\* One key that is not looked up again behind an invalidated entry.
SPECIFICATION AllFairSpec
CONSTANTS
  Keys = {"k"}
  Users = {"a", "b"}
  Hazards = {}
  Ttls = {0, 1, 9}
  Capacity = 1
  Infinity = 9
  MaxTime = 2
  MaxInvalidates = 1
  MaxEntries = 3
\* Two workers with a consumer each and two items.
  Items = {"i1", "i2"}
  Workers = {"w1", "w2"}
  Consumers = {"c1", "c2"}
  Home <- HomeOf
  Nobody = Nobody
  None = None
  Bad = {}
  MaxAttempts = 1
  Expiration = 2
  Long = FALSE
  Yields = TRUE
  MaxFaults = 1
\* In memory three items, one of which cannot be decoded, where one consumer waits
\* at a time.
  Elements = {"i1", "i2", "i3"}
  Takers = {"c1", "c2"}
  Undecodable = {"i3"}
  NoElement = NoElement
  MaxTries = 2
  OneTaker = TRUE
\* Clients stop.
CHECK_DEADLOCK FALSE
INVARIANTS MapSafe LocksHeld MemoryQueueSafe
PROPERTIES ImplementsWorkQueue StoresAreWorkQueues ItemsSettle

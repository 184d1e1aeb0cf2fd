\* Transactions that fail and are interrupted anywhere.
SPECIFICATION AllFairSpec
CONSTANTS
  Txns = {"go", "back", "slow", "audit"}
  Refs = {"x", "y"}
  Program <- Transfers
  InitialValue <- OneInX
  SlowRetry = FALSE
  MayFail = TRUE
  MayInterrupt = TRUE
\* Two producers and two consumers of one place, with end and fail.
  Producers = {"p", "q"}
  Consumers = {"c", "d"}
  Capacity = 1
  Strategy = "suspend"
  Least = 1
  Most = 1
  MayYield = FALSE
  MayWithdraw = TRUE
  MayEnd = TRUE
  MayShutdown = FALSE
  MaxOffers = 2
  MaxTakes = 2
\* Clients stop.
CHECK_DEADLOCK FALSE
INVARIANTS TransactionsSafe QueueSafe
PROPERTIES ImplementsAtomic QueuesAreFifo CallersAnswered

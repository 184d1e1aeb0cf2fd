------------------------------ MODULE MCQueues ------------------------------
(*****************************************************************************)
(* What fibers hand to each other: the values of TxRefs and of a Queue with  *)
(* each strategy, side by side. Clients are bounded and stop.                *)
(*****************************************************************************)
EXTENDS Transaction, Queue, TLC

VARIABLES
  part,   \* the component that runs
  RMessages, ROffers, RTakers, RTag, RCapacity, RScheduleRunning, RTasks,
  RPc, RHand, RWaiting, RStack, RLast, RTaken, RLost, ROffered, RTakes,
  LMessages, LOffers, LTakers, LTag, LCapacity, LScheduleRunning, LTasks,
  LPc, LHand, LWaiting, LStack, LLast, LTaken, LLost, LOffered, LTakes,
  DMessages, DOffers, DTakers, DTag, DCapacity, DScheduleRunning, DTasks,
  DPc, DHand, DWaiting, DStack, DLast, DTaken, DLost, DOffered, DTakes

\* Two transfers that need each other, one that looks before it puts back, an audit.
Op(o, r) == [op |-> o, ref |-> r]
Transfers == "go" :> <<Op("take", "x"), Op("put", "y")>> @@ "back" :> <<Op("take", "y"), Op("put", "x")>>
             @@ "slow" :> <<Op("take", "y"), Op("read", "x"), Op("put", "y")>>
             @@ "audit" :> <<Op("read", "x"), Op("read", "y")>>
OneInX == "x" :> 1 @@ "y" :> 0

\* No place at all, so that values go from hand to hand, and shutdown.
R == INSTANCE Queue WITH
  Producers <- {"p", "q"}, Consumers <- {"c", "d"}, MayWithdraw <- TRUE,
  MayEnd <- TRUE, Capacity <- 0, Strategy <- "suspend", Least <- 1,
  Most <- 1, MayYield <- FALSE, MayShutdown <- TRUE, MaxOffers <- 2,
  MaxTakes <- 2, messages <- RMessages, offers <- ROffers, takers <- RTakers,
  tag <- RTag, capacity <- RCapacity, scheduleRunning <- RScheduleRunning,
  releases <- RTasks, place <- RPc, hand <- RHand, waiting <- RWaiting,
  stack <- RStack, last <- RLast, taken <- RTaken, lost <- RLost,
  offered <- ROffered, takes <- RTakes
Rvars == <<RMessages, ROffers, RTakers, RTag, RCapacity, RScheduleRunning,
  RTasks, RPc, RHand, RWaiting, RStack, RLast, RTaken, RLost, ROffered,
  RTakes>>

\* A sliding queue under yields, read in batches, with shutdown.
L == INSTANCE Queue WITH
  Producers <- {"p", "q"}, Consumers <- {"c", "d"}, MayWithdraw <- TRUE,
  MayEnd <- TRUE, Capacity <- 2, Strategy <- "sliding", Least <- 1,
  Most <- 2, MayYield <- TRUE, MayShutdown <- TRUE, MaxOffers <- 2,
  MaxTakes <- 1, messages <- LMessages, offers <- LOffers, takers <- LTakers,
  tag <- LTag, capacity <- LCapacity, scheduleRunning <- LScheduleRunning,
  releases <- LTasks, place <- LPc, hand <- LHand, waiting <- LWaiting,
  stack <- LStack, last <- LLast, taken <- LTaken, lost <- LLost,
  offered <- LOffered, takes <- LTakes
Lvars == <<LMessages, LOffers, LTakers, LTag, LCapacity, LScheduleRunning,
  LTasks, LPc, LHand, LWaiting, LStack, LLast, LTaken, LLost, LOffered,
  LTakes>>

\* A dropping queue under yields.
D == INSTANCE Queue WITH
  Producers <- {"p", "q"}, Consumers <- {"c", "d"}, MayWithdraw <- TRUE,
  MayEnd <- TRUE, Capacity <- 1, Strategy <- "dropping", Least <- 1,
  Most <- 1, MayYield <- TRUE, MayShutdown <- FALSE, MaxOffers <- 2,
  MaxTakes <- 1, messages <- DMessages, offers <- DOffers, takers <- DTakers,
  tag <- DTag, capacity <- DCapacity, scheduleRunning <- DScheduleRunning,
  releases <- DTasks, place <- DPc, hand <- DHand, waiting <- DWaiting,
  stack <- DStack, last <- DLast, taken <- DTaken, lost <- DLost,
  offered <- DOffered, takes <- DTakes
Dvars == <<DMessages, DOffers, DTakers, DTag, DCapacity, DScheduleRunning,
  DTasks, DPc, DHand, DWaiting, DStack, DLast, DTaken, DLost, DOffered,
  DTakes>>

ASSUME /\ TransactionAssumption
       /\ QueueAssumption
       /\ R!QueueAssumption
       /\ L!QueueAssumption
       /\ D!QueueAssumption

allVars == <<part, vars, queueVars, Rvars, Lvars, Dvars>>

\* A behaviour is one of one component; the others stay as they begin.
AllInit == /\ part \in {"transactions", "suspend", "rendezvous", "sliding",
                        "dropping"}
           /\ Init
           /\ QueueInit
           /\ R!QueueInit
           /\ L!QueueInit
           /\ D!QueueInit
AllNext == \/ part = "transactions" /\ Next /\ UNCHANGED <<part, queueVars, Rvars, Lvars, Dvars>>
           \/ part = "suspend" /\ QueueNext /\ UNCHANGED <<part, vars, Rvars, Lvars, Dvars>>
           \/ part = "rendezvous" /\ R!QueueNext /\ UNCHANGED <<part, vars, queueVars, Lvars, Dvars>>
           \/ part = "sliding" /\ L!QueueNext /\ UNCHANGED <<part, vars, queueVars, Rvars, Dvars>>
           \/ part = "dropping" /\ D!QueueNext /\ UNCHANGED <<part, vars, queueVars, Rvars, Lvars>>
\* The fairness each component states.
AllFairSpec == /\ AllInit /\ [][AllNext]_allVars
               /\ \A t \in Txns : WF_vars(part = "transactions" /\ Step(t))
               /\ WF_queueVars(part = "suspend" /\ Loops)
               /\ \A f \in Fibers : WF_queueVars(part = "suspend" /\ FiberStep(f))

--------------------------------------------------------------------------
(* Properties: those of the components.                                    *)

\* Every queue is a Fifo, and the others keep what the first keeps:
\* Without capacity a take lets offers in itself (Queue.ts:1366-1372, 1885-1917).
\* Only the oldest or the newest values are given up, the rest keeps its order, also
\* where fibers yield and are interrupted (Queue.ts:640-690).
QueuesAreFifo ==
  /\ ImplementsFifo
  /\ []R!QueueSafe
  /\ []L!QueueSafe
  /\ []D!QueueSafe
  /\ R!ImplementsFifo
  /\ L!ImplementsFifo
  /\ D!ImplementsFifo

\* Who waits is answered:
\* A retry ends unless what it takes keeps going away (Effect.ts:14676-14720).
\* A take that waits in an ended queue is answered (Queue.ts:924-939, 1948-1962).
CallersAnswered ==
  /\ part = "transactions" => RetriesEnd
  /\ part = "suspend" => EndedTakesEnd
=============================================================================

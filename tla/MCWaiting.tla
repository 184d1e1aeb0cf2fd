----------------------------- MODULE MCWaiting ------------------------------
(*****************************************************************************)
(* Fibers that wait: for the permits of a semaphore, and for the answers of  *)
(* requests that are sent together, side by side. Clients are bounded and stop. *)
(*****************************************************************************)
EXTENDS Semaphore, RequestBatch

CONSTANTS Nothing, Unreadable

VARIABLES
  part,   \* the component that runs
  UPc, UAnswer, UCurrent, UAt, UEntries, UEntrySet, USent, UCache,
  UFollowers, UBound,
  PStore, PRemoving, PAt, PAnswer, PLeftover, PToPersist, PResolved,
  FStore, FRemoving, FAt, FAnswer, FLeftover, FToPersist, FResolved

AskOf == [f \in Fibers |-> IF f = "b" THEN 2 ELSE 1]

\* Two equal requests and a third of another key.
KeyOf == [r \in Requests |-> IF r = "r3" THEN "k2" ELSE "k1"]
ValueOf == [r \in Requests |-> IF r = "r3" THEN "v2" ELSE "v1"]

\* Three requests of one key, of which two fill a batch, with delays that may
\* complete at once.
U == INSTANCE RequestBatch WITH
  Requests <- {"r1", "r2", "r3"}, Batches <- {"b1", "b2"}, None <- "none",
  Limit <- 2, Capacity <- 1, Orphans <- FALSE, Immediate <- TRUE,
  Key <- [r \in {"r1", "r2", "r3"} |-> "k1"],
  Value <- [r \in {"r1", "r2", "r3"} |-> IF r = "r3" THEN "v2" ELSE "v1"],
  Cached <- FALSE, status <- UPc, answer <- UAnswer, current <- UCurrent,
  at <- UAt, entries <- UEntries, entrySet <- UEntrySet, sent <- USent,
  cache <- UCache, followers <- UFollowers, bound <- UBound
Uvars == <<UPc, UAnswer, UCurrent, UAt, UEntries, UEntrySet, USent, UCache,
  UFollowers, UBound>>

\* Two batches over a store, with resolvers that succeed.
P == INSTANCE PersistedRequests WITH
  Persisted <- {"e1", "e2"}, Calls <- {"n1", "n2"}, Nothing <- Nothing, Unreadable <- Unreadable,
  Transient <- {}, Fails <- FALSE, Slow <- FALSE,
  stored <- PStore, removing <- PRemoving, turn <- PAt, given <- PAnswer,
  leftover <- PLeftover, toPersist <- PToPersist, resolved <- PResolved
Pvars == <<PStore, PRemoving, PAt, PAnswer, PLeftover, PToPersist, PResolved>>

\* The same with resolvers that may fail, of which one kind of failure is not stored.
F == INSTANCE PersistedRequests WITH
  Persisted <- {"e1", "e2"}, Calls <- {"n1", "n2"}, Nothing <- Nothing, Unreadable <- Unreadable,
  Transient <- {<<"e2", "failure">>}, Fails <- TRUE, Slow <- FALSE,
  stored <- FStore, removing <- FRemoving, turn <- FAt, given <- FAnswer,
  leftover <- FLeftover, toPersist <- FToPersist, resolved <- FResolved
Fvars == <<FStore, FRemoving, FAt, FAnswer, FLeftover, FToPersist, FResolved>>

ASSUME /\ SemaphoreAssumption
       /\ RequestBatchAssumption
       /\ U!RequestBatchAssumption
       /\ P!PersistedRequestsAssumption
       /\ F!PersistedRequestsAssumption

allVars == <<part, vars, batchVars, Uvars, Pvars, Fvars>>

\* A behaviour is one of one component; the others stay as they begin.
AllInit == /\ part \in {"semaphore", "cached", "uncached", "persisted", "failing"}
           /\ Init
           /\ BatchInit
           /\ U!BatchInit
           /\ P!PersistedInit
           /\ F!PersistedInit
           /\ part # "semaphore" => permits = 1
           /\ part # "persisted" => PStore = P!Unanswered
           /\ part # "failing" => FStore = F!Unanswered
AllNext == \/ part = "semaphore" /\ Next /\ UNCHANGED <<part, batchVars, Uvars, Pvars, Fvars>>
           \/ part = "cached" /\ BatchNext /\ UNCHANGED <<part, vars, Uvars, Pvars, Fvars>>
           \/ part = "uncached" /\ U!BatchNext /\ UNCHANGED <<part, vars, batchVars, Pvars, Fvars>>
           \/ part = "persisted" /\ P!PersistedNext /\ UNCHANGED <<part, vars, batchVars, Uvars, Fvars>>
           \/ part = "failing" /\ F!PersistedNext /\ UNCHANGED <<part, vars, batchVars, Uvars, Pvars>>
\* The fairness each component states.
AllFairSpec == /\ AllInit /\ [][AllNext]_allVars
               /\ WF_vars(part = "semaphore" /\ Wake)
               /\ \A f \in Fibers : WF_vars(part = "semaphore" /\ FiberStep(f))
               /\ \A b \in Batches : WF_batchVars(part = "cached" /\ BatchRuns(b))
               /\ \A b \in {"b1", "b2"} : WF_Uvars(part = "uncached" /\ U!BatchRuns(b))

--------------------------------------------------------------------------
(* Properties: those of the components.                                    *)

\* What is kept of requests besides: who waits is in one batch without a cache and
\* with delays that complete at once, too (request.ts:84-205); what was missing is
\* stored as it was answered, and what is resolved again replaces the stored result
\* unless resolvers fail; and a result stays until its time is over, also if they do
\* (RequestResolver.ts:1206-1246).
AnswersKept ==
  /\ [](part = "uncached" => U!InOneBatch)
  /\ P!StoredAsAnswered /\ P!Refreshed
  /\ F!ResultsStay

\* Who waits goes on:
\* Who asks for no more than there is gets it (Semaphore.ts:205-253).
\* Every request has an answer in the end (request.ts:129-167).
WaitersGoOn ==
  /\ part = "semaphore" => EveryWaiterServed
  /\ part = "cached" => RequestsEnd
  /\ U!RequestsEnd
=============================================================================

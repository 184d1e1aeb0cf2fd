---------------------------- MODULE RequestBatch ----------------------------
(***************************************************************************)
(* Effect.request: requests of one key are collected in a batch, which runs    *)
(* after a delay or when it is full (internal/request.ts), with the cache of    *)
(* RequestResolver.withCache in front of it if Cached.                        *)
(***************************************************************************)
EXTENDS Naturals, FiniteSets, FiniteSetsExt

CONSTANTS Requests, Batches, None,
          Key, Value,     \* of each request: its batchKey, what equality sees
          Limit,          \* batchN
          Cached, Capacity,
          Immediate,      \* the delay may complete without suspending (makeWith, setDelayEffect)
          Orphans         \* a request others rely on is interrupted before it is sent

\* What the constants have to satisfy.
RequestBatchAssumption ==
  /\ IsFiniteSet(Requests) /\ None \notin Batches \cup Requests
  /\ {Limit, Capacity} \subseteq Nat \ {0}
  /\ {Cached, Orphans, Immediate} \subseteq BOOLEAN
  \* the pool of batches is never full
  /\ Immediate => IsFiniteSet(Batches) /\ Cardinality(Batches) <= 128

VARIABLES status,         \* "idle", "waiting", "done", "interrupted" or "defect"
          answer,         \* what a request was completed by
          current,        \* the map: the batch of each key that still collects
          at,             \* batches: "free", "delay", "due", "running"
          entries, entrySet, sent,
          cache,          \* per value: the entry, and whether its exit is there
          followers,      \* entries that are completed with an entry
          bound           \* entries that are uninterruptible

batches == <<current, at, entries, entrySet, sent>>
caching == <<cache, followers, bound>>
batchVars == <<status, answer, batches, caching>>

Keys == {Key[r] : r \in Requests}
Values == {Value[r] : r \in Requests}
Missing == [entry |-> None, exit |-> FALSE]

BatchInit == /\ status = [r \in Requests |-> "idle"] /\ answer = [r \in Requests |-> None]
             /\ current = [k \in Keys |-> None] /\ at = [b \in Batches |-> "free"]
             /\ entries = [b \in Batches |-> {}] /\ entrySet = [b \in Batches |-> {}]
             /\ sent = [b \in Batches |-> {}]
             /\ cache = [v \in Values |-> Missing]
             /\ followers = [r \in Requests |-> {}] /\ bound = {}

--------------------------------------------------------------------------
\* collectWhile of batchN.
Full(S) == Cardinality(S) >= Limit

\* addEntry: into the batch of the key, or a new one; a full batch runs at once.
Collect(r) ==
  \E b \in Batches :
    /\ IF current[Key[r]] = None THEN at[b] = "free" ELSE b = current[Key[r]]
    /\ entries' = [entries EXCEPT ![b] = @ \cup {r}]
    /\ entrySet' = [entrySet EXCEPT ![b] = @ \cup {r}]
    /\ at' = [at EXCEPT ![b] = IF Full(entries'[b]) THEN "due" ELSE "delay"]
    /\ current' = [current EXCEPT ![Key[r]] = IF Full(entries'[b]) THEN None ELSE b]
    /\ UNCHANGED sent

\* Its preCheck lets the request in, and the map has no batch of its key.
Opens(r) == status[r] = "idle" /\ current[Key[r]] = None /\ (Cached => cache[Value[r]] = Missing)
Added(r) == IF Cached THEN [cache EXCEPT ![Value[r]].entry = r] ELSE cache

\* addEntry with a delay that completes at once: before r is added, the map forgets
\* the batch and runAll gets the entries the pool left in it. Here it suspends, and
\* the end of the run answers r too.
RequestWhileRunning(r) ==
  /\ Immediate /\ Opens(r)
  /\ \E b \in Batches :
       /\ at[b] = "free" /\ at' = [at EXCEPT ![b] = "running"] /\ sent' = [sent EXCEPT ![b] = entries[b]]
       /\ entries' = [entries EXCEPT ![b] = @ \cup {r}] /\ entrySet' = [entrySet EXCEPT ![b] = @ \cup {r}]
  /\ status' = [status EXCEPT ![r] = "waiting"] /\ cache' = Added(r)
  /\ UNCHANGED <<answer, current, followers, bound>>

\* preCheck of withCache: the first entry of a value is kept, later ones are
\* answered from it or linked to it.
Request(r) ==
  /\ status[r] = "idle"
  /\ LET c == cache[Value[r]]
     IN \/ /\ ~Cached /\ Collect(r) /\ status' = [status EXCEPT ![r] = "waiting"] /\ UNCHANGED <<answer, caching>>
        \/ /\ Cached /\ c = Missing /\ Collect(r) /\ status' = [status EXCEPT ![r] = "waiting"]
           /\ cache' = [cache EXCEPT ![Value[r]].entry = r] /\ UNCHANGED <<answer, followers, bound>>
        \/ /\ Cached /\ c.exit /\ status' = [status EXCEPT ![r] = "done"]
           /\ answer' = [answer EXCEPT ![r] = answer[c.entry]] /\ UNCHANGED <<batches, caching>>
        \/ /\ Cached /\ c # Missing /\ ~c.exit /\ status' = [status EXCEPT ![r] = "waiting"]
           /\ followers' = [followers EXCEPT ![c.entry] = @ \cup {r}] /\ bound' = bound \cup {c.entry}
           /\ UNCHANGED <<answer, batches, cache>>

\* runBatch: the map forgets the batch, then runAll gets its entries.
DelayEnds(b) == /\ at[b] = "delay" /\ at' = [at EXCEPT ![b] = "due"]
                /\ current' = [k \in Keys |-> IF current[k] = b THEN None ELSE current[k]]
                /\ UNCHANGED <<status, answer, entries, entrySet, sent, caching>>
Start(b) == /\ at[b] = "due" /\ at' = [at EXCEPT ![b] = "running"]
            /\ sent' = [sent EXCEPT ![b] = entries[b]]
            /\ UNCHANGED <<status, answer, current, entries, entrySet, caching>>

\* completeUnsafe of the entries S, with those linked to them: the first call counts.
Linked(S) == S \cup UNION {followers[r] : r \in S}
Answer(S, b) ==
  /\ status' = [r \in Requests |-> IF r \in Linked(S) /\ status[r] = "waiting" THEN "done" ELSE status[r]]
  /\ answer' = [r \in Requests |-> IF r \in Linked(S) /\ answer[r] = None THEN b ELSE answer[r]]
Stored(S) == {v \in Values : cache[v].entry \in S}

\* The resolver completes an entry.
Complete(b, r) ==
  /\ at[b] = "running" /\ r \in sent[b] /\ answer[r] = None /\ Answer({r}, b)
  /\ entrySet' = [entrySet EXCEPT ![b] = @ \ {r}]
  /\ cache' = [v \in Values |-> IF v \in Stored({r}) THEN [cache[v] EXCEPT !.exit = TRUE] ELSE cache[v]]
  /\ UNCHANGED <<current, at, entries, sent, followers, bound>>

\* Mutant: what the resolver left undone is forgotten.
Recycle(b) == UNCHANGED <<status, answer>>
\* The rest is completed by the batch itself.
AnswerRest(b) == Answer(entrySet[b], b)

\* withCache: the cache is cut to its capacity.
Evicted(c) == LET full == {v \in Values : c[v] # Missing}
              IN IF Cardinality(full) <= Capacity THEN {c}
                 ELSE {[v \in Values |-> IF v \in kept THEN c[v] ELSE Missing] : kept \in kSubset(Capacity, full)}

\* Mutant: the entries of the last run stay in the batch.
Untidy(b) == entries' = entries
Tidy(b) == entries' = [entries EXCEPT ![b] = {}]

\* run ends, and the batch goes to the pool.
RunEnds(b) ==
  /\ at[b] = "running" /\ AnswerRest(b) /\ Tidy(b)
  /\ at' = [at EXCEPT ![b] = "free"]
  /\ entrySet' = [entrySet EXCEPT ![b] = {}] /\ sent' = [sent EXCEPT ![b] = {}]
  /\ cache' \in Evicted([v \in Values |-> IF v \in Stored(entrySet[b]) THEN [cache[v] EXCEPT !.exit = TRUE] ELSE cache[v]])
  /\ UNCHANGED <<current, followers, bound>>

\* The same delay, and the run is over when addEntry goes on: runAll has ended and r
\* is added to a batch of the pool, or r fills the batch and interrupts runAll. The
\* batch has no resolver and no map then, and the caller dies of it.
RequestTooLate(r) ==
  /\ Immediate /\ Opens(r)
  /\ \E b \in Batches, left \in {{}, {r}} :
       LET S == entrySet[b] \cup ({r} \ left)
           c == Added(r)
       IN /\ at[b] = "free" /\ (left = {} => Full(entries[b] \cup {r}))
          /\ status' = [q \in Requests |-> IF q = r THEN "defect"
                          ELSE IF q \in Linked(S) /\ status[q] = "waiting" THEN "done" ELSE status[q]]
          /\ answer' = [q \in Requests |-> IF q \in Linked(S) /\ answer[q] = None THEN b ELSE answer[q]]
          /\ entries' = [entries EXCEPT ![b] = left] /\ entrySet' = [entrySet EXCEPT ![b] = left]
          /\ cache' \in Evicted([v \in Values |-> IF c[v].entry \in S THEN [c[v] EXCEPT !.exit = TRUE] ELSE c[v]])
  /\ UNCHANGED <<current, at, sent, followers, bound>>

\* Mutant: others may rely on the entry, it is taken out all the same.
RemovableAlways(r) == {current[Key[r]]} \ {None}
\* removeEntryUnsafe looks only where entries are still collected.
Removable(r) == IF r \in bound THEN {} ELSE {current[Key[r]]} \ {None}

RemoveEntry(r) ==
  LET from == Removable(r)
      emptied == {b \in from : entries[b] \subseteq {r}}
  IN /\ entries' = [b \in Batches |-> IF b \in from THEN entries[b] \ {r} ELSE entries[b]]
     /\ entrySet' = [b \in Batches |-> IF b \in from THEN entrySet[b] \ {r} ELSE entrySet[b]]
     /\ current' = [k \in Keys |-> IF current[k] \in emptied THEN None ELSE current[k]]
     /\ at' = [b \in Batches |-> IF b \in emptied THEN "free" ELSE at[b]]

\* The fiber that waits is interrupted.
Unsent(r) == \E b \in Batches : r \in entries[b] /\ at[b] = "delay"
InterruptRequest(r) ==
  /\ status[r] = "waiting" /\ (Orphans \/ ~Cached \/ r \in bound \/ cache[Value[r]].entry # r \/ ~Unsent(r))
  /\ status' = [status EXCEPT ![r] = "interrupted"] /\ RemoveEntry(r)
  /\ UNCHANGED <<answer, sent, caching>>

BatchRuns(b) == DelayEnds(b) \/ Start(b) \/ RunEnds(b)
RequestsOver == (\A r \in Requests : status[r] \in {"done", "interrupted", "defect"}) /\ UNCHANGED batchVars
BatchNext == \/ \E r \in Requests : Request(r) \/ RequestWhileRunning(r) \/ RequestTooLate(r) \/ InterruptRequest(r)
             \/ \E b \in Batches : BatchRuns(b) \/ \E r \in Requests : Complete(b, r)
             \/ RequestsOver

BatchSpec == BatchInit /\ [][BatchNext]_batchVars
\* Delays and resolvers end.
BatchFairSpec == BatchSpec /\ \A b \in Batches : WF_batchVars(BatchRuns(b))

--------------------------------------------------------------------------
(* Properties.                                                             *)

\* "`runAll` receives a non-empty batch for one key" (RequestResolver.ts:166-167),
\* of at most Limit entries, which have no answer yet.
GoodBatches == \A b \in Batches :
  /\ at[b] = "running" => sent[b] # {}
  /\ at[b] = "due" => /\ entries[b] # {} /\ Cardinality(entries[b]) <= Limit
                      /\ Cardinality({Key[r] : r \in entries[b]}) = 1
                      /\ \A r \in entries[b] : answer[r] = None

\* No entry is in two batches, and those that wait are in one or linked to one
\* that is (request.ts:84-205).
InOneBatch == \A r \in Requests :
  /\ Cardinality({b \in Batches : r \in entries[b]}) <= 1
  /\ status[r] = "waiting" => \E q \in Requests : r \in Linked({q}) /\ \E b \in Batches : q \in entrySet[b]

\* How requests are put together: good batches unless delays complete at once.
RequestsSafe == (~Immediate => GoodBatches) /\ InOneBatch

\* "Accepted entries must be completed. [...] the entry is not batched, so it must be
\* completed or linked to another completion path." (RequestResolver.ts:171-173):
\* every request has an answer in the end.
RequestsEnd == \A r \in Requests : status[r] = "waiting" ~> status[r] # "waiting"
===========================================================================

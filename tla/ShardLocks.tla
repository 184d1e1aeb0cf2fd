---------------------------- MODULE ShardLocks ----------------------------
(***************************************************************************)
(* Who processes a shard: the shard loops of Sharding.ts in every runner and *)
(* the lock and runner tables of SqlRunnerStorage.ts (the table locks of     *)
(* SQLite, SQL Server and shardLockDisableAdvisory), with crashes, restarts, *)
(* lost answers and locks that expire.                                       *)
(*                                                                          *)
(* Every statement is a request, a step of the database and an answer, and    *)
(* anything may happen in between. Ages count ticks; Expiration is too old.   *)
(***************************************************************************)
EXTENDS Integers, FiniteSets

CONSTANTS Runners, Shards, Nobody, Expiration,
          Assignment,     \* HashRing.getShards: the runner of each shard
          Late,           \* a lock may expire under a runner that is slow
          Stale,          \* a refresh may be on its way while a shard is released and asked for again
          MaxCrashes, MaxFailures

\* What the constants have to satisfy.
ShardLocksAssumption ==
  /\ Nobody \notin Runners /\ Expiration \in Nat \ {0} /\ {Late, Stale} \subseteq BOOLEAN
  /\ \A V \in SUBSET Runners \ {{}} : Assignment[V] \in [Shards -> V]

VARIABLES lock,        \* locksTable: [owner, age] of each shard
          heartbeat,   \* runnersTable: the age of last_heartbeat
          up,          \* the runners that run
          view,        \* healthyRunners, as each runner has seen them
          self, acquired, releasing,   \* selfShards, acquiredShards, releasingShards
          processing,  \* the shards whose entities run
          cleared,     \* the releasing shards whose entities are interrupted
          acquire, refresh,            \* statements on their way: [at, shards]
          crashes, failures

tables == <<lock, heartbeat>>
sets == <<self, acquired, releasing>>
statements == <<acquire, refresh>>
bounds == <<crashes, failures>>
vars == <<tables, up, view, sets, processing, cleared, statements, bounds>>

Free == [owner |-> Nobody, age |-> Expiration]
Ready == [at |-> "ready", shards |-> {}]
Empty == [r \in Runners |-> {}]

Init == /\ lock = [s \in Shards |-> Free]
        /\ heartbeat = [r \in Runners |-> Expiration]
        /\ up = Runners /\ view = Empty
        /\ self = Empty /\ acquired = Empty /\ releasing = Empty
        /\ processing = Empty /\ cleared = Empty
        /\ acquire = [r \in Runners |-> Ready] /\ refresh = [r \in Runners |-> Ready]
        /\ crashes = 0 /\ failures = 0

Expired(s) == lock[s].age = Expiration
Set(f, r, S) == [f EXCEPT ![r] = S]
Put(f, r, at, S) == [f EXCEPT ![r] = [at |-> at, shards |-> S]]

--------------------------------------------------------------------------
\* The sync loop: a runner that is not in the table registers; the shards are
\* assigned again when the healthy runners have changed.
Sync(r) ==
  /\ r \in up
  /\ heartbeat' = [heartbeat EXCEPT ![r] = IF @ = Expiration THEN 0 ELSE @]
  /\ view' = Set(view, r, {q \in Runners : heartbeat'[q] < Expiration})
  /\ self' = IF view'[r] = view[r] THEN self
             ELSE Set(self, r, {s \in Shards : Assignment[view'[r]][s] = r})
  /\ UNCHANGED <<lock, up, acquired, releasing, processing, cleared, statements, bounds>>

\* The shard loop: what is no longer assigned is to be released, what is not yet
\* acquired is asked for.
AcquireAsked(r) ==
  /\ r \in up /\ acquire[r].at = "ready"
  /\ acquired' = Set(acquired, r, acquired[r] \cap self[r])
  /\ releasing' = Set(releasing, r, releasing[r] \cup (acquired[r] \ self[r]))
  /\ LET wanted == self[r] \ (acquired'[r] \cup releasing'[r])
     IN /\ Stale \/ wanted \cap refresh[r].shards = {}
        /\ acquire' = IF wanted = {} THEN acquire ELSE Put(acquire, r, "asked", wanted)
  /\ UNCHANGED <<tables, up, view, self, processing, cleared, refresh, bounds>>

\* Mutant: an own lock may be taken over by anybody.
AnyLock(r, s) == TRUE
\* acquireLock: free, expired and own locks.
MayLock(r, s) == lock[s].owner \in {r, Nobody} \/ Expired(s)

AcquireRuns(r) ==
  /\ acquire[r].at = "asked"
  /\ LET won == {s \in acquire[r].shards : MayLock(r, s)}
     IN /\ lock' = [s \in Shards |-> IF s \in won THEN [owner |-> r, age |-> 0] ELSE lock[s]]
        /\ acquire' = Put(acquire, r, "answered", won)
  /\ UNCHANGED <<heartbeat, up, view, sets, processing, cleared, refresh, bounds>>

\* What is being released or assigned elsewhere by now is not used.
StillWanted(r) == (acquire[r].shards \cap self[r]) \ releasing[r]

AcquireAnswered(r) ==
  /\ acquire[r].at = "answered" /\ acquire' = Put(acquire, r, "ready", {})
  /\ acquired' = Set(acquired, r, acquired[r] \cup StillWanted(r))
  /\ UNCHANGED <<tables, up, view, self, releasing, processing, cleared, refresh, bounds>>

\* timeoutOption: the answer, or the statement itself, is given up.
AcquireTimesOut(r) ==
  /\ acquire[r].at # "ready" /\ failures < MaxFailures /\ failures' = failures + 1
  /\ acquire' = Put(acquire, r, "ready", {})
  /\ UNCHANGED <<tables, up, view, sets, processing, cleared, refresh, crashes>>

--------------------------------------------------------------------------
\* The refresh of the locks.
RefreshAsked(r) ==
  /\ r \in up /\ refresh[r].at = "ready"
  /\ refresh' = Put(refresh, r, "asked", acquired[r] \cup releasing[r])
  /\ UNCHANGED <<tables, up, view, sets, processing, cleared, acquire, bounds>>

RefreshRuns(r) ==
  /\ refresh[r].at = "asked"
  /\ LET kept == {s \in refresh[r].shards : lock[s].owner = r}
     IN /\ lock' = [s \in Shards |-> IF s \in kept THEN [lock[s] EXCEPT !.age = 0] ELSE lock[s]]
        /\ refresh' = Put(refresh, r, "answered", kept)
  /\ heartbeat' = [heartbeat EXCEPT ![r] = IF @ = Expiration THEN @ ELSE 0]
  /\ UNCHANGED <<up, view, sets, processing, cleared, acquire, bounds>>

RefreshAnswered(r) ==
  /\ refresh[r].at = "answered" /\ refresh' = Put(refresh, r, "ready", {})
  /\ LET kept == refresh[r].shards
     IN /\ acquired' = Set(acquired, r, (acquired[r] \cap kept) \ (kept \ self[r]))
        /\ releasing' = Set(releasing, r, releasing[r] \cup (acquired[r] \ kept) \cup (kept \ self[r]))
  /\ UNCHANGED <<tables, up, view, self, processing, cleared, acquire, bounds>>

\* All retries have failed: clearSelfShards.
RefreshFails(r) ==
  /\ refresh[r].at # "ready" /\ failures < MaxFailures /\ failures' = failures + 1
  /\ refresh' = Put(refresh, r, "ready", {}) /\ self' = Set(self, r, {})
  /\ UNCHANGED <<tables, up, view, acquired, releasing, processing, cleared, acquire, crashes>>

--------------------------------------------------------------------------
\* An entity of the shard gets a message.
Process(r, s) ==
  /\ r \in up /\ s \in acquired[r] /\ processing' = Set(processing, r, processing[r] \cup {s})
  /\ UNCHANGED <<tables, up, view, sets, cleared, statements, bounds>>

\* Mutant: the shard is let go without interrupting its entities.
LetGo(r, s) ==
  /\ s \in releasing[r] \ cleared[r] /\ cleared' = Set(cleared, r, cleared[r] \cup {s})
  /\ UNCHANGED <<tables, up, view, sets, processing, statements, bounds>>

\* releaseShard: interruptShard, release, and only then the bookkeeping.
InterruptShard(r, s) ==
  /\ s \in releasing[r] \ cleared[r]
  /\ processing' = Set(processing, r, processing[r] \ {s})
  /\ cleared' = Set(cleared, r, cleared[r] \cup {s})
  /\ UNCHANGED <<tables, up, view, sets, statements, bounds>>

\* Mutant: the lock goes first.
ReleaseEarly(r, s) ==
  /\ s \in releasing[r] /\ lock[s].owner = r
  /\ lock' = [lock EXCEPT ![s] = Free]
  /\ UNCHANGED <<heartbeat, up, view, sets, processing, cleared, statements, bounds>>

ReleaseRuns(r, s) ==
  /\ s \in cleared[r] /\ lock[s].owner = r
  /\ lock' = [lock EXCEPT ![s] = Free]
  /\ UNCHANGED <<heartbeat, up, view, sets, processing, cleared, statements, bounds>>

\* Mutant: the shard stays among those being released.
ReleasedHalf(r, s) ==
  /\ s \in cleared[r] /\ lock[s].owner # r
  /\ cleared' = Set(cleared, r, cleared[r] \ {s})
  /\ UNCHANGED <<tables, up, view, sets, processing, statements, bounds>>

Released(r, s) ==
  /\ s \in cleared[r] /\ lock[s].owner # r
  /\ releasing' = Set(releasing, r, releasing[r] \ {s})
  /\ cleared' = Set(cleared, r, cleared[r] \ {s})
  /\ UNCHANGED <<tables, up, view, self, acquired, processing, statements, bounds>>

\* The process ends: killed, or after its finalizers gave everything back.
Ends(r) ==
  /\ up' = up \ {r} /\ view' = Set(view, r, {})
  /\ self' = Set(self, r, {}) /\ acquired' = Set(acquired, r, {}) /\ releasing' = Set(releasing, r, {})
  /\ processing' = Set(processing, r, {}) /\ cleared' = Set(cleared, r, {})
  /\ acquire' = Put(acquire, r, "ready", {}) /\ refresh' = Put(refresh, r, "ready", {})
  /\ crashes' = crashes + 1 /\ UNCHANGED failures

Crash(r) == r \in up /\ crashes < MaxCrashes /\ Ends(r) /\ UNCHANGED tables

Shutdown(r) ==
  /\ r \in up /\ crashes < MaxCrashes /\ Ends(r)
  /\ heartbeat' = [heartbeat EXCEPT ![r] = Expiration]
  /\ lock' = [s \in Shards |-> IF lock[s].owner = r THEN Free ELSE lock[s]]

Restart(r) == /\ r \notin up /\ up' = up \cup {r}
              /\ UNCHANGED <<tables, view, sets, processing, cleared, statements, bounds>>

\* A tick in time: no runner's lock or heartbeat expires before its refresh.
Uses(r, s) == s \in acquired[r] \cup releasing[r] \cup processing[r] \cup acquire[r].shards
InTime == /\ \A s \in Shards : lock[s].owner \in up /\ Uses(lock[s].owner, s) => lock[s].age + 1 < Expiration
          /\ \A r \in up : heartbeat[r] + 1 # Expiration
Older(n) == IF n < Expiration THEN n + 1 ELSE n
Tick == /\ Late \/ InTime
        /\ lock' = [s \in Shards |-> [lock[s] EXCEPT !.age = Older(@)]]
        /\ heartbeat' = [r \in Runners |-> Older(heartbeat[r])]
        /\ UNCHANGED <<up, view, sets, processing, cleared, statements, bounds>>

Acquires(r) == AcquireAsked(r) \/ AcquireRuns(r) \/ AcquireAnswered(r)
Refreshes(r) == RefreshAsked(r) \/ RefreshRuns(r) \/ RefreshAnswered(r)
Releases(r, s) == InterruptShard(r, s) \/ ReleaseRuns(r, s) \/ Released(r, s)

Next == \/ \E r \in Runners : \/ Sync(r) \/ Acquires(r) \/ AcquireTimesOut(r)
                              \/ Refreshes(r) \/ RefreshFails(r)
                              \/ Crash(r) \/ Shutdown(r) \/ Restart(r)
                              \/ \E s \in Shards : Process(r, s) \/ Releases(r, s)
        \/ Tick

Spec == Init /\ [][Next]_vars
\* Loops repeat, statements are answered and time passes.
FairSpec == Spec /\ WF_vars(Tick) /\ \A r \in Runners :
  /\ WF_vars(Sync(r)) /\ WF_vars(Restart(r)) /\ SF_vars(Acquires(r)) /\ SF_vars(Refreshes(r))
  /\ \A s \in Shards : WF_vars(Releases(r, s))

--------------------------------------------------------------------------
(* Properties.                                                             *)

\* No two runners process a shard at a time (Sharding.ts:332-342, 363-373,
\* 289-300; SqlRunnerStorage.ts:387-424).
OneProcessor == \A r, q \in Runners : r # q => processing[r] \cap processing[q] = {}

\* "the active shards are the ones that we have acquired the lock for"
\* (Sharding.ts:244)
ActiveMeansLocked == \A r \in Runners : \A s \in acquired[r] : lock[s].owner = r

\* Entities run only while the shard is acquired or being released
\* (Sharding.ts:289-300, 403-416).
NoForgottenEntities == \A r \in Runners : processing[r] \subseteq acquired[r] \cup releasing[r]

\* What the runners keep between any two steps. The lock protects a shard only
\* from runners that refresh in time, and a refresh that was on its way while a
\* shard was given back and asked for again can take the new lock for the old
\* one (Sharding.ts:244, 289-300, 332-416).
ShardsSafe ==
  /\ NoForgottenEntities
  /\ ~Late /\ ~Stale => OneProcessor /\ ActiveMeansLocked

\* "if a shard has been assigned to this runner, we acquire it"
\* (Sharding.ts:344): every shard finds a runner again, whoever fails.
EveryShardProcessed == \A s \in Shards : []<>(\E r \in Runners : s \in acquired[r])
===========================================================================

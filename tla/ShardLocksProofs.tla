------------------------- MODULE ShardLocksProofs -------------------------
(***************************************************************************)
(* A shard is processed by one runner, which has its lock: for any number  *)
(* of runners, shards, crashes and failing statements.                     *)
(***************************************************************************)
EXTENDS ShardLocks, TLAPS

ShardSets == [Runners -> SUBSET Shards]
Statements == [at : {"ready", "asked", "answered"}, shards : SUBSET Shards]

TypeOK ==
  /\ lock \in [Shards -> [owner : Runners \cup {Nobody}, age : 0 .. Expiration]]
  /\ heartbeat \in [Runners -> 0 .. Expiration]
  /\ self \in ShardSets /\ acquired \in ShardSets /\ releasing \in ShardSets
  /\ processing \in ShardSets /\ cleared \in ShardSets
  /\ acquire \in [Runners -> Statements] /\ refresh \in [Runners -> Statements]
  /\ up \subseteq Runners

(* A runner that does not run has nothing.                                 *)
Gone(r) == /\ acquired[r] = {} /\ releasing[r] = {} /\ processing[r] = {} /\ cleared[r] = {}
           /\ acquire[r] = Ready /\ refresh[r] = Ready

(* A shard is acquired or being released; its entities run until it is     *)
(* cleared.                                                                *)
Apart(r) ==
  /\ r \notin up => Gone(r)
  /\ cleared[r] \subseteq releasing[r]
  /\ acquired[r] \cap releasing[r] = {}
  /\ processing[r] \subseteq acquired[r] \cup (releasing[r] \ cleared[r])

(* What is asked for is not held, being released or being refreshed.       *)
Anew(r) ==
  /\ acquire[r].at = "ready" => acquire[r].shards = {}
  /\ acquire[r].shards \cap (acquired[r] \cup releasing[r] \cup refresh[r].shards) = {}

(* Whoever has a shard, or is told so, has a lock that has not expired.    *)
Has(r, s) == lock[s].owner = r /\ ~Expired(s)
Locked(r) ==
  /\ \A s \in acquired[r] \cup processing[r] : Has(r, s)
  /\ acquire[r].at = "answered" => \A s \in acquire[r].shards : Has(r, s)

Timely == ~Late /\ ~Stale
IInv == /\ TypeOK
        /\ \A r \in Runners : Apart(r)
        /\ Timely => \A r \in Runners : Anew(r) /\ Locked(r)

--------------------------------------------------------------------------
LEMMA InitIInv == ShardLocksAssumption /\ Init => IInv
<1> SUFFICES ASSUME ShardLocksAssumption, Init PROVE IInv
  OBVIOUS
<1>1. TypeOK
  BY DEF ShardLocksAssumption, Init, TypeOK, Free, Empty, Ready, ShardSets, Statements
<1>. QED BY <1>1 DEF Init, IInv, Apart, Anew, Locked, Empty, Ready

(* A step that only looks at other runners or at the time.                 *)
LEMMA Quiet ==
    ASSUME IInv, UNCHANGED <<lock, up, acquired, releasing, processing, cleared, statements>>,
           heartbeat' \in [Runners -> 0 .. Expiration], self' \in ShardSets
    PROVE  IInv'
BY DEF IInv, TypeOK, Apart, Gone, Anew, Locked, Has, Expired, statements

LEMMA SyncIInv ==
    ASSUME ShardLocksAssumption, IInv, NEW r \in Runners, Sync(r)
    PROVE  IInv'
<1>1. heartbeat' \in [Runners -> 0 .. Expiration]
  BY DEF Sync, IInv, TypeOK, ShardLocksAssumption
<1>2. self' \in ShardSets
  BY DEF Sync, Set, IInv, TypeOK, ShardSets
<1>. QED BY <1>1, <1>2, Quiet DEF Sync, statements

LEMMA AcquireAskedIInv ==
    ASSUME ShardLocksAssumption, IInv, NEW r \in Runners, AcquireAsked(r)
    PROVE  IInv'
<1> DEFINE kept == acquired[r] \cap self[r]
           released == releasing[r] \cup (acquired[r] \ self[r])
           wanted == self[r] \ (kept \cup released)
<1>1. /\ r \in up /\ acquire[r].at = "ready"
      /\ UNCHANGED <<lock, heartbeat, up, self, processing, cleared, refresh>>
      /\ acquired' = [acquired EXCEPT ![r] = kept] /\ acquired'[r] = kept
      /\ releasing' = [releasing EXCEPT ![r] = released] /\ releasing'[r] = released
      /\ Stale \/ wanted \cap refresh[r].shards = {}
      /\ \/ UNCHANGED acquire
         \/ acquire' = [acquire EXCEPT ![r] = [at |-> "asked", shards |-> wanted]]
  BY DEF AcquireAsked, Set, Put, tables, IInv, TypeOK, ShardSets
<1>2. /\ kept \subseteq Shards /\ released \subseteq Shards /\ wanted \subseteq Shards
      /\ wanted \cap (kept \cup released) = {}
  BY DEF IInv, TypeOK, ShardSets
<1> HIDE DEF wanted
<1>3. TypeOK'
  <2>1. acquire' \in [Runners -> Statements]
    BY <1>1, <1>2 DEF IInv, TypeOK, Statements
  <2>2. acquired' \in ShardSets /\ releasing' \in ShardSets
    BY <1>1, <1>2 DEF IInv, TypeOK, ShardSets
  <2>. QED BY <1>1, <2>1, <2>2 DEF IInv, TypeOK
<1>4. \A q \in Runners : Apart(q)'
  BY <1>1, <1>2 DEF IInv, TypeOK, ShardSets, Apart, Gone
<1>5. ASSUME Timely PROVE \A q \in Runners : Anew(q)' /\ Locked(q)'
  <2>1. Anew(r)'
    BY <1>1, <1>2, <1>5 DEF IInv, Anew, TypeOK, Timely
  <2>2. Locked(r)'
    BY <1>1, <1>2, <1>5 DEF IInv, Locked, TypeOK, Has, Expired
  <2>3. \A q \in Runners \ {r} : Anew(q)' /\ Locked(q)'
    BY <1>1, <1>5 DEF IInv, Anew, Locked, TypeOK, ShardSets, Has, Expired
  <2>. QED BY <2>1, <2>2, <2>3
<1>. QED BY <1>3, <1>4, <1>5 DEF IInv, Timely

LEMMA AcquireRunsIInv ==
    ASSUME ShardLocksAssumption, IInv, NEW r \in Runners, AcquireRuns(r)
    PROVE  IInv'
<1> DEFINE won == {s \in acquire[r].shards : MayLock(r, s)}
<1>1. /\ acquire[r].at = "asked" /\ r \in up
      /\ UNCHANGED <<heartbeat, up, self, acquired, releasing, processing, cleared, refresh>>
      /\ acquire' = [acquire EXCEPT ![r] = [at |-> "answered", shards |-> won]]
      /\ lock' = [s \in Shards |-> IF s \in won THEN [owner |-> r, age |-> 0] ELSE lock[s]]
  BY DEF AcquireRuns, Put, sets, IInv, Apart, Gone, Ready
<1>2. /\ won \subseteq acquire[r].shards /\ won \subseteq Shards
      /\ \A s \in won : lock[s].owner \in {r, Nobody} \/ Expired(s)
  BY DEF MayLock, IInv, TypeOK, Statements
<1>3. Expiration \in Nat \ {0} /\ Nobody \notin Runners
  BY DEF ShardLocksAssumption
<1> HIDE DEF won
<1>4. TypeOK'
  BY <1>1, <1>2, <1>3 DEF IInv, TypeOK, ShardSets, Statements
<1>5. \A q \in Runners : Apart(q)'
  BY <1>1 DEF IInv, TypeOK, Apart, Gone
<1>6. \A s \in won : Has(r, s)'
  BY <1>1, <1>2, <1>3 DEF Has, Expired
<1>7. \A q \in Runners, s \in Shards : Has(q, s) => Has(q, s)'
  BY <1>1, <1>2, <1>3, <1>6 DEF Has, Expired
<1>8. ASSUME Timely PROVE \A q \in Runners : Anew(q)' /\ Locked(q)'
  <2>1. \A q \in Runners : Anew(q)'
    BY <1>1, <1>2, <1>8 DEF IInv, Anew, TypeOK
  <2>2. Locked(r)'
    BY <1>1, <1>6, <1>7, <1>8 DEF IInv, Locked, TypeOK, ShardSets
  <2>3. \A q \in Runners \ {r} : Locked(q)'
    BY <1>1, <1>7, <1>8 DEF IInv, Locked, TypeOK, ShardSets, Statements
  <2>. QED BY <2>1, <2>2, <2>3
<1>. QED BY <1>4, <1>5, <1>8 DEF IInv, Timely

LEMMA AcquireAnsweredIInv ==
    ASSUME ShardLocksAssumption, IInv, NEW r \in Runners, AcquireAnswered(r)
    PROVE  IInv'
<1> DEFINE held == acquired[r] \cup StillWanted(r)
<1>1. /\ acquire[r].at = "answered" /\ r \in up
      /\ UNCHANGED <<lock, heartbeat, up, self, releasing, processing, cleared, refresh>>
      /\ acquire' = [acquire EXCEPT ![r] = [at |-> "ready", shards |-> {}]]
      /\ acquired' = [acquired EXCEPT ![r] = held]
  BY DEF AcquireAnswered, Put, Set, tables, IInv, Apart, Gone, Ready
<1>2. /\ StillWanted(r) \subseteq acquire[r].shards /\ StillWanted(r) \cap releasing[r] = {}
      /\ StillWanted(r) \subseteq Shards
  BY DEF StillWanted, IInv, TypeOK, Statements
<1>3. TypeOK'
  BY <1>1, <1>2 DEF IInv, TypeOK, ShardSets, Statements
<1>4. \A q \in Runners : Apart(q)'
  BY <1>1, <1>2 DEF IInv, TypeOK, ShardSets, Apart, Gone
<1>5. ASSUME Timely PROVE \A q \in Runners : Anew(q)' /\ Locked(q)'
  BY <1>1, <1>2, <1>5 DEF IInv, Anew, Locked, TypeOK, ShardSets, Has, Expired
<1>. QED BY <1>3, <1>4, <1>5 DEF IInv, Timely

LEMMA AcquireTimesOutIInv ==
    ASSUME ShardLocksAssumption, IInv, NEW r \in Runners, AcquireTimesOut(r)
    PROVE  IInv'
<1>1. /\ UNCHANGED <<lock, heartbeat, up, self, acquired, releasing, processing, cleared, refresh>>
      /\ acquire' = [acquire EXCEPT ![r] = [at |-> "ready", shards |-> {}]]
  BY DEF AcquireTimesOut, Put, tables, sets
<1>2. TypeOK'
  BY <1>1 DEF IInv, TypeOK, Statements
<1>3. \A q \in Runners : Apart(q)'
  BY <1>1 DEF IInv, TypeOK, Apart, Gone, Ready
<1>4. ASSUME Timely PROVE \A q \in Runners : Anew(q)' /\ Locked(q)'
  BY <1>1, <1>4 DEF IInv, Anew, Locked, TypeOK, Has, Expired
<1>. QED BY <1>2, <1>3, <1>4 DEF IInv, Timely

--------------------------------------------------------------------------
LEMMA RefreshAskedIInv ==
    ASSUME ShardLocksAssumption, IInv, NEW r \in Runners, RefreshAsked(r)
    PROVE  IInv'
<1>1. /\ r \in up
      /\ UNCHANGED <<lock, heartbeat, up, self, acquired, releasing, processing, cleared, acquire>>
      /\ refresh' = [refresh EXCEPT ![r] = [at |-> "asked", shards |-> acquired[r] \cup releasing[r]]]
  BY DEF RefreshAsked, Put, tables, sets
<1>2. TypeOK'
  BY <1>1 DEF IInv, TypeOK, Statements, ShardSets
<1>3. \A q \in Runners : Apart(q)'
  BY <1>1 DEF IInv, TypeOK, Apart, Gone
<1>4. ASSUME Timely PROVE \A q \in Runners : Anew(q)' /\ Locked(q)'
  BY <1>1, <1>4 DEF IInv, Anew, Locked, TypeOK, Has, Expired
<1>. QED BY <1>2, <1>3, <1>4 DEF IInv, Timely

LEMMA RefreshRunsIInv ==
    ASSUME ShardLocksAssumption, IInv, NEW r \in Runners, RefreshRuns(r)
    PROVE  IInv'
<1> DEFINE kept == {s \in refresh[r].shards : lock[s].owner = r}
<1>1. /\ refresh[r].at = "asked" /\ r \in up
      /\ UNCHANGED <<up, self, acquired, releasing, processing, cleared, acquire>>
      /\ refresh' = [refresh EXCEPT ![r] = [at |-> "answered", shards |-> kept]]
      /\ lock' = [s \in Shards |-> IF s \in kept THEN [lock[s] EXCEPT !.age = 0] ELSE lock[s]]
      /\ heartbeat' = [heartbeat EXCEPT ![r] = IF @ = Expiration THEN @ ELSE 0]
  BY DEF RefreshRuns, Put, sets, IInv, Apart, Gone, Ready
<1>2. kept \subseteq refresh[r].shards /\ kept \subseteq Shards
  BY DEF IInv, TypeOK, Statements
<1>3. Expiration \in Nat \ {0}
  BY DEF ShardLocksAssumption
<1> HIDE DEF kept
<1>4. TypeOK'
  <2>1. lock' \in [Shards -> [owner : Runners \cup {Nobody}, age : 0 .. Expiration]]
    BY <1>1, <1>2, <1>3 DEF IInv, TypeOK
  <2>2. refresh' \in [Runners -> Statements]
    BY <1>1, <1>2 DEF IInv, TypeOK, Statements
  <2>3. heartbeat' \in [Runners -> 0 .. Expiration]
    BY <1>1, <1>3 DEF IInv, TypeOK
  <2>. QED BY <1>1, <2>1, <2>2, <2>3 DEF IInv, TypeOK
<1>5. \A q \in Runners : Apart(q)'
  BY <1>1 DEF IInv, TypeOK, Apart, Gone
<1>6. \A q \in Runners, s \in Shards : Has(q, s) => Has(q, s)'
  BY <1>1, <1>2, <1>3 DEF Has, Expired, IInv, TypeOK
<1>7. ASSUME Timely PROVE \A q \in Runners : Anew(q)' /\ Locked(q)'
  <2>1. \A q \in Runners : Anew(q)'
    BY <1>1, <1>2, <1>7 DEF IInv, Anew, TypeOK
  <2>2. \A q \in Runners : Locked(q)'
    BY <1>1, <1>6, <1>7 DEF IInv, Locked, TypeOK, ShardSets, Statements
  <2>. QED BY <2>1, <2>2
<1>. QED BY <1>4, <1>5, <1>7 DEF IInv, Timely

LEMMA RefreshAnsweredIInv ==
    ASSUME ShardLocksAssumption, IInv, NEW r \in Runners, RefreshAnswered(r)
    PROVE  IInv'
<1> DEFINE kept == refresh[r].shards
           held == (acquired[r] \cap kept) \ (kept \ self[r])
           released == releasing[r] \cup (acquired[r] \ kept) \cup (kept \ self[r])
<1>1. /\ refresh[r].at = "answered" /\ r \in up
      /\ UNCHANGED <<lock, heartbeat, up, self, processing, cleared, acquire>>
      /\ refresh' = [refresh EXCEPT ![r] = [at |-> "ready", shards |-> {}]]
      /\ acquired' = [acquired EXCEPT ![r] = held]
      /\ releasing' = [releasing EXCEPT ![r] = released]
  BY DEF RefreshAnswered, Put, Set, tables, IInv, Apart, Gone, Ready
<1>2. /\ kept \subseteq Shards /\ held \subseteq acquired[r] /\ held \cap released = {}
      /\ releasing[r] \subseteq released /\ acquired[r] \subseteq held \cup released
      /\ held \subseteq Shards /\ released \subseteq Shards
      /\ released \subseteq releasing[r] \cup acquired[r] \cup kept
  BY DEF IInv, TypeOK, ShardSets, Statements, Apart
<1> HIDE DEF held, released
<1>3. TypeOK'
  BY <1>1, <1>2 DEF IInv, TypeOK, ShardSets, Statements
<1>4. \A q \in Runners : Apart(q)'
  <2>1. Apart(r)'
    BY <1>1, <1>2 DEF IInv, TypeOK, ShardSets, Apart
  <2>2. \A q \in Runners \ {r} : Apart(q)'
    BY <1>1 DEF IInv, TypeOK, ShardSets, Apart, Gone
  <2>. QED BY <2>1, <2>2
<1>5. ASSUME Timely PROVE \A q \in Runners : Anew(q)' /\ Locked(q)'
  <2>1. Anew(r)'
    BY <1>1, <1>2, <1>5 DEF IInv, Anew, TypeOK, ShardSets
  <2>2. \A q \in Runners \ {r} : Anew(q)'
    BY <1>1, <1>5 DEF IInv, Anew, TypeOK, ShardSets
  <2>3. \A q \in Runners : Locked(q)'
    BY <1>1, <1>2, <1>5 DEF IInv, Locked, TypeOK, ShardSets, Has, Expired
  <2>. QED BY <2>1, <2>2, <2>3
<1>. QED BY <1>3, <1>4, <1>5 DEF IInv, Timely

LEMMA RefreshFailsIInv ==
    ASSUME ShardLocksAssumption, IInv, NEW r \in Runners, RefreshFails(r)
    PROVE  IInv'
<1>1. /\ UNCHANGED <<lock, heartbeat, up, acquired, releasing, processing, cleared, acquire>>
      /\ refresh' = [refresh EXCEPT ![r] = [at |-> "ready", shards |-> {}]]
      /\ self' = [self EXCEPT ![r] = {}]
  BY DEF RefreshFails, Put, Set, tables
<1>2. TypeOK'
  BY <1>1 DEF IInv, TypeOK, Statements, ShardSets
<1>3. \A q \in Runners : Apart(q)'
  BY <1>1 DEF IInv, TypeOK, Apart, Gone, Ready
<1>4. ASSUME Timely PROVE \A q \in Runners : Anew(q)' /\ Locked(q)'
  BY <1>1, <1>4 DEF IInv, Anew, Locked, TypeOK, Has, Expired
<1>. QED BY <1>2, <1>3, <1>4 DEF IInv, Timely

--------------------------------------------------------------------------
LEMMA ProcessIInv ==
    ASSUME ShardLocksAssumption, IInv, NEW r \in Runners, NEW s \in Shards, Process(r, s)
    PROVE  IInv'
<1>1. /\ r \in up /\ s \in acquired[r]
      /\ UNCHANGED <<lock, heartbeat, up, self, acquired, releasing, cleared, acquire, refresh>>
      /\ processing' = [processing EXCEPT ![r] = processing[r] \cup {s}]
  BY DEF Process, Set, tables, sets, statements
<1>2. TypeOK'
  BY <1>1 DEF IInv, TypeOK, ShardSets
<1>3. \A q \in Runners : Apart(q)'
  BY <1>1 DEF IInv, TypeOK, ShardSets, Apart, Gone
<1>4. ASSUME Timely PROVE \A q \in Runners : Anew(q)' /\ Locked(q)'
  BY <1>1, <1>4 DEF IInv, Anew, Locked, TypeOK, ShardSets, Has, Expired
<1>. QED BY <1>2, <1>3, <1>4 DEF IInv, Timely

LEMMA InterruptShardIInv ==
    ASSUME ShardLocksAssumption, IInv, NEW r \in Runners, NEW s \in Shards, InterruptShard(r, s)
    PROVE  IInv'
<1>1. /\ s \in releasing[r]
      /\ UNCHANGED <<lock, heartbeat, up, self, acquired, releasing, acquire, refresh>>
      /\ processing' = [processing EXCEPT ![r] = processing[r] \ {s}]
      /\ cleared' = [cleared EXCEPT ![r] = cleared[r] \cup {s}]
  BY DEF InterruptShard, Set, tables, sets, statements
<1>2. TypeOK'
  BY <1>1 DEF IInv, TypeOK, ShardSets
<1>3. \A q \in Runners : Apart(q)'
  BY <1>1 DEF IInv, TypeOK, ShardSets, Apart, Gone
<1>4. ASSUME Timely PROVE \A q \in Runners : Anew(q)' /\ Locked(q)'
  BY <1>1, <1>4 DEF IInv, Anew, Locked, TypeOK, ShardSets, Has, Expired
<1>. QED BY <1>2, <1>3, <1>4 DEF IInv, Timely

(* The lock that goes is of a shard nobody works on any more.              *)
LEMMA ReleaseRunsIInv ==
    ASSUME ShardLocksAssumption, IInv, NEW r \in Runners, NEW s \in Shards, ReleaseRuns(r, s)
    PROVE  IInv'
<1>1. /\ s \in cleared[r] /\ lock[s].owner = r /\ lock' = [lock EXCEPT ![s] = Free]
      /\ UNCHANGED <<heartbeat, up, self, acquired, releasing, processing, cleared, acquire, refresh>>
  BY DEF ReleaseRuns, sets, statements
<1>2. TypeOK'
  BY <1>1 DEF IInv, TypeOK, Free, ShardLocksAssumption
<1>3. \A q \in Runners : Apart(q)'
  BY <1>1 DEF IInv, Apart, Gone
<1>4. \A q \in Runners, x \in Shards : Has(q, x) => Has(q, x)' \/ (q = r /\ x = s)
  BY <1>1 DEF Has, Expired, IInv, TypeOK
<1>5. s \notin acquired[r] \cup processing[r] /\ s \in releasing[r]
  BY <1>1 DEF IInv, Apart
<1>6. ASSUME Timely PROVE \A q \in Runners : Anew(q)' /\ Locked(q)'
  <2>1. \A q \in Runners : Anew(q)'
    BY <1>1, <1>6 DEF IInv, Anew
  <2>2. s \notin acquire[r].shards
    BY <1>5, <1>6 DEF IInv, Anew
  <2>3. \A q \in Runners : Locked(q)'
    BY <1>1, <1>4, <1>5, <1>6, <2>2 DEF IInv, Locked, TypeOK, ShardSets, Statements
  <2>. QED BY <2>1, <2>3
<1>. QED BY <1>2, <1>3, <1>6 DEF IInv, Timely

LEMMA ReleasedIInv ==
    ASSUME ShardLocksAssumption, IInv, NEW r \in Runners, NEW s \in Shards, Released(r, s)
    PROVE  IInv'
<1>1. /\ s \in cleared[r]
      /\ UNCHANGED <<lock, heartbeat, up, self, acquired, processing, acquire, refresh>>
      /\ releasing' = [releasing EXCEPT ![r] = releasing[r] \ {s}]
      /\ cleared' = [cleared EXCEPT ![r] = cleared[r] \ {s}]
  BY DEF Released, Set, tables, statements
<1>2. TypeOK'
  BY <1>1 DEF IInv, TypeOK, ShardSets
<1>3. \A q \in Runners : Apart(q)'
  BY <1>1 DEF IInv, TypeOK, ShardSets, Apart, Gone
<1>4. ASSUME Timely PROVE \A q \in Runners : Anew(q)' /\ Locked(q)'
  BY <1>1, <1>4 DEF IInv, Anew, Locked, TypeOK, ShardSets, Has, Expired
<1>. QED BY <1>2, <1>3, <1>4 DEF IInv, Timely

--------------------------------------------------------------------------
(* A runner ends; only its own locks can have changed.                     *)
LEMMA EndsIInv ==
    ASSUME ShardLocksAssumption, IInv, NEW r \in Runners, Crash(r) \/ Shutdown(r)
    PROVE  IInv'
<1>1. /\ up' = up \ {r} /\ self' = [self EXCEPT ![r] = {}]
      /\ acquired' = [acquired EXCEPT ![r] = {}] /\ releasing' = [releasing EXCEPT ![r] = {}]
      /\ processing' = [processing EXCEPT ![r] = {}] /\ cleared' = [cleared EXCEPT ![r] = {}]
      /\ acquire' = [acquire EXCEPT ![r] = Ready] /\ refresh' = [refresh EXCEPT ![r] = Ready]
  BY DEF Crash, Shutdown, Ends, Set, Put, Ready
<1>2. /\ lock' \in [Shards -> [owner : Runners \cup {Nobody}, age : 0 .. Expiration]]
      /\ heartbeat' \in [Runners -> 0 .. Expiration]
      /\ \A s \in Shards : lock[s].owner # r => lock'[s] = lock[s]
  <2>1. CASE UNCHANGED tables
    BY <2>1 DEF tables, IInv, TypeOK
  <2>2. CASE Shutdown(r)
    BY <2>2 DEF Shutdown, Free, IInv, TypeOK, ShardLocksAssumption
  <2>. QED BY <2>1, <2>2 DEF Crash
<1>3. TypeOK'
  <2>1. /\ self' \in ShardSets /\ acquired' \in ShardSets /\ releasing' \in ShardSets
        /\ processing' \in ShardSets /\ cleared' \in ShardSets /\ up' \subseteq Runners
    BY <1>1 DEF IInv, TypeOK, ShardSets
  <2>2. acquire' \in [Runners -> Statements] /\ refresh' \in [Runners -> Statements]
    BY <1>1 DEF IInv, TypeOK, Statements, Ready
  <2>. QED BY <1>2, <2>1, <2>2 DEF TypeOK
<1>4. Gone(r)'
  BY <1>1 DEF Gone, IInv, TypeOK, ShardSets
<1>5. \A q \in Runners \ {r} :
        /\ acquired'[q] = acquired[q] /\ releasing'[q] = releasing[q]
        /\ processing'[q] = processing[q] /\ cleared'[q] = cleared[q]
        /\ acquire'[q] = acquire[q] /\ refresh'[q] = refresh[q] /\ (q \in up' <=> q \in up)
  BY <1>1 DEF IInv, TypeOK, ShardSets
<1>6. \A q \in Runners : Apart(q)'
  BY <1>4, <1>5 DEF IInv, Apart, Gone
<1>7. ASSUME Timely PROVE \A q \in Runners : Anew(q)' /\ Locked(q)'
  <2>1. Anew(r)' /\ Locked(r)'
    BY <1>4 DEF Gone, Anew, Locked, Ready
  <2>2. \A q \in Runners \ {r}, s \in Shards : Has(q, s) => Has(q, s)'
    BY <1>2 DEF Has, Expired
  <2>3. \A q \in Runners \ {r} : Anew(q)' /\ Locked(q)'
    BY <1>5, <1>7, <2>2 DEF IInv, TypeOK, ShardSets, Statements, Anew, Locked
  <2>. QED BY <2>1, <2>3
<1>. QED BY <1>3, <1>6, <1>7 DEF IInv, Timely

LEMMA RestartIInv ==
    ASSUME ShardLocksAssumption, IInv, NEW r \in Runners, Restart(r)
    PROVE  IInv'
<1>1. /\ up' = up \cup {r}
      /\ UNCHANGED <<lock, heartbeat, self, acquired, releasing, processing, cleared, acquire, refresh>>
  BY DEF Restart, tables, sets, statements
<1>2. TypeOK'
  BY <1>1 DEF IInv, TypeOK
<1>3. \A q \in Runners : Apart(q)'
  BY <1>1 DEF IInv, Apart, Gone
<1>4. ASSUME Timely PROVE \A q \in Runners : Anew(q)' /\ Locked(q)'
  BY <1>1, <1>4 DEF IInv, Anew, Locked, Has, Expired
<1>. QED BY <1>2, <1>3, <1>4 DEF IInv, Timely

(* Time passes, and no lock that is used expires by it.                    *)
LEMMA TickIInv == ASSUME ShardLocksAssumption, IInv, Tick PROVE IInv'
<1>1. /\ lock' = [s \in Shards |-> [lock[s] EXCEPT !.age = Older(@)]]
      /\ heartbeat' = [r \in Runners |-> Older(heartbeat[r])]
      /\ UNCHANGED <<up, self, acquired, releasing, processing, cleared, acquire, refresh>>
  BY DEF Tick, sets, statements
<1>2. Expiration \in Nat /\ \A n \in 0 .. Expiration : Older(n) \in 0 .. Expiration
  BY DEF ShardLocksAssumption, Older
<1>3. TypeOK'
  <2>1. lock' \in [Shards -> [owner : Runners \cup {Nobody}, age : 0 .. Expiration]]
    BY <1>1, <1>2 DEF IInv, TypeOK
  <2>2. heartbeat' \in [Runners -> 0 .. Expiration]
    BY <1>1, <1>2 DEF IInv, TypeOK
  <2>. QED BY <1>1, <2>1, <2>2 DEF IInv, TypeOK
<1>4. \A q \in Runners : Apart(q)'
  BY <1>1 DEF IInv, Apart, Gone
<1>5. ASSUME Timely PROVE \A q \in Runners : Anew(q)' /\ Locked(q)'
  <2>1. \A q \in Runners : Anew(q)'
    BY <1>1, <1>5 DEF IInv, Anew
  <2>2. \A q \in up, s \in Shards : Has(q, s) /\ Uses(q, s) => Has(q, s)'
    <3> SUFFICES ASSUME NEW q \in up, NEW s \in Shards, Has(q, s), Uses(q, s) PROVE Has(q, s)'
      OBVIOUS
    <3>1. lock[s].age + 1 < Expiration
      BY <1>5 DEF Tick, InTime, Has, Timely
    <3>2. lock'[s].owner = q /\ lock'[s].age = lock[s].age + 1
      BY <1>1, <1>2, <3>1 DEF Has, Older, IInv, TypeOK
    <3>. QED BY <1>2, <3>1, <3>2 DEF Has, Expired, IInv, TypeOK
  <2>3. ASSUME NEW q \in Runners PROVE Locked(q)'
    <3>1. CASE q \in up
      BY <1>1, <1>5, <2>2, <3>1 DEF IInv, TypeOK, ShardSets, Statements, Locked, Uses
    <3>2. CASE q \notin up
      BY <1>1, <3>2 DEF IInv, Apart, Gone, Ready, Locked
    <3>. QED BY <3>1, <3>2
  <2>. QED BY <2>1, <2>3
<1>. QED BY <1>3, <1>4, <1>5 DEF IInv, Timely

--------------------------------------------------------------------------
LEMMA NextIInv == ShardLocksAssumption /\ IInv /\ [Next]_vars => IInv'
<1> SUFFICES ASSUME ShardLocksAssumption, IInv, [Next]_vars PROVE IInv'
  OBVIOUS
<1>1. CASE UNCHANGED vars
  BY <1>1, Quiet DEF vars, tables, sets, IInv, TypeOK
<1>2. ASSUME NEW r \in Runners,
             \/ Sync(r) \/ Acquires(r) \/ AcquireTimesOut(r)
             \/ Refreshes(r) \/ RefreshFails(r)
             \/ Crash(r) \/ Shutdown(r) \/ Restart(r)
      PROVE  IInv'
  BY <1>2, SyncIInv, AcquireAskedIInv, AcquireRunsIInv, AcquireAnsweredIInv, AcquireTimesOutIInv,
     RefreshAskedIInv, RefreshRunsIInv, RefreshAnsweredIInv, RefreshFailsIInv, EndsIInv, RestartIInv
     DEF Acquires, Refreshes
<1>3. ASSUME NEW r \in Runners, NEW s \in Shards, Process(r, s) \/ Releases(r, s)
      PROVE  IInv'
  BY <1>3, ProcessIInv, InterruptShardIInv, ReleaseRunsIInv, ReleasedIInv DEF Releases
<1>. QED BY <1>1, <1>2, <1>3, TickIInv DEF Next

LEMMA IInvSafe == IInv => ShardsSafe
<1> SUFFICES ASSUME IInv PROVE ShardsSafe
  OBVIOUS
<1>1. NoForgottenEntities
  BY DEF IInv, Apart, NoForgottenEntities
<1>2. ASSUME Timely PROVE OneProcessor /\ ActiveMeansLocked
  BY <1>2 DEF IInv, Locked, Has, OneProcessor, ActiveMeansLocked
<1>. QED BY <1>1, <1>2 DEF ShardsSafe, Timely

(* Entities run only on shards that are acquired or being released, and,   *)
(* where runners refresh in time, on one runner, which has the lock        *)
(* (Sharding.ts:244, 289-300, 332-416; SqlRunnerStorage.ts:387-424).       *)
THEOREM ShardsAreExclusive == ASSUME ShardLocksAssumption PROVE Spec => []ShardsSafe
<1>1. Init => IInv
  BY InitIInv
<1>2. IInv /\ [Next]_vars => IInv'
  BY NextIInv
<1>3. IInv => ShardsSafe
  BY IInvSafe
<1>. QED BY <1>1, <1>2, <1>3, PTL DEF Spec
============================================================================

---------------------------- MODULE StoreProofs ----------------------------
(*****************************************************************************)
(* What stores of things that are in use keep: a map of counted resources,   *)
(* the queue over the in-memory store, the queue over the SQL store. Each part *)
(* has an inductive invariant, one lemma for each action that keeps it, and  *)
(* its theorems. The parts have no state in common.                          *)
(*****************************************************************************)
EXTENDS RcMap, PersistedQueue, MemoryQueue, FiniteSetTheorems, SequenceTheorems, TLAPS

(*****************************************************************************)
(* Sequences and functions.                                                  *)
(*****************************************************************************)

\* What is left of a sequence without one of its places.
LEMMA RemoveAtFacts ==
  ASSUME NEW S, NEW s \in Seq(S), NEW i \in 1 .. Len(s)
  PROVE  /\ RemoveAt(s, i) \in Seq(S)
         /\ Len(RemoveAt(s, i)) = Len(s) - 1
         /\ \A j \in 1 .. Len(s) - 1 :
              RemoveAt(s, i)[j] = IF j < i THEN s[j] ELSE s[j + 1]
<1> DEFINE a == SubSeq(s, 1, i - 1)
           b == SubSeq(s, i + 1, Len(s))
<1>1. a \in Seq(S) /\ Len(a) = i - 1 /\ \A j \in 1 .. i - 1 : a[j] = s[j]
  BY SubSeqProperties
<1>2. b \in Seq(S) /\ Len(b) = Len(s) - i /\ \A j \in 1 .. Len(s) - i : b[j] = s[i + j]
  BY SubSeqProperties
<1>3. RemoveAt(s, i) = a \o b
  BY DEF RemoveAt
<1> HIDE DEF a, b
<1>4. /\ a \o b \in Seq(S) /\ Len(a \o b) = Len(s) - 1
      /\ \A j \in 1 .. Len(s) - 1 :
           (a \o b)[j] = IF j <= i - 1 THEN a[j] ELSE b[j - (i - 1)]
  <2>1. /\ a \o b \in Seq(S) /\ Len(a \o b) = Len(a) + Len(b)
        /\ \A j \in 1 .. Len(a) + Len(b) :
             (a \o b)[j] = IF j <= Len(a) THEN a[j] ELSE b[j - Len(a)]
    BY <1>1, <1>2, ConcatProperties, Zenon
  <2>2. Len(a) = i - 1 /\ Len(a) + Len(b) = Len(s) - 1
    BY <1>1, <1>2
  <2>3. QED BY <2>1, <2>2, Zenon
<1>5. ASSUME NEW j \in 1 .. Len(s) - 1, ~(j < i)
      PROVE  b[j - (i - 1)] = s[j + 1]
  BY <1>2, <1>5
<1>6. QED BY <1>1, <1>3, <1>4, <1>5

\* A function that differs from another in one place.
LEMMA EqualFunctions ==
  ASSUME NEW S, NEW f, NEW g, NEW i \in S, NEW e, DOMAIN f = S, g = [j \in S |-> g[j]],
         \A j \in S : g[j] = IF j = i THEN e ELSE f[j]
  PROVE  g = [f EXCEPT ![i] = e]
OBVIOUS

(*****************************************************************************)
(* The map of references, for any number of users and keys, for any time to  *)
(* live, and for clients that run into any of the hazards.                   *)
(*****************************************************************************)
Fibers == {"none", "asleep", "ending"}
Resources == [key : Keys, refCount : Nat, fiber : Fibers, expiresAt : Nat,
              open : BOOLEAN, invalidated : BOOLEAN]

MapTypeOK ==
  /\ map \in [Keys -> Nat] /\ \A k \in Keys : map[k] # 0 => map[k] \in Entries
  /\ user \in [Users -> Nat] /\ \A u \in Users : user[u] # 0 => user[u] \in Entries
  /\ \E n \in Nat : Entries = 1 .. n
  /\ \A i \in Entries : entry[i] \in Resources
  /\ state \in {"Open", "Closing", "Closed"} /\ ttl \in Nat /\ now \in Nat

(* What the map holds can be shared.                                       *)
Mapping ==
  \A k \in Keys :
    map[k] # 0 => /\ entry[map[k]].key = k /\ entry[map[k]].open
                  /\ ~entry[map[k]].invalidated /\ state # "Closed"

OpenInUse == state # "Closed" => \A i \in Entries : entry[i].refCount > 0 => entry[i].open

(* Somebody may still look up, release or expire the entry.                *)
Live(i) == entry[i].refCount > 0 \/ ~Alone(i) \/ map[entry[i].key] = i

(* Unless keys are looked up again too early, what goes by the key goes by *)
(* the entry: no two entries of a key are live.                            *)
OnePerKey ==
  "reget" \notin Hazards =>
    /\ \A i, j \in Entries : Live(i) /\ Live(j) /\ entry[i].key = entry[j].key => i = j
    /\ state # "Closed" =>
         \A i \in Entries : Live(i) /\ map[entry[i].key] # i => entry[i].invalidated
    /\ \A i \in Entries : entry[i].open => entry[i].refCount > 0 \/ map[entry[i].key] = i
    /\ ttl = 0 => \A i \in Entries : Alone(i)

MapInv == MapTypeOK /\ RefsExact /\ Mapping /\ OpenInUse /\ OnePerKey

--------------------------------------------------------------------------
(* Counting the users of an entry.                                         *)
UsersOf(i) == {u \in Users : user[u] = i}

LEMMA FiniteUsersOf == ASSUME RcMapAssumption, NEW i PROVE IsFiniteSet(UsersOf(i))
BY FS_Subset DEF RcMapAssumption, UsersOf

(* Who uses an entry is counted.                                           *)
LEMMA Counted ==
    ASSUME RcMapAssumption, MapTypeOK, RefsExact, NEW u \in Users, user[u] # 0
    PROVE  entry[user[u]].refCount > 0 /\ entry[user[u]].refCount \in Nat
<1> DEFINE i == user[u]
<1>1. i \in Entries /\ entry[i] \in Resources
  BY DEF MapTypeOK
<1>2. u \in UsersOf(i)
  BY DEF UsersOf
<1>3. Cardinality(UsersOf(i)) # 0
  BY <1>2, FiniteUsersOf, FS_EmptySet
<1>4. entry[i].refCount \in Nat
  BY <1>1 DEF Resources
<1>. QED BY <1>1, <1>3, <1>4 DEF RefsExact, UsersOf

(* Cardinality(Entries) + 1 is a fresh name.                               *)
LEMMA FreshEntry ==
    ASSUME MapTypeOK
    PROVE  /\ Cardinality(Entries) \in Nat
           /\ Entries = 1 .. Cardinality(Entries)
<1>1. PICK n \in Nat : Entries = 1 .. n
  BY DEF MapTypeOK
<1>2. Cardinality(1 .. n) = n
  BY FS_Interval
<1>. QED BY <1>1, <1>2

(* A user comes to an entry.                                               *)
LEMMA Joins ==
    ASSUME RcMapAssumption, MapTypeOK, NEW u \in Users, user[u] = 0,
           NEW i \in Nat \ {0}, user' = [user EXCEPT ![u] = i]
    PROVE  /\ Cardinality(UsersOf(i))' = Cardinality(UsersOf(i)) + 1
           /\ \A j \in Nat \ {0, i} : UsersOf(j)' = UsersOf(j)
<1>1. UsersOf(i)' = UsersOf(i) \cup {u} /\ u \notin UsersOf(i)
  BY DEF UsersOf, MapTypeOK
<1>2. \A j \in Nat \ {0, i} : UsersOf(j)' = UsersOf(j)
  BY DEF UsersOf, MapTypeOK
<1>. QED BY <1>1, <1>2, FiniteUsersOf, FS_AddElement

(* A user leaves an entry.                                                 *)
LEMMA Leaves ==
    ASSUME RcMapAssumption, MapTypeOK, NEW u \in Users, NEW i \in Nat \ {0},
           user[u] = i, user' = [user EXCEPT ![u] = 0]
    PROVE  /\ Cardinality(UsersOf(i))' = Cardinality(UsersOf(i)) - 1
           /\ \A j \in Nat \ {0, i} : UsersOf(j)' = UsersOf(j)
<1>1. UsersOf(i)' = UsersOf(i) \ {u} /\ u \in UsersOf(i)
  BY DEF UsersOf, MapTypeOK
<1>2. \A j \in Nat \ {0, i} : UsersOf(j)' = UsersOf(j)
  BY DEF UsersOf, MapTypeOK
<1>. QED BY <1>1, <1>2, FiniteUsersOf, FS_RemoveElement

(* No step but a new entry adds one, none changes a key, and every count   *)
(* moves with its users: what is left to show of the other steps.          *)
LEMMA CountsKeep ==
    ASSUME MapTypeOK, RefsExact, UNCHANGED user, Entries' = Entries,
           \A i \in Entries : entry'[i].refCount = entry[i].refCount
    PROVE  RefsExact'
BY DEF RefsExact

--------------------------------------------------------------------------
LEMMA MapInitInv == RcMapAssumption /\ Init => MapInv
<1> SUFFICES ASSUME RcMapAssumption, Init PROVE MapInv
  OBVIOUS
<1>1. Entries = {} /\ Entries = 1 .. 0
  BY DEF Init, Entries
<1>2. MapTypeOK
  BY <1>1 DEF MapTypeOK, Init, RcMapAssumption
<1>. QED BY <1>1, <1>2 DEF MapInv, Init, RefsExact, Mapping, OpenInUse, OnePerKey

(* A step that changes nothing the invariant is about.                     *)
LEMMA QuietMap ==
    ASSUME MapInv, UNCHANGED <<map, entry, user, state, ttl>>, now' \in Nat
    PROVE  MapInv'
<1>1. Entries' = Entries /\ \A i : (Live(i)' <=> Live(i)) /\ (Alone(i)' <=> Alone(i))
  BY DEF Entries, Live, Alone
<1>2. MapTypeOK' /\ Mapping' /\ OpenInUse'
  BY <1>1 DEF MapInv, MapTypeOK, Mapping, OpenInUse
<1>3. OnePerKey'
  BY <1>1 DEF MapInv, OnePerKey
<1>4. RefsExact'
  BY <1>1, CountsKeep DEF MapInv
<1>. QED BY <1>2, <1>3, <1>4 DEF MapInv

--------------------------------------------------------------------------
(* get                                                                     *)
LEMMA HitKeeps ==
    ASSUME RcMapAssumption, MapInv, NEW u \in Users, NEW k \in Keys, user[u] = 0,
           state # "Closed", map[k] # 0, entry' = Retain(map[k]),
           user' = [user EXCEPT ![u] = map[k]], UNCHANGED <<map, state, ttl, now>>
    PROVE  MapInv'
<1> USE DEF MapInv
<1>0. PICK s \in Nat \ {0} : s = map[k] /\ s \in Entries
  BY DEF MapTypeOK
<1>1. /\ Entries' = Entries
      /\ \A i \in Entries \ {s} : entry'[i] = entry[i]
      /\ entry'[s] \in Resources
      /\ entry'[s].refCount = entry[s].refCount + 1 /\ entry[s].refCount \in Nat
      /\ entry'[s].key = entry[s].key /\ entry'[s].fiber = entry[s].fiber
      /\ entry'[s].open = entry[s].open /\ entry'[s].invalidated = entry[s].invalidated
  <2>1. entry' = [entry EXCEPT ![s].refCount = entry[s].refCount + 1]
    BY <1>0 DEF Retain
  <2>2. Entries' = Entries /\ \A i \in Entries \ {s} : entry'[i] = entry[i]
    BY <2>1 DEF Entries
  <2>3. entry[s] \in Resources
    BY <1>0 DEF MapTypeOK
  <2>4. entry'[s] = [entry[s] EXCEPT !.refCount = entry[s].refCount + 1]
    BY <1>0, <2>1 DEF Entries
  <2>5. entry[s].refCount \in Nat
    BY <2>3 DEF Resources
  <2>6. entry'[s] \in Resources
    BY <2>3, <2>4, <2>5 DEF Resources
  <2>. QED BY <2>2, <2>3, <2>4, <2>5, <2>6 DEF Resources
<1>2. MapTypeOK'
  BY <1>0, <1>1 DEF MapTypeOK
<1>3. RefsExact'
  <2>1. /\ Cardinality(UsersOf(s))' = Cardinality(UsersOf(s)) + 1
        /\ \A j \in Nat \ {0, s} : UsersOf(j)' = UsersOf(j)
    BY <1>0, Joins
  <2>2. \A i \in Entries : i \in Nat \ {0}
    BY DEF MapTypeOK
  <2>3. entry'[s].refCount = Cardinality(UsersOf(s))'
    BY <1>0, <1>1, <2>1 DEF RefsExact, UsersOf
  <2>4. \A i \in Entries \ {s} : entry'[i].refCount = Cardinality(UsersOf(i))'
    BY <1>1, <2>1, <2>2 DEF RefsExact, UsersOf
  <2>. QED BY <1>1, <2>3, <2>4 DEF RefsExact, UsersOf
<1>4. entry[s].key = k /\ entry[s].open
  BY <1>0 DEF Mapping
<1>5. Mapping' /\ OpenInUse'
  <2>1. \A i \in Entries : /\ entry'[i].key = entry[i].key /\ entry'[i].open = entry[i].open
                           /\ entry'[i].invalidated = entry[i].invalidated
    BY <1>1
  <2>2. Mapping'
    BY <2>1 DEF Mapping, MapTypeOK
  <2>3. OpenInUse'
    BY <1>1, <1>4, <2>1 DEF OpenInUse
  <2>. QED BY <2>2, <2>3
<1>6. OnePerKey'
  <2>1. Live(s)
    BY <1>0, <1>4 DEF Live
  <2>2. \A i \in Entries : Live(i)' => Live(i)
    BY <1>0, <1>1, <2>1 DEF Live, Alone
  <2>3. \A i \in Entries : entry'[i].key = entry[i].key /\ (Alone(i)' <=> Alone(i))
    BY <1>1 DEF Alone
  <2>4. entry'[s].refCount > 0
    BY <1>1
  <2>. QED BY <1>0, <1>1, <2>2, <2>3, <2>4 DEF OnePerKey
<1>. QED BY <1>2, <1>3, <1>5, <1>6

LEMMA MissKeeps ==
    ASSUME RcMapAssumption, MapInv, NEW u \in Users, NEW k \in Keys,
           Get(u, k), map[k] = 0
    PROVE  MapInv'
<1> USE DEF MapInv
<1>0. PICK n \in Nat \ {0} : n = Cardinality(Entries) + 1
  BY FreshEntry
<1>1. n \notin Entries /\ Entries' = Entries \cup {n} /\ Entries' = 1 .. n
  BY <1>0, FreshEntry DEF Get, Entries
<1>2. /\ UNCHANGED <<state, ttl, now>> /\ state # "Closed"
      /\ map' = [map EXCEPT ![k] = n] /\ user' = [user EXCEPT ![u] = n]
      /\ user[u] = 0 /\ (Stale(k) => "reget" \in Hazards)
      /\ \A i \in Entries : entry'[i] = entry[i]
      /\ entry'[n] = [key |-> k, refCount |-> 1, fiber |-> "none", expiresAt |-> 0,
                      open |-> TRUE, invalidated |-> FALSE]
  <2>1. \A i \in Entries : i < n /\ i \in 1 .. n
    BY <1>0, FreshEntry
  <2>2. /\ entry' = [e \in 1 .. n |-> IF e < n THEN entry[e] ELSE
                [key |-> k, refCount |-> 1, fiber |-> "none", expiresAt |-> 0,
                 open |-> TRUE, invalidated |-> FALSE]]
        /\ map' = [map EXCEPT ![k] = n] /\ user' = [user EXCEPT ![u] = n]
        /\ Stale(k) => "reget" \in Hazards
    BY <1>0 DEF Get
  <2>3. /\ \A i \in Entries : entry'[i] = entry[i]
        /\ entry'[n] = [key |-> k, refCount |-> 1, fiber |-> "none", expiresAt |-> 0,
                        open |-> TRUE, invalidated |-> FALSE]
    BY <1>1, <2>1, <2>2
  <2>. QED BY <2>2, <2>3 DEF Get
<1>3. /\ entry'[n] \in Resources
      /\ entry'[n].key = k /\ entry'[n].refCount = 1 /\ entry'[n].fiber = "none"
      /\ entry'[n].open /\ ~entry'[n].invalidated
  BY <1>2 DEF Resources, Fibers
<1>4. MapTypeOK'
  BY <1>1, <1>2, <1>3 DEF MapTypeOK
<1>5. RefsExact'
  <2>1. /\ Cardinality(UsersOf(n))' = Cardinality(UsersOf(n)) + 1
        /\ \A j \in Nat \ {0, n} : UsersOf(j)' = UsersOf(j)
    BY <1>2, Joins
  <2>2. UsersOf(n) = {}
    BY <1>1 DEF UsersOf, MapTypeOK
  <2>3. Cardinality(UsersOf(n))' = 1
    BY <2>1, <2>2, FS_EmptySet
  <2>4. \A i \in Entries : i \in Nat \ {0, n}
    BY <1>1 DEF MapTypeOK
  <2>5. entry'[n].refCount = Cardinality(UsersOf(n))'
    BY <1>3, <2>3
  <2>6. \A i \in Entries : entry'[i].refCount = Cardinality(UsersOf(i))'
    BY <1>2, <2>1, <2>4 DEF RefsExact, UsersOf
  <2>. QED BY <1>1, <2>5, <2>6 DEF RefsExact, UsersOf
<1>6. Mapping' /\ OpenInUse'
  <2>1. Mapping'
    BY <1>1, <1>2, <1>3 DEF Mapping, MapTypeOK
  <2>2. OpenInUse'
    BY <1>1, <1>2, <1>3 DEF OpenInUse, MapTypeOK
  <2>. QED BY <2>1, <2>2
<1>7. OnePerKey'
  <2> SUFFICES ASSUME "reget" \notin Hazards PROVE OnePerKey'
    BY DEF OnePerKey
  <2>1. \A i \in Entries : entry[i].key = k => ~Live(i)
    <3> SUFFICES ASSUME NEW i \in Entries, entry[i].key = k, Live(i) PROVE FALSE
      OBVIOUS
    <3>1. i # 0
      BY DEF MapTypeOK
    <3>2. entry[i].invalidated
      BY <1>2, <3>1 DEF OnePerKey
    <3>3. entry[i].refCount > 0 \/ ~Alone(i)
      BY <3>1 DEF Live
    <3>. QED BY <1>2, <3>2, <3>3 DEF Stale
  <2>2. \A i \in Entries : Live(i)' <=> Live(i)
    <3> SUFFICES ASSUME NEW i \in Entries PROVE Live(i)' <=> Live(i)
      OBVIOUS
    <3>1. entry[i].key \in Keys /\ i # 0
      BY DEF MapTypeOK, Resources
    <3>2. map'[entry[i].key] = i <=> map[entry[i].key] = i
      BY <1>1, <1>2, <3>1 DEF MapTypeOK
    <3>. QED BY <1>2, <3>2 DEF Live, Alone
  <2>3. map'[k] = n /\ Alone(n)'
    BY <1>2, <1>3 DEF MapTypeOK, Alone
  <2>4. \A i \in Entries : map'[entry[i].key] = IF entry[i].key = k THEN n ELSE map[entry[i].key]
    BY <1>2 DEF MapTypeOK, Resources
  <2>5. \A i, j \in Entries' : Live(i)' /\ Live(j)' /\ entry'[i].key = entry'[j].key => i = j
    BY <1>1, <1>2, <1>3, <2>1, <2>2 DEF OnePerKey
  <2>6. \A i \in Entries' : Live(i)' /\ map'[entry'[i].key] # i => entry'[i].invalidated
    BY <1>1, <1>2, <1>3, <2>1, <2>2, <2>3, <2>4 DEF OnePerKey
  <2>7. \A i \in Entries' : entry'[i].open => entry'[i].refCount > 0 \/ map'[entry'[i].key] = i
    <3>1. \A i \in Entries : entry[i].key = k => map[entry[i].key] # i
      BY DEF MapTypeOK
    <3>. QED BY <1>1, <1>2, <1>3, <2>3, <2>4, <3>1 DEF OnePerKey
  <2>8. ttl' = 0 => \A i \in Entries' : Alone(i)'
    BY <1>1, <1>2, <2>3 DEF OnePerKey, Alone
  <2>. QED BY <2>5, <2>6, <2>7, <2>8 DEF OnePerKey
<1>. QED BY <1>4, <1>5, <1>6, <1>7

LEMMA GetKeeps ==
    ASSUME RcMapAssumption, MapInv, NEW u \in Users, NEW k \in Keys, Get(u, k)
    PROVE  MapInv'
<1>1. CASE map[k] = 0
  BY <1>1, MissKeeps
<1>2. CASE map[k] # 0
  BY <1>2, HitKeeps DEF Get
<1>. QED BY <1>1, <1>2

--------------------------------------------------------------------------
(* release                                                                 *)
LEMMA ReleaseFacts ==
    ASSUME RcMapAssumption, MapInv, NEW u \in Users, Release(u),
           NEW s \in Entries, s = user[u], NEW k \in Keys, k = entry[s].key
    PROVE  /\ user' = [user EXCEPT ![u] = 0] /\ UNCHANGED <<state, ttl, now>>
           /\ entry[s].refCount > 0 /\ entry[s].refCount \in Nat
           /\ Entries' = Entries /\ \A i \in Entries \ {s} : entry'[i] = entry[i]
           /\ entry'[s] \in Resources
           /\ entry'[s].refCount = entry[s].refCount - 1
           /\ entry'[s].key = k /\ entry'[s].invalidated = entry[s].invalidated
           /\ \/ /\ entry'[s].open = entry[s].open /\ UNCHANGED map
                 /\ entry'[s].fiber = entry[s].fiber \/ ttl # 0
                 /\ entry'[s].refCount = 0 => state # "Closed" /\ map[k] # 0
              \/ /\ entry'[s].refCount = 0 /\ ~entry'[s].open
                 /\ entry'[s].fiber = entry[s].fiber
                 /\ map' = IF state = "Closed" THEN map ELSE [map EXCEPT ![k] = 0]
                 /\ state = "Closed" \/ map[k] = 0 \/ ttl = 0
<1> DEFINE n == entry[s].refCount - 1
           r == [entry[s] EXCEPT !.refCount = n]
           left == [entry EXCEPT ![s].refCount = @ - 1]
<1>1. entry[s] \in Resources /\ s # 0 /\ user[u] # 0
  BY DEF MapInv, MapTypeOK, Release
<1>2. entry[s].refCount > 0 /\ entry[s].refCount \in Nat /\ n \in Nat
  BY <1>1, Counted DEF MapInv
<1>3. r \in Resources
  BY <1>1, <1>2 DEF Resources
<1>4. /\ r.refCount = n /\ r.key = k /\ r.invalidated = entry[s].invalidated
      /\ r.open = entry[s].open /\ r.fiber = entry[s].fiber
  BY <1>1 DEF Resources
<1>5. /\ DOMAIN left = Entries /\ left[s] = r
      /\ \A i \in Entries \ {s} : left[i] = entry[i]
  BY DEF Entries
<1>cases. \/ left[s].refCount > 0 /\ entry' = left /\ UNCHANGED map
          \/ /\ left[s].refCount = 0 /\ (state = "Closed" \/ map[k] = 0 \/ ttl = 0)
             /\ entry' = [left EXCEPT ![s].open = FALSE]
             /\ map' = IF state = "Closed" THEN map ELSE [map EXCEPT ![k] = 0]
          \/ /\ left[s].refCount = 0 /\ state # "Closed" /\ map[k] # 0 /\ ttl # 0
             /\ entry' = left /\ UNCHANGED map
          \/ /\ left[s].refCount = 0 /\ state # "Closed" /\ map[k] # 0 /\ ttl # 0
             /\ entry' = [left EXCEPT ![s].expiresAt = now + ttl,
                             ![s].fiber = IF ~Alone(s) THEN @
                                          ELSE IF state = "Open" THEN "asleep" ELSE "none"]
             /\ UNCHANGED map
  BY DEF Release
<1>count. left[s].refCount = n
  BY <1>4, <1>5
<1>6. \/ n > 0 /\ entry' = left /\ UNCHANGED map
      \/ /\ n = 0 /\ (state = "Closed" \/ map[k] = 0 \/ ttl = 0)
         /\ entry' = [left EXCEPT ![s].open = FALSE]
         /\ map' = IF state = "Closed" THEN map ELSE [map EXCEPT ![k] = 0]
      \/ /\ n = 0 /\ state # "Closed" /\ map[k] # 0 /\ ttl # 0
         /\ entry' = left /\ UNCHANGED map
      \/ /\ n = 0 /\ state # "Closed" /\ map[k] # 0 /\ ttl # 0
         /\ entry' = [left EXCEPT ![s].expiresAt = now + ttl,
                         ![s].fiber = IF ~Alone(s) THEN @
                                      ELSE IF state = "Open" THEN "asleep" ELSE "none"]
         /\ UNCHANGED map
  <2> HIDE DEF left, r, n
  <2>. QED BY <1>cases, <1>count
<1>7. /\ user' = [user EXCEPT ![u] = 0] /\ UNCHANGED <<state, ttl, now>>
      /\ now + ttl \in Nat
  BY DEF Release, MapInv, MapTypeOK
<1> HIDE DEF r, left, n
<1>8. CASE entry' = left /\ UNCHANGED map /\ (n > 0 \/ (state # "Closed" /\ map[k] # 0))
  <2>1. Entries' = Entries /\ entry'[s] = r /\ \A i \in Entries \ {s} : entry'[i] = entry[i]
    BY <1>5, <1>8 DEF Entries
  <2>. QED BY <1>2, <1>3, <1>4, <1>7, <1>8, <2>1 DEF n
<1>9. CASE /\ n = 0 /\ (state = "Closed" \/ map[k] = 0 \/ ttl = 0)
           /\ entry' = [left EXCEPT ![s].open = FALSE]
           /\ map' = IF state = "Closed" THEN map ELSE [map EXCEPT ![k] = 0]
  <2>1. /\ Entries' = Entries /\ \A i \in Entries \ {s} : entry'[i] = entry[i]
        /\ entry'[s] = [r EXCEPT !.open = FALSE]
    BY <1>5, <1>9 DEF Entries
  <2>2. entry'[s] \in Resources
    BY <1>3, <2>1 DEF Resources
  <2>3. /\ entry'[s].refCount = n /\ entry'[s].key = k /\ ~entry'[s].open
        /\ entry'[s].invalidated = entry[s].invalidated /\ entry'[s].fiber = entry[s].fiber
    BY <1>3, <1>4, <2>1 DEF Resources
  <2>. QED BY <1>2, <1>7, <1>9, <2>1, <2>2, <2>3 DEF n
<1>10. CASE /\ n = 0 /\ state # "Closed" /\ map[k] # 0 /\ ttl # 0
            /\ entry' = [left EXCEPT ![s].expiresAt = now + ttl,
                            ![s].fiber = IF ~Alone(s) THEN @
                                         ELSE IF state = "Open" THEN "asleep" ELSE "none"]
            /\ UNCHANGED map
  <2> DEFINE f == IF ~Alone(s) THEN r.fiber
                  ELSE IF state = "Open" THEN "asleep" ELSE "none"
             t == now + ttl
  <2>1. f \in Fibers /\ t \in Nat
    BY <1>3, <1>7 DEF Resources, Fibers
  <2>2. /\ Entries' = Entries /\ \A i \in Entries \ {s} : entry'[i] = entry[i]
        /\ entry'[s] = [r EXCEPT !.expiresAt = t, !.fiber = f]
    BY <1>5, <1>10 DEF Entries
  <2> HIDE DEF f, t
  <2>3. entry'[s] \in Resources
    BY <1>3, <2>1, <2>2 DEF Resources
  <2>4. /\ entry'[s].refCount = n /\ entry'[s].key = k /\ entry'[s].open = entry[s].open
        /\ entry'[s].invalidated = entry[s].invalidated
    BY <1>3, <1>4, <2>2 DEF Resources
  <2>. QED BY <1>2, <1>7, <1>10, <2>2, <2>3, <2>4 DEF n
<1>. QED BY <1>6, <1>8, <1>9, <1>10

LEMMA ReleaseKeeps ==
    ASSUME RcMapAssumption, MapInv, NEW u \in Users, Release(u)
    PROVE  MapInv'
<1> USE DEF MapInv
<1>0. PICK s \in Entries : s = user[u] /\ s \in Nat \ {0}
  BY DEF Release, MapTypeOK
<1>1. PICK k \in Keys : k = entry[s].key
  BY DEF MapTypeOK, Resources
<1>2. /\ user' = [user EXCEPT ![u] = 0] /\ UNCHANGED <<state, ttl, now>>
      /\ entry[s].refCount > 0 /\ entry[s].refCount \in Nat
      /\ Entries' = Entries /\ \A i \in Entries \ {s} : entry'[i] = entry[i]
      /\ entry'[s] \in Resources
      /\ entry'[s].refCount = entry[s].refCount - 1
      /\ entry'[s].key = k /\ entry'[s].invalidated = entry[s].invalidated
  BY <1>0, <1>1, ReleaseFacts
<1>3. RefsExact'
  <2>1. /\ Cardinality(UsersOf(s))' = Cardinality(UsersOf(s)) - 1
        /\ \A j \in Nat \ {0, s} : UsersOf(j)' = UsersOf(j)
    BY <1>0, <1>2, Leaves
  <2>2. \A i \in Entries : i \in Nat \ {0}
    BY DEF MapTypeOK
  <2>3. entry'[s].refCount = Cardinality(UsersOf(s))'
    BY <1>0, <1>2, <2>1 DEF RefsExact, UsersOf
  <2>4. \A i \in Entries \ {s} : entry'[i].refCount = Cardinality(UsersOf(i))'
    BY <1>2, <2>1, <2>2 DEF RefsExact, UsersOf
  <2>. QED BY <1>2, <2>3, <2>4 DEF RefsExact, UsersOf
<1>4. Live(s)
  BY <1>2 DEF Live
<1>5. \A i \in Entries : entry'[i].key = entry[i].key /\ entry'[i].invalidated = entry[i].invalidated
  BY <1>1, <1>2
<1>6. CASE /\ entry'[s].open = entry[s].open /\ UNCHANGED map
           /\ entry'[s].fiber = entry[s].fiber \/ ttl # 0
           /\ entry'[s].refCount = 0 => state # "Closed" /\ map[k] # 0
  <2>1. MapTypeOK'
    BY <1>2, <1>6 DEF MapTypeOK
  <2>2. \A i \in Entries : entry'[i].open = entry[i].open
    BY <1>2, <1>6
  <2>3. Mapping'
    BY <1>2, <1>5, <1>6, <2>2 DEF Mapping, MapTypeOK
  <2>4. OpenInUse'
    BY <1>2, <2>2 DEF OpenInUse
  <2>5. OnePerKey'
    <3> SUFFICES ASSUME "reget" \notin Hazards PROVE OnePerKey'
      BY DEF OnePerKey
    <3>1. \A i \in Entries : Live(i)' => Live(i)
      BY <1>2, <1>4, <1>5, <1>6 DEF Live, Alone
    <3>2. entry'[s].refCount = 0 => map[k] = s
      <4> SUFFICES ASSUME map[k] # 0 PROVE map[k] = s
        BY <1>6
      <4>1. map[k] \in Entries /\ entry[map[k]].key = k
        BY DEF MapTypeOK, Mapping
      <4>2. Live(map[k])
        BY <4>1 DEF Live
      <4>. QED BY <1>1, <1>4, <4>1, <4>2 DEF OnePerKey
    <3>3. \A i \in Entries : entry'[i].open => entry'[i].refCount > 0 \/ map[entry[i].key] = i
      <4>1. entry'[s].refCount > 0 \/ entry'[s].refCount = 0
        BY <1>2
      <4>. QED BY <1>1, <1>2, <2>2, <3>2, <4>1 DEF OnePerKey
    <3>4. ttl = 0 => \A i \in Entries : Alone(i)'
      BY <1>2, <1>6 DEF OnePerKey, Alone
    <3>. QED BY <1>2, <1>5, <1>6, <3>1, <3>3, <3>4 DEF OnePerKey
  <2>. QED BY <1>3, <2>1, <2>3, <2>4, <2>5
<1>7. CASE /\ entry'[s].refCount = 0 /\ ~entry'[s].open
           /\ entry'[s].fiber = entry[s].fiber
           /\ map' = IF state = "Closed" THEN map ELSE [map EXCEPT ![k] = 0]
           /\ state = "Closed" \/ map[k] = 0 \/ ttl = 0
  <2>1. /\ map'[k] = 0 /\ \A j \in Keys \ {k} : map'[j] = map[j]
        /\ map' \in [Keys -> Nat]
    BY <1>7 DEF MapTypeOK, Mapping
  <2>2. MapTypeOK'
    BY <1>2, <2>1 DEF MapTypeOK
  <2>3. Mapping'
    <3>1. \A j \in Keys : map'[j] # 0 => j # k /\ map[j] = map'[j] /\ map[j] # s
      BY <1>1, <2>1 DEF Mapping
    <3>. QED BY <1>2, <3>1 DEF Mapping, MapTypeOK
  <2>4. OpenInUse'
    BY <1>2, <1>7 DEF OpenInUse
  <2>5. OnePerKey'
    <3> SUFFICES ASSUME "reget" \notin Hazards PROVE OnePerKey'
      BY DEF OnePerKey
    <3>1. \A i \in Entries : entry[i].key \in Keys /\ i # 0
      <4>1. \A i \in Entries : i # 0
        <5>1. PICK n \in Nat : Entries = 1 .. n
          BY DEF MapTypeOK
        <5>. QED BY <5>1
      <4>2. \A i \in Entries : entry[i] \in Resources
        BY DEF MapTypeOK
      <4>3. \A i \in Entries : entry[i].key \in Keys
        BY <4>2 DEF Resources
      <4>. QED BY <4>1, <4>3
    <3>2. \A i \in Entries : map'[entry[i].key] = i => map[entry[i].key] = i
      BY <2>1, <3>1
    <3>3. \A i \in Entries : Live(i)' => Live(i)
      BY <1>2, <1>4, <1>5, <3>2 DEF Live, Alone
    <3>4. \A i \in Entries : Live(i) /\ entry[i].key = k => i = s
      BY <1>1, <1>4 DEF OnePerKey
    <3>5. state # "Closed" /\ Live(s)' => entry[s].invalidated
      <4> SUFFICES ASSUME state # "Closed", Live(s)' PROVE entry[s].invalidated
        OBVIOUS
      <4>1. ~Alone(s)
        BY <1>1, <1>2, <1>7, <2>1, <3>1 DEF Live, Alone
      <4>2. map[k] = 0
        BY <1>7, <4>1 DEF OnePerKey
      <4>. QED BY <1>1, <1>4, <3>1, <4>2 DEF OnePerKey
    <3>6. ASSUME state # "Closed", NEW i \in Entries, Live(i)', map'[entry[i].key] # i
          PROVE  entry[i].invalidated
      <4>1. CASE entry[i].key = k
        BY <3>3, <3>4, <3>5, <3>6, <4>1
      <4>2. CASE entry[i].key # k
        BY <2>1, <3>1, <3>3, <3>6, <4>2 DEF OnePerKey
      <4>. QED BY <4>1, <4>2
    <3>7. ASSUME NEW i \in Entries, entry'[i].open
          PROVE  entry'[i].refCount > 0 \/ map'[entry[i].key] = i
      <4>1. i # s /\ entry'[i] = entry[i]
        BY <1>2, <1>7, <3>7
      <4>2. entry[i].refCount > 0 \/ map[entry[i].key] = i
        BY <3>7, <4>1 DEF OnePerKey
      <4>3. entry[i].key = k /\ map[k] = i => FALSE
        BY <3>4, <4>1 DEF Live
      <4>. QED BY <2>1, <3>1, <4>1, <4>2, <4>3
    <3>8. ttl = 0 => \A i \in Entries : Alone(i)'
      BY <1>2, <1>7 DEF OnePerKey, Alone
    <3>. QED BY <1>2, <1>5, <3>3, <3>6, <3>7, <3>8 DEF OnePerKey
  <2>. QED BY <1>3, <2>2, <2>3, <2>4, <2>5
<1>. QED BY <1>0, <1>1, <1>6, <1>7, ReleaseFacts

--------------------------------------------------------------------------
(* Idle fibers end, times to live change, the scope begins to close.       *)
LEMMA FibersKeep ==
    ASSUME MapInv, UNCHANGED <<map, user, ttl, now>>, Entries' = Entries,
           state' = state \/ (state = "Open" /\ state' = "Closing"),
           \A i \in Entries :
             /\ entry'[i] \in Resources
             /\ entry'[i].key = entry[i].key /\ entry'[i].refCount = entry[i].refCount
             /\ entry'[i].open = entry[i].open
             /\ entry'[i].invalidated = entry[i].invalidated
             /\ Alone(i) => Alone(i)'
    PROVE  MapInv'
<1> USE DEF MapInv
<1>1. state' \in {"Open", "Closing", "Closed"} /\ (state' = "Closed" <=> state = "Closed")
  BY DEF MapTypeOK
<1>2. MapTypeOK'
  BY <1>1 DEF MapTypeOK
<1>3. RefsExact'
  BY CountsKeep
<1>4. Mapping' /\ OpenInUse'
  BY <1>1 DEF Mapping, OpenInUse, MapTypeOK
<1>5. \A i \in Entries : Live(i)' => Live(i)
  BY DEF Live
<1>6. OnePerKey'
  BY <1>1, <1>5 DEF OnePerKey
<1>. QED BY <1>2, <1>3, <1>4, <1>6

LEMMA EnsuringKeeps ==
    ASSUME MapInv, NEW i \in Entries, NEW f \in Fibers, Alone(i) => f = "none",
           entry' = [entry EXCEPT ![i].fiber = f],
           UNCHANGED <<map, user, state, ttl, now>>
    PROVE  MapInv'
<1>1. entry[i] \in Resources
  BY DEF MapInv, MapTypeOK
<1>2. /\ Entries' = Entries /\ \A j \in Entries \ {i} : entry'[j] = entry[j]
      /\ entry'[i] = [entry[i] EXCEPT !.fiber = f]
  BY DEF Entries
<1>3. entry'[i] \in Resources
  BY <1>1, <1>2 DEF Resources
<1>4. /\ entry'[i].key = entry[i].key /\ entry'[i].refCount = entry[i].refCount
      /\ entry'[i].open = entry[i].open /\ entry'[i].fiber = f
      /\ entry'[i].invalidated = entry[i].invalidated
  BY <1>1, <1>2 DEF Resources
<1>5. \A j \in Entries : Alone(j) => Alone(j)'
  BY <1>2, <1>4 DEF Alone
<1>6. \A j \in Entries : entry[j] \in Resources
  BY DEF MapInv, MapTypeOK
<1>. QED BY <1>2, <1>3, <1>4, <1>5, <1>6, FibersKeep

LEMMA TouchKeeps ==
    ASSUME MapInv, NEW k \in Keys, Touch(k)
    PROVE  MapInv'
<1>1. PICK i \in Entries : i = map[k]
  BY DEF MapInv, MapTypeOK, Touch
<1>2. PICK t \in Nat : t = now + ttl
  BY DEF MapInv, MapTypeOK
<1>3. entry[i] \in Resources /\ entry' = [entry EXCEPT ![i].expiresAt = t]
  BY <1>1, <1>2 DEF MapInv, MapTypeOK, Touch
<1>4. /\ Entries' = Entries /\ \A j \in Entries \ {i} : entry'[j] = entry[j]
      /\ entry'[i] = [entry[i] EXCEPT !.expiresAt = t]
  BY <1>3 DEF Entries
<1>5. entry'[i] \in Resources
  BY <1>3, <1>4 DEF Resources
<1>6. /\ entry'[i].key = entry[i].key /\ entry'[i].refCount = entry[i].refCount
      /\ entry'[i].open = entry[i].open /\ entry'[i].fiber = entry[i].fiber
      /\ entry'[i].invalidated = entry[i].invalidated
  BY <1>3, <1>4 DEF Resources
<1>7. \A j \in Entries : Alone(j) => Alone(j)'
  BY <1>4, <1>6 DEF Alone
<1>8. \A j \in Entries : entry[j] \in Resources
  BY DEF MapInv, MapTypeOK
<1>9. UNCHANGED <<map, user, state, ttl, now>>
  BY DEF Touch
<1>. QED BY <1>4, <1>5, <1>6, <1>7, <1>8, <1>9, FibersKeep

LEMMA CloseScopeKeeps ==
    ASSUME MapInv, CloseScope
    PROVE  MapInv'
<1>1. /\ Entries' = Entries /\ UNCHANGED <<map, user, ttl, now>>
      /\ state = "Open" /\ state' = "Closing"
      /\ \A i \in Entries : entry'[i] = [entry[i] EXCEPT !.fiber = "none"]
  BY DEF CloseScope, Entries
<1>2. ASSUME NEW i \in Entries
      PROVE  /\ entry'[i] \in Resources
             /\ entry'[i].key = entry[i].key /\ entry'[i].refCount = entry[i].refCount
             /\ entry'[i].open = entry[i].open /\ entry'[i].fiber = "none"
             /\ entry'[i].invalidated = entry[i].invalidated
  <2>1. entry[i] \in Resources /\ entry'[i] = [entry[i] EXCEPT !.fiber = "none"]
    BY <1>1 DEF MapInv, MapTypeOK
  <2>2. entry'[i] \in Resources
    BY <2>1 DEF Resources, Fibers
  <2>. QED BY <2>1, <2>2 DEF Resources
<1>3. \A i \in Entries : Alone(i)'
  BY <1>2 DEF Alone
<1>. QED BY <1>1, <1>2, <1>3, FibersKeep

(* The finalizer of make closes what the map holds.                        *)
LEMMA CloseMapKeeps ==
    ASSUME MapInv, CloseMap
    PROVE  MapInv'
<1> USE DEF MapInv
<1>1. /\ Entries' = Entries /\ UNCHANGED <<user, ttl, now>>
      /\ state # "Closed" /\ state' = "Closed" /\ map' = [k \in Keys |-> 0]
  BY DEF CloseMap, Entries
<1>2. ASSUME NEW i \in Entries
      PROVE  /\ entry'[i] \in Resources
             /\ entry'[i].key = entry[i].key /\ entry'[i].refCount = entry[i].refCount
             /\ entry'[i].open = (entry[i].open /\ i \notin Mapped)
             /\ entry'[i].fiber = entry[i].fiber
             /\ entry'[i].invalidated = entry[i].invalidated
  <2>0. PICK b \in BOOLEAN : b = (entry[i].open /\ i \notin Mapped)
    OBVIOUS
  <2>1. entry[i] \in Resources /\ entry'[i] = [entry[i] EXCEPT !.open = b]
    BY <2>0 DEF MapTypeOK, CloseMap
  <2>2. entry'[i] \in Resources
    BY <2>1 DEF Resources
  <2>. QED BY <2>0, <2>1, <2>2 DEF Resources
<1>3. MapTypeOK'
  BY <1>1, <1>2 DEF MapTypeOK
<1>4. RefsExact'
  BY <1>1, <1>2, CountsKeep
<1>5. Mapping' /\ OpenInUse'
  BY <1>1 DEF Mapping, OpenInUse
<1>6. OnePerKey'
  <2>1. \A i \in Entries : entry[i].key \in Keys /\ i # 0
    BY DEF MapTypeOK, Resources
  <2>2. \A i \in Entries : Live(i)' => Live(i)
    BY <1>1, <1>2, <2>1 DEF Live, Alone
  <2>3. \A i \in Entries : map[entry[i].key] = i => i \in Mapped
    BY <2>1 DEF Mapped
  <2>4. \A i \in Entries : Alone(i) => Alone(i)'
    BY <1>2 DEF Alone
  <2>. QED BY <1>1, <1>2, <2>2, <2>3, <2>4 DEF OnePerKey
<1>. QED BY <1>3, <1>4, <1>5, <1>6

--------------------------------------------------------------------------
(* An entry nobody uses is closed and the key taken out of the map.        *)
LEMMA DropKeeps ==
    ASSUME MapInv, state # "Closed", NEW s \in Entries, NEW k \in Keys, k = entry[s].key,
           entry[s].refCount = 0, Live(s), map' = [map EXCEPT ![k] = 0],
           Entries' = Entries, \A i \in Entries \ {s} : entry'[i] = entry[i],
           entry'[s] \in Resources, entry'[s].key = k, entry'[s].refCount = 0,
           ~entry'[s].open, entry'[s].fiber = "none",
           UNCHANGED <<user, state, ttl, now>>
    PROVE  MapInv'
<1> USE DEF MapInv
<1>1. /\ map'[k] = 0 /\ \A j \in Keys \ {k} : map'[j] = map[j]
      /\ map' \in [Keys -> Nat]
  BY DEF MapTypeOK
<1>2. MapTypeOK'
  BY <1>1 DEF MapTypeOK
<1>3. RefsExact'
  BY CountsKeep
<1>4. Mapping'
  <2>1. \A j \in Keys : map'[j] # 0 => j # k /\ map[j] = map'[j] /\ map[j] # s
    BY <1>1 DEF Mapping
  <2>. QED BY <2>1 DEF Mapping, MapTypeOK
<1>5. OpenInUse'
  BY DEF OpenInUse
<1>6. OnePerKey'
  <2> SUFFICES ASSUME "reget" \notin Hazards PROVE OnePerKey'
    BY DEF OnePerKey
  <2>1. \A i \in Entries : entry[i].key \in Keys /\ i # 0 /\ entry'[i].key = entry[i].key
    <3>1. \A i \in Entries : entry[i].key \in Keys /\ i # 0
      BY DEF MapTypeOK, Resources
    <3>. QED BY <3>1
  <2>2. \A i \in Entries : map'[entry[i].key] = i => map[entry[i].key] = i
    BY <1>1, <2>1
  <2>3. ~Live(s)' /\ \A i \in Entries : Live(i)' => Live(i) /\ entry'[i] = entry[i]
    BY <1>1, <2>1, <2>2 DEF Live, Alone
  <2>4. \A i \in Entries : Live(i) /\ entry[i].key = k => i = s
    BY DEF OnePerKey
  <2>5. ASSUME NEW i \in Entries, Live(i)', map'[entry[i].key] # i
        PROVE  entry'[i].invalidated
    <3>1. entry[i].key # k
      BY <2>3, <2>4, <2>5
    <3>. QED BY <1>1, <2>1, <2>3, <2>5, <3>1 DEF OnePerKey
  <2>6. ASSUME NEW i \in Entries, entry'[i].open
        PROVE  entry'[i].refCount > 0 \/ map'[entry[i].key] = i
    <3>1. i # s /\ entry'[i] = entry[i]
      BY <2>6
    <3>2. entry[i].refCount > 0 \/ map[entry[i].key] = i
      BY <2>6, <3>1 DEF OnePerKey
    <3>3. entry[i].key = k /\ map[k] = i => FALSE
      BY <2>4, <3>1 DEF Live
    <3>. QED BY <1>1, <2>1, <3>1, <3>2, <3>3
  <2>7. ttl = 0 => \A i \in Entries : Alone(i)'
    BY DEF OnePerKey, Alone
  <2>. QED BY <2>1, <2>3, <2>5, <2>6, <2>7 DEF OnePerKey
<1>. QED BY <1>2, <1>3, <1>4, <1>5, <1>6

LEMMA ExpireKeeps ==
    ASSUME MapInv, NEW i \in Entries, Expire(i)
    PROVE  MapInv'
<1>1. /\ entry[i].fiber = "asleep" /\ UNCHANGED <<user, state, ttl, now>>
      /\ entry[i] \in Resources /\ ~Alone(i)
  BY DEF Expire, MapInv, MapTypeOK, Alone
<1>2. CASE Unused(i)
  <2>1. PICK k \in Keys : k = entry[i].key
    BY <1>1 DEF Resources
  <2>2. /\ map' = [map EXCEPT ![k] = 0] /\ state # "Closed" /\ entry[i].refCount = 0
        /\ entry' = [entry EXCEPT ![i].open = FALSE, ![i].fiber = "none"]
    BY <1>2, <2>1 DEF Expire, Unused
  <2>3. /\ Entries' = Entries /\ \A j \in Entries \ {i} : entry'[j] = entry[j]
        /\ entry'[i] = [entry[i] EXCEPT !.open = FALSE, !.fiber = "none"]
    BY <2>2 DEF Entries
  <2>4. entry'[i] \in Resources
    BY <1>1, <2>3 DEF Resources, Fibers
  <2>5. /\ entry'[i].key = k /\ entry'[i].refCount = 0 /\ ~entry'[i].open
        /\ entry'[i].fiber = "none"
    <3>1. /\ entry'[i].key = entry[i].key /\ entry'[i].refCount = entry[i].refCount
          /\ entry'[i].open = FALSE /\ entry'[i].fiber = "none"
      BY <1>1, <2>3 DEF Resources
    <3>. QED BY <2>1, <2>2, <3>1
  <2>6. Live(i)
    BY <1>1 DEF Live
  <2>. QED BY <1>1, <2>1, <2>2, <2>3, <2>4, <2>5, <2>6, DropKeeps
<1>3. CASE ~Unused(i)
  <2>1. PICK f \in Fibers : f = IF "yield" \in Hazards THEN "ending" ELSE "none"
    BY DEF Fibers
  <2>2. entry' = [entry EXCEPT ![i].fiber = f] /\ UNCHANGED map
    BY <1>3, <2>1 DEF Expire
  <2>. QED BY <1>1, <2>2, EnsuringKeeps
<1>. QED BY <1>2, <1>3

LEMMA InvalidateKeeps ==
    ASSUME MapInv, NEW k \in Keys, Invalidate(k)
    PROVE  MapInv'
<1> USE DEF MapInv
<1>1. PICK s \in Entries : s = map[k] /\ s \in Nat \ {0}
  BY DEF MapTypeOK, Invalidate
<1>2. /\ entry[s] \in Resources /\ entry[s].key = k
      /\ state # "Closed" /\ map' = [map EXCEPT ![k] = 0]
      /\ UNCHANGED <<user, state, ttl, now>>
      /\ entry[s].refCount \in Nat /\ Live(s)
  BY <1>1 DEF MapTypeOK, Invalidate, Mapping, Live, Resources
<1>3. CASE ~(entry[s].refCount > 0)
  <2>1. entry' = [entry EXCEPT ![s].invalidated = TRUE, ![s].open = FALSE, ![s].fiber = "none"]
    BY <1>1, <1>3 DEF Invalidate
  <2>2. /\ Entries' = Entries /\ \A j \in Entries \ {s} : entry'[j] = entry[j]
        /\ entry'[s] = [entry[s] EXCEPT !.invalidated = TRUE, !.open = FALSE, !.fiber = "none"]
    BY <2>1 DEF Entries
  <2>3. entry'[s] \in Resources
    BY <1>2, <2>2 DEF Resources, Fibers
  <2>4. /\ entry'[s].key = k /\ entry'[s].refCount = entry[s].refCount /\ ~entry'[s].open
        /\ entry'[s].fiber = "none"
    BY <1>2, <2>2 DEF Resources
  <2>5. entry[s].refCount = 0
    BY <1>2, <1>3
  <2>. QED BY <1>2, <2>2, <2>3, <2>4, <2>5, DropKeeps
<1>4. CASE entry[s].refCount > 0
  <2>1. entry' = [entry EXCEPT ![s].invalidated = TRUE]
    BY <1>1, <1>4 DEF Invalidate
  <2>2. /\ Entries' = Entries /\ \A j \in Entries \ {s} : entry'[j] = entry[j]
        /\ entry'[s] = [entry[s] EXCEPT !.invalidated = TRUE]
    BY <2>1 DEF Entries
  <2>3. entry'[s] \in Resources
    BY <1>2, <2>2 DEF Resources
  <2>4. /\ entry'[s].key = k /\ entry'[s].refCount = entry[s].refCount
        /\ entry'[s].open = entry[s].open /\ entry'[s].fiber = entry[s].fiber
        /\ entry'[s].invalidated
    BY <1>2, <2>2 DEF Resources
  <2>5. /\ map'[k] = 0 /\ \A j \in Keys \ {k} : map'[j] = map[j]
        /\ map' \in [Keys -> Nat]
    BY <1>2 DEF MapTypeOK
  <2>6. MapTypeOK'
    BY <1>2, <2>2, <2>3, <2>5 DEF MapTypeOK
  <2>7. RefsExact'
    BY <1>2, <2>2, <2>4, CountsKeep
  <2>8. Mapping'
    <3>1. \A j \in Keys : map'[j] # 0 => j # k /\ map[j] = map'[j] /\ map[j] # s
      BY <1>2, <2>5 DEF Mapping
    <3>. QED BY <1>2, <2>2, <3>1 DEF Mapping, MapTypeOK
  <2>9. OpenInUse'
    BY <1>2, <2>2, <2>4 DEF OpenInUse
  <2>10. OnePerKey'
    <3> SUFFICES ASSUME "reget" \notin Hazards PROVE OnePerKey'
      BY DEF OnePerKey
    <3>1. \A i \in Entries : /\ entry[i].key \in Keys /\ i # 0
                             /\ entry'[i].key = entry[i].key
                             /\ entry'[i].refCount = entry[i].refCount
                             /\ entry'[i].open = entry[i].open
                             /\ (Alone(i)' <=> Alone(i))
      <4>1. \A i \in Entries : entry[i].key \in Keys /\ i # 0
        BY DEF MapTypeOK, Resources
      <4>. QED BY <1>2, <2>2, <2>4, <4>1 DEF Alone
    <3>2. \A i \in Entries : map'[entry[i].key] = i => map[entry[i].key] = i
      BY <2>5, <3>1
    <3>3. \A i \in Entries : Live(i)' => Live(i)
      BY <3>1, <3>2 DEF Live
    <3>4. \A i \in Entries : Live(i) /\ entry[i].key = k => i = s
      BY <1>2 DEF OnePerKey
    <3>5. ASSUME NEW i \in Entries, Live(i)', map'[entry[i].key] # i
          PROVE  entry'[i].invalidated
      <4>1. CASE i = s
        BY <2>4, <4>1
      <4>2. CASE i # s
        <5>1. entry[i].key # k
          BY <3>3, <3>4, <3>5, <4>2
        <5>. QED BY <1>2, <2>2, <2>5, <3>1, <3>3, <3>5, <4>2, <5>1 DEF OnePerKey
      <4>. QED BY <4>1, <4>2
    <3>6. ASSUME NEW i \in Entries, entry'[i].open
          PROVE  entry'[i].refCount > 0 \/ map'[entry[i].key] = i
      <4>1. CASE i = s
        BY <1>4, <2>4, <4>1
      <4>2. CASE i # s
        <5>1. entry[i].refCount > 0 \/ map[entry[i].key] = i
          BY <3>1, <3>6 DEF OnePerKey
        <5>2. entry[i].key = k /\ map[k] = i => FALSE
          BY <3>4, <4>2 DEF Live
        <5>. QED BY <2>5, <3>1, <5>1, <5>2
      <4>. QED BY <4>1, <4>2
    <3>7. ttl' = 0 => \A i \in Entries : Alone(i)'
      BY <1>2, <3>1 DEF OnePerKey
    <3>. QED BY <2>2, <3>1, <3>3, <3>5, <3>6, <3>7 DEF OnePerKey
  <2>. QED BY <2>6, <2>7, <2>8, <2>9, <2>10
<1>. QED BY <1>3, <1>4

--------------------------------------------------------------------------
LEMMA MapNextInv == RcMapAssumption /\ MapInv /\ [Next]_vars => MapInv'
<1> SUFFICES ASSUME RcMapAssumption, MapInv, [Next]_vars PROVE MapInv'
  OBVIOUS
<1>1. ASSUME NEW u \in Users, Release(u) PROVE MapInv'
  BY <1>1, ReleaseKeeps
<1>2. ASSUME NEW u \in Users, NEW k \in Keys, Get(u, k) PROVE MapInv'
  BY <1>2, GetKeeps
<1>3. ASSUME NEW k \in Keys, Invalidate(k) \/ Touch(k) PROVE MapInv'
  BY <1>3, InvalidateKeeps, TouchKeeps
<1>4. ASSUME NEW i \in Entries, Expire(i) \/ Ensuring(i) PROVE MapInv'
  <2>1. CASE Ensuring(i)
    BY <2>1, EnsuringKeeps DEF Ensuring, Fibers
  <2>. QED BY <1>4, <2>1, ExpireKeeps
<1>5. CASE CloseScope \/ CloseMap
  BY <1>5, CloseScopeKeeps, CloseMapKeeps
<1>6. CASE Tick
  BY <1>6, QuietMap DEF Tick, MapInv, MapTypeOK
<1>7. CASE UNCHANGED vars
  BY <1>7, QuietMap DEF vars, MapInv, MapTypeOK
<1>. QED BY <1>1, <1>2, <1>3, <1>4, <1>5, <1>6, <1>7 DEF Next, IdleStep

LEMMA MapInvSafe == RcMapAssumption /\ MapInv => MapSafe
<1> SUFFICES ASSUME RcMapAssumption, MapInv PROVE MapSafe
  OBVIOUS
<1> USE DEF MapInv
<1>1. \A u \in Users : user[u] # 0 => user[u] \in Entries /\ entry[user[u]].refCount > 0
  BY Counted DEF MapTypeOK
<1>2. NoUseAfterRelease
  BY <1>1 DEF NoUseAfterRelease, OpenInUse
<1>3. ASSUME "reget" \notin Hazards PROVE NothingLeaks
  <2> SUFFICES ASSUME state = "Closed", \A u \in Users : user[u] = 0,
                      NEW i \in Entries, entry[i].open
               PROVE  FALSE
    BY DEF NothingLeaks
  <2>1. i \in Nat \ {0} /\ entry[i].key \in Keys
    BY DEF MapTypeOK, Resources
  <2>2. UsersOf(i) = {}
    BY <2>1 DEF UsersOf
  <2>3. entry[i].refCount = 0
    BY <2>2, FS_EmptySet DEF RefsExact, UsersOf
  <2>4. map[entry[i].key] = i
    BY <1>3, <2>3 DEF OnePerKey
  <2>. QED BY <2>1, <2>4 DEF Mapping
<1>4. ASSUME "reget" \notin Hazards PROVE Shared
  BY <1>1, <1>4 DEF Shared, OnePerKey, Live
<1>. QED BY <1>2, <1>3, <1>4 DEF MapSafe

\* Counts are exact, nobody keeps a closed resource, and unless keys are looked up
\* again too early users of a key share one and a closed map leaves nothing open
\* (RcMap.ts:255-415, 500-515).
THEOREM MapIsSafe == ASSUME RcMapAssumption PROVE Spec => []MapSafe
<1>1. Init => MapInv
  BY MapInitInv
<1>2. MapInv /\ [Next]_vars => MapInv'
  BY MapNextInv
<1>3. MapInv => MapSafe
  BY MapInvSafe
<1>. QED BY <1>1, <1>2, <1>3, PTL DEF Spec

(*****************************************************************************)
(* The queue over the in-memory store.                                       *)
(*****************************************************************************)
MemoryTypeOK ==
  /\ settled \subseteq ids /\ ids \subseteq Elements
  /\ items \in Seq(Elements) /\ open \in BOOLEAN
  /\ waiters \in Seq(Takers) /\ resumed \in Seq(Takers)
  /\ taker \in [Takers -> {"idle", "waiting", "running", "defect"}]
  /\ has \in [Takers -> Elements \cup {NoElement}]

\* Nothing stands twice in a sequence.
Once(s) == \A m, n \in DOMAIN s : s[m] = s[n] => m = n

\* The latch is open while there are items, and then nobody waits at it; who goes on is
\* called before anybody else may wait.
Latched ==
  /\ open <=> items # <<>>
  /\ open \/ resumed # <<>> => waiters = <<>>
  /\ OneTaker => Len(waiters) <= 1 /\ Len(resumed) <= 1 /\ (resumed # <<>> => items # <<>>)

\* Those that wait at the latch, or are to go on, wait, each once.
Lined ==
  /\ Once(waiters) /\ \A n \in DOMAIN waiters : taker[waiters[n]] = "waiting"
  /\ Once(resumed) /\ \A n \in DOMAIN resumed : taker[resumed[n]] = "waiting"

Runs(c) == taker[c] = "running"
\* An item is in the queue or with one taker, and not if it is settled.
Apart ==
  /\ Once(items) /\ \A n \in DOMAIN items : items[n] \in ids \ settled
  /\ \A c \in Takers : Runs(c) =>
       /\ has[c] \in ids \ settled
       /\ \A n \in DOMAIN items : items[n] # has[c]
       /\ \A d \in Takers : Runs(d) /\ has[d] = has[c] => d = c

MemoryInv ==
  /\ MemoryTypeOK /\ Latched /\ Lined /\ Apart
  /\ OneTaker => NoDefect

LEMMA MemoryInitInv == ASSUME MemoryQueueAssumption, MemoryInit PROVE MemoryInv
<1>1. MemoryTypeOK
  <2>1. /\ taker \in [Takers -> {"idle", "waiting", "running", "defect"}]
        /\ has \in [Takers -> Elements \cup {NoElement}]
    BY DEF MemoryInit
  <2>2. items \in Seq(Elements) /\ waiters \in Seq(Takers) /\ resumed \in Seq(Takers)
    BY DEF MemoryInit
  <2>3. QED BY <2>1, <2>2 DEF MemoryInit, MemoryTypeOK
<1>2. Latched /\ Lined /\ Apart
  BY DEF MemoryInit, Latched, Lined, Apart, Once, Runs
<1>3. QED BY <1>1, <1>2 DEF MemoryInit, MemoryInv, NoDefect

\* What is put at the end of a sequence, and what is left of one.
LEMMA OnceAppend ==
  ASSUME NEW S, NEW s \in Seq(S), NEW e \in S, Once(s), \A n \in DOMAIN s : s[n] # e
  PROVE  /\ Append(s, e) \in Seq(S) /\ Append(s, e) # <<>> /\ Len(Append(s, e)) = Len(s) + 1
         /\ Once(Append(s, e))
         /\ \A n \in DOMAIN Append(s, e) : Append(s, e)[n] = e \/ \E m \in DOMAIN s : Append(s, e)[n] = s[m]
BY AppendProperties DEF Once

LEMMA OnceTail ==
  ASSUME NEW S, NEW s \in Seq(S), s # <<>>, Once(s)
  PROVE  /\ Tail(s) \in Seq(S) /\ Len(Tail(s)) = Len(s) - 1 /\ Once(Tail(s))
         /\ Head(s) \in S /\ Head(s) = s[1] /\ 1 \in DOMAIN s
         /\ \A n \in DOMAIN Tail(s) : Tail(s)[n] # Head(s) /\ \E m \in DOMAIN s : Tail(s)[n] = s[m]
BY HeadTailProperties DEF Once

LEMMA OnceRemoveAt ==
  ASSUME NEW S, NEW s \in Seq(S), NEW i \in 1 .. Len(s), Once(s)
  PROVE  /\ RemoveAt(s, i) \in Seq(S) /\ Len(RemoveAt(s, i)) = Len(s) - 1 /\ Once(RemoveAt(s, i))
         /\ \A n \in DOMAIN RemoveAt(s, i) : RemoveAt(s, i)[n] # s[i] /\ \E m \in DOMAIN s : RemoveAt(s, i)[n] = s[m]
<1> DEFINE t == RemoveAt(s, i)
<1>1. t \in Seq(S) /\ Len(t) = Len(s) - 1
      /\ \A j \in 1 .. Len(s) - 1 : t[j] = IF j < i THEN s[j] ELSE s[j + 1]
  BY RemoveAtFacts
<1> HIDE DEF t
<1>2. DOMAIN t = 1 .. Len(s) - 1
  BY <1>1
<1>3. \A n \in DOMAIN t : t[n] # s[i] /\ \E m \in DOMAIN s : t[n] = s[m]
  BY <1>1, <1>2 DEF Once
<1>4. ASSUME NEW m \in DOMAIN t, NEW n \in DOMAIN t, t[m] = t[n] PROVE m = n
  <2>1. PICK a \in DOMAIN s : t[m] = s[a] /\ a = IF m < i THEN m ELSE m + 1
    BY <1>1, <1>2
  <2>2. PICK b \in DOMAIN s : t[n] = s[b] /\ b = IF n < i THEN n ELSE n + 1
    BY <1>1, <1>2
  <2>3. a = b
    BY <1>4, <2>1, <2>2 DEF Once
  <2>4. QED BY <1>2, <2>1, <2>2, <2>3
<1>5. Once(t)
  BY <1>4 DEF Once
<1>6. QED BY <1>1, <1>3, <1>5 DEF t

LEMMA OfferElementKeeps ==
  ASSUME MemoryInv, NEW i \in Elements, OfferElement(i) PROVE MemoryInv'
<1>1. /\ resumed = <<>> /\ i \notin ids /\ ids' = ids \cup {i} /\ items' = Append(items, i) /\ open' = TRUE
      /\ resumed' = (IF open THEN <<>> ELSE waiters) /\ waiters' = (IF open THEN waiters ELSE <<>>)
      /\ UNCHANGED <<taker, has, settled>>
  BY DEF OfferElement, OpenLatch, Quiet, Known
<1>2. items \in Seq(Elements) /\ Once(items) /\ \A n \in DOMAIN items : items[n] # i
  BY <1>1 DEF MemoryInv, MemoryTypeOK, Apart
<1>3. /\ items' \in Seq(Elements) /\ items' # <<>> /\ Once(items')
      /\ \A n \in DOMAIN items' : items'[n] = i \/ \E m \in DOMAIN items : items'[n] = items[m]
  BY <1>1, <1>2, OnceAppend
<1>4. MemoryTypeOK'
  BY <1>1, <1>3 DEF MemoryInv, MemoryTypeOK
<1>5. Latched'
  BY <1>1, <1>3 DEF MemoryInv, MemoryTypeOK, Latched
<1>6. Lined'
  BY <1>1 DEF MemoryInv, Lined, Once
<1>7. Apart'
  BY <1>1, <1>3 DEF MemoryInv, MemoryTypeOK, Apart, Runs
<1>8. QED BY <1>1, <1>4, <1>5, <1>6, <1>7 DEF MemoryInv, NoDefect

\* Who goes on behind the latch takes the first item, if there is one.
LEMMA ReceiveElementKeeps ==
  ASSUME MemoryInv, NEW c \in Takers, ReceiveElement(c), taker[c] \in {"idle", "waiting"},
         items # <<>> \/ ~OneTaker,
         \A n \in DOMAIN waiters : waiters[n] # c, UNCHANGED <<ids, settled, waiters>>,
         \/ UNCHANGED resumed /\ resumed = <<>> /\ open
         \/ resumed # <<>> /\ c = Head(resumed) /\ resumed' = Tail(resumed)
  PROVE  MemoryInv'
<1>1. resumed # <<>> =>
        /\ Tail(resumed) \in Seq(Takers) /\ Len(Tail(resumed)) = Len(resumed) - 1 /\ Once(Tail(resumed))
        /\ \A n \in DOMAIN Tail(resumed) : Tail(resumed)[n] # Head(resumed)
                                          /\ \E m \in DOMAIN resumed : Tail(resumed)[n] = resumed[m]
  BY OnceTail DEF MemoryInv, MemoryTypeOK, Lined
<1>2. /\ resumed' \in Seq(Takers) /\ Once(resumed')
      /\ \A n \in DOMAIN resumed' : resumed'[n] # c /\ taker[resumed'[n]] = "waiting"
      /\ resumed # <<>> => waiters = <<>>
      /\ OneTaker => resumed' = <<>>
  <2>1. CASE resumed # <<>>
    <3>1. c = Head(resumed) /\ resumed' = Tail(resumed)
      BY <2>1
    <3>2. resumed' \in Seq(Takers) /\ Once(resumed') /\ Len(resumed') = Len(resumed) - 1
      BY <1>1, <2>1, <3>1
    <3>3. \A n \in DOMAIN resumed' : resumed'[n] # c /\ taker[resumed'[n]] = "waiting"
      BY <1>1, <2>1, <3>1 DEF MemoryInv, Lined
    <3>4. QED BY <2>1, <3>2, <3>3 DEF MemoryInv, MemoryTypeOK, Latched
  <2>2. CASE resumed = <<>>
    BY <2>2 DEF MemoryInv, MemoryTypeOK, Lined
  <2>3. QED BY <2>1, <2>2
<1>3. CASE items = <<>>
  <2>1. taker' = [taker EXCEPT ![c] = "defect"] /\ UNCHANGED <<items, open, has>>
    BY <1>3 DEF ReceiveElement
  <2>2. MemoryTypeOK' /\ Latched'
    BY <1>2, <1>3, <2>1 DEF MemoryInv, MemoryTypeOK, Latched
  <2>3. Lined'
    BY <1>2, <2>1 DEF MemoryInv, MemoryTypeOK, Lined
  <2>4. Apart'
    BY <2>1 DEF MemoryInv, MemoryTypeOK, Apart, Runs
  <2>5. QED BY <1>3, <2>2, <2>3, <2>4 DEF MemoryInv
<1>4. CASE items # <<>>
  <2>1. PICK to \in {"idle", "running"} :
           /\ taker' = [taker EXCEPT ![c] = to]
           /\ to = "idle" => UNCHANGED has
           /\ to = "running" => has' = [has EXCEPT ![c] = Head(items)]
           /\ items' = Tail(items) /\ open' = (open /\ Len(items) > 1)
    BY <1>4 DEF ReceiveElement
  <2>0. items \in Seq(Elements) /\ Once(items)
    BY DEF MemoryInv, MemoryTypeOK, Apart
  <2>2. /\ items' \in Seq(Elements) /\ Len(items') = Len(items) - 1 /\ Once(items')
        /\ Head(items) \in Elements /\ Head(items) = items[1] /\ 1 \in DOMAIN items
        /\ \A n \in DOMAIN items' : items'[n] # Head(items) /\ \E m \in DOMAIN items : items'[n] = items[m]
    BY <1>4, <2>0, <2>1, OnceTail
  <2>3. MemoryTypeOK'
    BY <1>2, <2>1, <2>2 DEF MemoryInv, MemoryTypeOK
  <2>4. Latched'
    <3>1. open /\ waiters = <<>>
      BY <1>2, <1>4 DEF MemoryInv, Latched
    <3>2. open' <=> items' # <<>>
      <4>1. Len(items) \in Nat /\ Len(items') = Len(items) - 1 /\ Len(items') \in Nat
        BY <2>0, <2>2
      <4>2. items' # <<>> <=> Len(items') > 0
        BY <2>2
      <4>3. open' <=> Len(items) > 1
        BY <2>1, <3>1
      <4>4. QED BY <4>1, <4>2, <4>3
    <3>3. QED BY <1>2, <3>1, <3>2 DEF Latched
  <2>5. Lined'
    BY <1>2, <2>1 DEF MemoryInv, MemoryTypeOK, Lined
  <2>6. Apart'
    <3>1. items[1] \in ids \ settled /\ \A d \in Takers : Runs(d) => has[d] # items[1] /\ d # c
      BY <2>2 DEF MemoryInv, Apart, Runs
    <3>2. QED BY <2>1, <2>2, <3>1 DEF MemoryInv, MemoryTypeOK, Apart, Runs
  <2>7. (OneTaker => NoDefect)'
    BY <2>1 DEF MemoryInv, MemoryTypeOK, NoDefect
  <2>8. QED BY <2>3, <2>4, <2>5, <2>6, <2>7 DEF MemoryInv
<1>5. QED BY <1>3, <1>4

LEMMA TakeElementKeeps ==
  ASSUME MemoryInv, NEW c \in Takers, TakeElement(c) PROVE MemoryInv'
<1>1. resumed = <<>> /\ taker[c] = "idle" /\ UNCHANGED <<ids, resumed, settled>>
  BY DEF TakeElement, Quiet
<1>2. \A n \in DOMAIN waiters : waiters[n] # c
  BY <1>1 DEF MemoryInv, Lined
<1>3. CASE open
  <2>1. ReceiveElement(c) /\ UNCHANGED waiters /\ items # <<>>
    BY <1>3 DEF TakeElement, MemoryInv, Latched
  <2>2. QED BY <1>1, <1>2, <1>3, <2>1, ReceiveElementKeeps
<1>4. CASE ~open
  <2>1. /\ taker' = [taker EXCEPT ![c] = "waiting"] /\ waiters' = Append(waiters, c)
        /\ UNCHANGED <<items, open, has>> /\ (OneTaker => waiters = <<>>)
    BY <1>4 DEF TakeElement
  <2>0. waiters \in Seq(Takers) /\ Once(waiters)
    BY DEF MemoryInv, MemoryTypeOK, Lined
  <2>2. /\ waiters' \in Seq(Takers) /\ Len(waiters') = Len(waiters) + 1 /\ Once(waiters')
        /\ \A n \in DOMAIN waiters' : waiters'[n] = c \/ \E m \in DOMAIN waiters : waiters'[n] = waiters[m]
    BY <1>2, <2>0, <2>1, OnceAppend
  <2>3. MemoryTypeOK'
    BY <1>1, <2>1, <2>2 DEF MemoryInv, MemoryTypeOK
  <2>4. Latched'
    BY <1>1, <1>4, <2>1, <2>2 DEF MemoryInv, MemoryTypeOK, Latched
  <2>5. Lined'
    BY <1>1, <2>1, <2>2 DEF MemoryInv, MemoryTypeOK, Lined
  <2>6. Apart'
    BY <1>1, <2>1 DEF MemoryInv, MemoryTypeOK, Apart, Runs
  <2>7. QED BY <2>1, <2>3, <2>4, <2>5, <2>6 DEF MemoryInv, MemoryTypeOK, NoDefect
<1>5. QED BY <1>3, <1>4

LEMMA ResumeKeeps == ASSUME MemoryInv, Resume PROVE MemoryInv'
<1>1. /\ resumed # <<>> /\ ReceiveElement(Head(resumed)) /\ resumed' = Tail(resumed)
      /\ UNCHANGED <<ids, waiters, settled>>
  BY DEF Resume, Quiet
<1>2. Head(resumed) \in Takers /\ taker[Head(resumed)] = "waiting"
  BY <1>1, OnceTail DEF MemoryInv, MemoryTypeOK, Lined
<1>3. waiters = <<>> /\ (items # <<>> \/ ~OneTaker)
  BY <1>1 DEF MemoryInv, Latched
<1>4. QED BY <1>1, <1>2, <1>3, ReceiveElementKeeps

\* A handler that ends gives its item up.
LEMMA StoppedKeeps ==
  ASSUME MemoryInv, NEW c \in Takers, Stopped(c), UNCHANGED ids,
         \/ settled' = settled \cup {has[c]} /\ UNCHANGED <<items, open, waiters, resumed>>
         \/ items' = Append(items, has[c]) /\ OpenLatch /\ UNCHANGED settled
  PROVE  MemoryInv'
<1>1. /\ resumed = <<>> /\ taker[c] = "running" /\ taker' = [taker EXCEPT ![c] = "idle"]
      /\ has' = [has EXCEPT ![c] = NoElement]
  BY DEF Stopped, Quiet
<1>2. /\ has[c] \in ids \ settled /\ has[c] \in Elements
      /\ \A n \in DOMAIN items : items[n] # has[c]
      /\ \A d \in Takers : Runs(d) /\ d # c => has[d] # has[c]
  BY <1>1 DEF MemoryInv, MemoryTypeOK, Apart, Runs
<1>3. /\ \A n \in DOMAIN waiters : waiters[n] # c
      /\ \A d \in Takers : d # c => taker'[d] = taker[d] /\ has'[d] = has[d]
      /\ taker'[c] = "idle"
  BY <1>1 DEF MemoryInv, MemoryTypeOK, Lined
<1>4. (OneTaker => NoDefect)'
  BY <1>1 DEF MemoryInv, MemoryTypeOK, NoDefect
<1>5. CASE settled' = settled \cup {has[c]} /\ UNCHANGED <<items, open, waiters, resumed>>
  <2>1. MemoryTypeOK' /\ Latched'
    BY <1>1, <1>2, <1>5 DEF MemoryInv, MemoryTypeOK, Latched
  <2>2. Lined'
    BY <1>1, <1>3, <1>5 DEF MemoryInv, MemoryTypeOK, Lined
  <2>3. Apart'
    BY <1>2, <1>3, <1>5 DEF MemoryInv, MemoryTypeOK, Apart, Runs
  <2>4. QED BY <1>4, <2>1, <2>2, <2>3 DEF MemoryInv
<1>6. CASE items' = Append(items, has[c]) /\ OpenLatch /\ UNCHANGED settled
  <2>0. items \in Seq(Elements) /\ Once(items)
    BY DEF MemoryInv, MemoryTypeOK, Apart
  <2>1. /\ items' \in Seq(Elements) /\ items' # <<>> /\ Once(items')
        /\ \A n \in DOMAIN items' : items'[n] = has[c] \/ \E m \in DOMAIN items : items'[n] = items[m]
    BY <1>2, <1>6, <2>0, OnceAppend
  <2>2. /\ open' = TRUE /\ resumed' = (IF open THEN <<>> ELSE waiters)
        /\ waiters' = (IF open THEN waiters ELSE <<>>)
    BY <1>6 DEF OpenLatch
  <2>3. MemoryTypeOK' /\ Latched'
    BY <1>1, <1>2, <1>6, <2>1, <2>2 DEF MemoryInv, MemoryTypeOK, Latched
  <2>4. Lined'
    BY <1>1, <1>3, <2>2 DEF MemoryInv, MemoryTypeOK, Lined, Once
  <2>5. Apart'
    <3>1. \A n \in DOMAIN items' : items'[n] \in ids \ settled
      BY <1>2, <2>1 DEF MemoryInv, Apart
    <3>2. ASSUME NEW d \in Takers, Runs(d)' PROVE d # c /\ Runs(d) /\ has'[d] = has[d]
      BY <1>3, <3>2 DEF Runs
    <3>3. ASSUME NEW d \in Takers, Runs(d)', NEW n \in DOMAIN items' PROVE items'[n] # has'[d]
      BY <1>2, <2>1, <3>2, <3>3 DEF MemoryInv, Apart
    <3>4. QED BY <1>6, <2>1, <3>1, <3>2, <3>3 DEF MemoryInv, Apart
  <2>6. QED BY <1>4, <2>3, <2>4, <2>5 DEF MemoryInv
<1>7. QED BY <1>5, <1>6

LEMMA PutBackKeeps == ASSUME MemoryInv, NEW c \in Takers, NEW n, PutBack(c, n) PROVE MemoryInv'
BY StoppedKeeps DEF PutBack

LEMMA StopWaitingKeeps == ASSUME MemoryInv, NEW c \in Takers, StopWaiting(c) PROVE MemoryInv'
<1>1. PICK n \in DOMAIN waiters : waiters[n] = c /\ waiters' = RemoveAt(waiters, n)
  BY DEF StopWaiting
<1>2. /\ resumed = <<>> /\ taker[c] = "waiting" /\ taker' = [taker EXCEPT ![c] = "idle"]
      /\ UNCHANGED <<ids, items, open, resumed, has, settled>>
  BY DEF StopWaiting, Quiet
<1>3. n \in 1 .. Len(waiters) /\ waiters \in Seq(Takers) /\ Once(waiters)
  BY <1>1 DEF MemoryInv, MemoryTypeOK, Lined
<1>4. /\ waiters' \in Seq(Takers) /\ Len(waiters') = Len(waiters) - 1 /\ Once(waiters')
      /\ \A k \in DOMAIN waiters' : waiters'[k] # c /\ \E m \in DOMAIN waiters : waiters'[k] = waiters[m]
  BY <1>1, <1>3, OnceRemoveAt
<1>5. MemoryTypeOK'
  BY <1>2, <1>4 DEF MemoryInv, MemoryTypeOK
<1>6. Latched'
  BY <1>2, <1>3, <1>4 DEF MemoryInv, MemoryTypeOK, Latched
<1>7. Lined'
  BY <1>2, <1>4 DEF MemoryInv, MemoryTypeOK, Lined
<1>8. Apart'
  BY <1>2 DEF MemoryInv, MemoryTypeOK, Apart, Runs
<1>9. QED BY <1>2, <1>5, <1>6, <1>7, <1>8 DEF MemoryInv, MemoryTypeOK, NoDefect

LEMMA MemoryNextInv ==
  ASSUME MemoryInv, [MemoryNext]_memoryVars PROVE MemoryInv'
<1>1. ASSUME NEW i \in Elements, OfferElement(i) PROVE MemoryInv'
  BY <1>1, OfferElementKeeps
<1>2. ASSUME NEW c \in Takers, TakeElement(c) PROVE MemoryInv'
  BY <1>2, TakeElementKeeps
<1>3. ASSUME NEW c \in Takers, SucceedTake(c) PROVE MemoryInv'
  BY <1>3, StoppedKeeps DEF SucceedTake
<1>4. ASSUME NEW c \in Takers, FailTake(c) PROVE MemoryInv'
  BY <1>4, PutBackKeeps DEF FailTake
<1>5. ASSUME NEW c \in Takers, InterruptHandler(c) PROVE MemoryInv'
  BY <1>5, PutBackKeeps DEF InterruptHandler
<1>6. ASSUME NEW c \in Takers, StopWaiting(c) PROVE MemoryInv'
  BY <1>6, StopWaitingKeeps
<1>7. CASE Resume
  BY <1>7, ResumeKeeps
<1>8. CASE UNCHANGED memoryVars
  BY <1>8 DEF memoryVars, MemoryInv, MemoryTypeOK, Latched, Lined, Apart, Once, Runs, NoDefect
<1>9. QED BY <1>1, <1>2, <1>3, <1>4, <1>5, <1>6, <1>7, <1>8 DEF MemoryNext

\* Nobody waits at the latch while there are items, and a take that waits alone finds
\* one when it goes on (PersistedQueue.ts:321-353).
THEOREM MemoryStrandsNobody == ASSUME MemoryQueueAssumption PROVE MemorySpec => []MemoryQueueSafe
<1>1. MemoryInit => MemoryInv
  BY MemoryInitInv
<1>2. MemoryInv /\ [MemoryNext]_memoryVars => MemoryInv'
  BY MemoryNextInv
<1>3. MemoryInv => MemoryQueueSafe
  BY DEF MemoryInv, Latched, MemoryQueueSafe, NoStrandedTaker
<1>4. QED BY <1>1, <1>2, <1>3, PTL DEF MemorySpec

TakersOf == [i \in Elements |-> {c \in Takers : Runs(c) /\ has[c] = i}]
MemoryRefines == [MemoryPromise!Next]_(<<ids, settled, TakersOf>>)

LEMMA MemoryStepRefines ==
  ASSUME MemoryInv, [MemoryNext]_memoryVars PROVE MemoryRefines
\* Steps that change nobody's item.
<1>1. ASSUME UNCHANGED <<ids, settled>>, \A c \in Takers : Runs(c)' = Runs(c) /\ (Runs(c) => has'[c] = has[c])
      PROVE  MemoryRefines
  <2>1. \A i \in Elements : {c \in Takers : Runs(c)' /\ has'[c] = i} = {c \in Takers : Runs(c) /\ has[c] = i}
    BY <1>1
  <2>2. UNCHANGED TakersOf
    BY <2>1 DEF TakersOf
  <2>3. QED BY <1>1, <2>2 DEF MemoryRefines
\* A taker begins with an item.
<1>2. ASSUME NEW c \in Takers, ReceiveElement(c), ~Runs(c), UNCHANGED <<ids, settled>>
      PROVE  MemoryRefines
  <2>1. CASE items = <<>>
    <3>1. taker' = [taker EXCEPT ![c] = "defect"] /\ UNCHANGED has
      BY <1>2, <2>1 DEF ReceiveElement
    <3>2. QED BY <1>1, <1>2, <3>1 DEF MemoryInv, MemoryTypeOK, Runs
  <2>4. CASE items # <<>> /\ Head(items) \in Undecodable
    <3>1. taker' = [taker EXCEPT ![c] = "idle"] /\ UNCHANGED has
      BY <1>2, <2>4 DEF ReceiveElement
    <3>2. QED BY <1>1, <1>2, <3>1 DEF MemoryInv, MemoryTypeOK, Runs
  <2>2. CASE items # <<>> /\ Head(items) \notin Undecodable
    <3>1. /\ taker' = [taker EXCEPT ![c] = "running"] /\ has' = [has EXCEPT ![c] = Head(items)]
          /\ Head(items) = items[1] /\ 1 \in DOMAIN items /\ Head(items) \in Elements
      BY <1>2, <2>2, HeadTailProperties DEF ReceiveElement, MemoryInv, MemoryTypeOK
    <3>0. PICK i \in Elements : i = Head(items)
      BY <3>1
    <3>2. i \in ids \ settled /\ \A d \in Takers : Runs(d) => has[d] # i
      BY <3>0, <3>1 DEF MemoryInv, Apart
    <3>3. \A d \in Takers : Runs(d)' <=> d = c \/ Runs(d)
      BY <1>2, <3>1 DEF MemoryInv, MemoryTypeOK, Runs
    <3>4. has'[c] = i /\ \A d \in Takers : d # c => has'[d] = has[d]
      BY <3>0, <3>1 DEF MemoryInv, MemoryTypeOK
    <3>5. TakersOf[i] = {} /\ TakersOf' = [TakersOf EXCEPT ![i] = {c}]
      <4>1. ASSUME NEW j \in Elements
            PROVE  TakersOf'[j] = IF j = i THEN {c} ELSE TakersOf[j]
        BY <1>2, <3>2, <3>3, <3>4 DEF TakersOf
      <4>2. TakersOf[i] = {}
        BY <3>2 DEF TakersOf
      <4>3. DOMAIN TakersOf = Elements /\ TakersOf' = [j \in Elements |-> TakersOf'[j]]
        BY DEF TakersOf
      <4>4. QED BY <4>1, <4>2, <4>3, EqualFunctions
    <3>6. MemoryPromise!Start(i)
      BY <1>2, <3>2, <3>5 DEF MemoryPromise!Start, TakersOf, Runs
    <3>7. QED BY <3>6 DEF MemoryPromise!Next, MemoryRefines
  <2>3. QED BY <2>1, <2>2, <2>4
\* A taker gives its item up.
<1>3. ASSUME NEW c \in Takers, Stopped(c), UNCHANGED ids, settled' \in {settled, settled \cup {has[c]}}
      PROVE  MemoryRefines
  <2>1. /\ Runs(c) /\ taker' = [taker EXCEPT ![c] = "idle"] /\ has' = [has EXCEPT ![c] = NoElement]
    BY <1>3 DEF Stopped, Runs
  <2>0. PICK i \in Elements : i = has[c]
    BY <2>1 DEF MemoryInv, MemoryTypeOK, Apart
  <2>2. \A d \in Takers : Runs(d) /\ has[d] = i => d = c
    BY <2>0, <2>1 DEF MemoryInv, MemoryTypeOK, Apart
  <2>3. \A d \in Takers : /\ Runs(d)' <=> d # c /\ Runs(d)
                          /\ d # c => has'[d] = has[d]
    BY <2>1 DEF MemoryInv, MemoryTypeOK, Runs
  <2>4. TakersOf[i] # {} /\ TakersOf' = [TakersOf EXCEPT ![i] = {}]
    <3>1. ASSUME NEW j \in Elements
          PROVE  TakersOf'[j] = IF j = i THEN {} ELSE TakersOf[j]
      BY <2>0, <2>1, <2>2, <2>3 DEF TakersOf
    <3>2. c \in TakersOf[i]
      BY <2>0, <2>1 DEF TakersOf
    <3>3. DOMAIN TakersOf = Elements /\ TakersOf' = [j \in Elements |-> TakersOf'[j]]
      BY DEF TakersOf
    <3>4. QED BY <3>1, <3>2, <3>3, EqualFunctions
  <2>5. MemoryPromise!Stop(i)
    BY <1>3, <2>0, <2>4 DEF MemoryPromise!Stop, TakersOf, Runs
  <2>6. QED BY <2>5 DEF MemoryPromise!Next, MemoryRefines
<1>4. ASSUME NEW i \in Elements, OfferElement(i) PROVE MemoryRefines
  <2>1. MemoryPromise!Offer(i)
    BY <1>4 DEF MemoryPromise!Offer, OfferElement, Known
  <2>2. QED BY <2>1 DEF MemoryPromise!Next, MemoryRefines
<1>5. ASSUME NEW c \in Takers, TakeElement(c) PROVE MemoryRefines
  <2>1. taker[c] = "idle" /\ UNCHANGED <<ids, settled>>
    BY <1>5 DEF TakeElement
  <2>2. CASE open
    BY <1>2, <1>5, <2>1, <2>2 DEF TakeElement, Runs
  <2>3. CASE ~open
    BY <1>1, <1>5, <2>1, <2>3 DEF TakeElement, MemoryInv, MemoryTypeOK, Runs
  <2>4. QED BY <2>2, <2>3
<1>6. ASSUME NEW c \in Takers, SucceedTake(c) PROVE MemoryRefines
  BY <1>3, <1>6 DEF SucceedTake
<1>7. ASSUME NEW c \in Takers, FailTake(c) \/ InterruptHandler(c) PROVE MemoryRefines
  <2>1. PICK n : PutBack(c, n)
    BY <1>7 DEF FailTake, InterruptHandler
  <2>2. QED BY <1>3, <2>1 DEF PutBack
<1>8. ASSUME NEW c \in Takers, StopWaiting(c) PROVE MemoryRefines
  BY <1>1, <1>8 DEF StopWaiting, MemoryInv, MemoryTypeOK, Runs
<1>9. CASE Resume
  <2>1. /\ resumed # <<>> /\ ReceiveElement(Head(resumed)) /\ UNCHANGED <<ids, settled>>
    BY <1>9 DEF Resume, Quiet
  <2>2. Head(resumed) \in Takers /\ ~Runs(Head(resumed))
    BY <2>1, OnceTail DEF MemoryInv, MemoryTypeOK, Lined, Runs
  <2>3. QED BY <1>2, <2>1, <2>2
<1>10. CASE UNCHANGED memoryVars
  BY <1>1, <1>10 DEF memoryVars, Runs
<1>11. QED BY <1>4, <1>5, <1>6, <1>7, <1>8, <1>9, <1>10 DEF MemoryNext

\* Over the in-memory store an item is with one consumer at a time and never again
\* after it is settled, whoever is interrupted and whatever items cannot be decoded
\* (PersistedQueue.ts:172-186, 321-353).
THEOREM MemoryIsAWorkQueue == ASSUME MemoryQueueAssumption PROVE MemorySpec => MemoryImplementsWorkQueue
<1>1. MemoryInit => MemoryInv
  BY MemoryInitInv
<1>2. MemoryInv /\ [MemoryNext]_memoryVars => MemoryInv'
  BY MemoryNextInv
<1>3. MemoryInit => MemoryPromise!Init
  BY DEF MemoryInit, MemoryPromise!Init
<1>4. MemoryInv /\ [MemoryNext]_memoryVars => [MemoryPromise!Next]_(MemoryPromise!vars)
  BY MemoryStepRefines DEF MemoryRefines, MemoryPromise!vars, TakersOf, Runs
<1>5. QED BY <1>1, <1>2, <1>3, <1>4, PTL DEF MemorySpec, MemoryImplementsWorkQueue, MemoryPromise!Spec

(*****************************************************************************)
(* The queue over the SQL store.                                             *)
(*****************************************************************************)
Ticket == [id : Items \cup {None}, attempts : Nat]
Row == [completed : BOOLEAN, attempts : Nat, by : Workers \cup {Nobody}, age : Nat]
Poll == [at : {"ready", "asked", "answered", "offered"}, size : Int, items : Seq(Ticket)]

TicketsOK ==
  /\ mailbox \in [Workers -> Seq(Ticket)] /\ poll \in [Workers -> Poll]
  /\ takers \in [Workers -> Int]
  /\ \A w \in Workers : poll[w].at # "answered" => poll[w].items = <<>>
ConsumersOK ==
  /\ pc \in [Consumers -> {"idle", "waiting", "taken", "running"}]
  /\ held \in [Consumers -> Ticket]
TableOK ==
  /\ rows \in [Items -> Row] /\ order \in Seq(Items)
  /\ \A m, n \in DOMAIN order : order[m] = order[n] => m = n


\* Whether an item is among some tickets, and each item is there once.
Among(s, i) == \E n \in DOMAIN s : s[n].id = i
OnceIn(s) == \A m, n \in DOMAIN s : s[m].id = s[n].id => m = n

Holds(c) == pc[c] \in {"taken", "running"}

\* An item stands in one place of a worker.
Disjoint(w) ==
  /\ OnceIn(mailbox[w]) /\ OnceIn(poll[w].items)
  /\ \A i \in Items : ~(Among(mailbox[w], i) /\ Among(poll[w].items, i))
  /\ \A c \in Crew(w) : Holds(c) =>
       /\ ~Among(mailbox[w], held[c].id) /\ ~Among(poll[w].items, held[c].id)
       /\ \A d \in Crew(w) : Holds(d) /\ held[d].id = held[c].id => d = c

\* What a worker does with an item, it has locked, not too long ago, for a reason.
Mine(w, i) ==
  i \in Offered /\ rows[i].by = w /\ rows[i].age < Expiration /\ ~Settled(i)
Claimed == \A w \in Workers : \A i \in Items \cup {None} : Using(w, i) => i \in Items /\ Mine(w, i)

StoreInv == TableOK /\ TicketsOK /\ ConsumersOK /\ Claimed /\ \A w \in Workers : Disjoint(w)

LEMMA UsingIs ==
  ASSUME NEW w \in Workers, NEW i
  PROVE  /\ Using(w, i) <=> \/ Among(mailbox[w], i) \/ Among(poll[w].items, i)
                            \/ \E c \in Crew(w) : Holds(c) /\ held[c].id = i
         /\ Using(w, i)' <=> \/ Among(mailbox'[w], i) \/ Among(poll'[w].items, i)
                             \/ \E c \in Crew(w) : Holds(c)' /\ held'[c].id = i
BY DEF Using, InMailbox, Among, Holds, Crew

\* Nothing moves to a place of the worker v.
LEMMA FewerPlaces ==
  ASSUME NEW v \in Workers, Disjoint(v),
         mailbox'[v] \in {mailbox[v], <<>>}, poll'[v].items \in {poll[v].items, <<>>},
         \A c \in Crew(v) : Holds(c)' => Holds(c) /\ held'[c] = held[c]
  PROVE  Disjoint(v)' /\ \A i : Using(v, i)' => Using(v, i)
<1>1. \A i : /\ Among(mailbox'[v], i) => Among(mailbox[v], i)
             /\ Among(poll'[v].items, i) => Among(poll[v].items, i)
  BY DEF Among
<1>2. OnceIn(mailbox'[v]) /\ OnceIn(poll'[v].items)
  BY DEF Disjoint, OnceIn
<1>3. Disjoint(v)'
  BY <1>1, <1>2 DEF Disjoint, Crew
<1>4. QED BY <1>1, <1>3 DEF Using, InMailbox, Among, Holds, Crew

\* What is in use is still locked by who uses it.
LEMMA StillClaimed ==
  ASSUME Claimed, \A v \in Workers : \A i : Using(v, i)' => Using(v, i),
         \A v \in Workers : \A i \in Items : Mine(v, i) /\ Using(v, i)' => Mine(v, i)'
  PROVE  Claimed'
BY DEF Claimed

LEMMA KeptRows == ASSUME UNCHANGED rows, Offered \subseteq Offered',
                         NEW v \in Workers, NEW i \in Items, Mine(v, i) PROVE Mine(v, i)'
BY DEF Mine, Settled

\* A step that moves nothing and leaves the table alone.
LEMMA QuietStep ==
  ASSUME PersistedQueueAssumption, StoreInv, (TableOK /\ TicketsOK /\ ConsumersOK)',
         UNCHANGED rows, Offered \subseteq Offered',
         \A v \in Workers : /\ mailbox'[v] \in {mailbox[v], <<>>}
                            /\ poll'[v].items \in {poll[v].items, <<>>},
         \A c \in Consumers : Holds(c)' => Holds(c) /\ held'[c] = held[c]
  PROVE  StoreInv'
<1>1. \A v \in Workers : Disjoint(v)' /\ \A i : Using(v, i)' => Using(v, i)
  BY FewerPlaces DEF StoreInv, Crew
<1>2. Claimed'
  BY <1>1, StillClaimed, KeptRows DEF StoreInv
<1>3. QED BY <1>1, <1>2 DEF StoreInv

LEMMA StoreInitInv == ASSUME PersistedQueueAssumption, StoreInit PROVE StoreInv
<1>1. TableOK
  <2>1. order \in Seq(Items) /\ DOMAIN order = {}
    BY DEF StoreInit
  <2>2. QED BY <2>1 DEF StoreInit, TableOK, Row
<1>2. TicketsOK
  BY DEF StoreInit, TicketsOK, Poll, Ready
<1>3. ConsumersOK
  BY DEF StoreInit, ConsumersOK, Ticket
<1>4. ASSUME NEW w \in Workers, NEW i PROVE ~Using(w, i)
  <2>1. mailbox[w] = <<>> /\ poll[w].items = <<>> /\ \A c \in Crew(w) : pc[c] = "idle"
    BY DEF StoreInit, Ready, Crew
  <2>2. QED BY <2>1 DEF Using, InMailbox
<1>5. \A w \in Workers : Disjoint(w)
  BY DEF StoreInit, Disjoint, OnceIn, Among, Holds, Ready, Crew
<1>6. QED BY <1>1, <1>2, <1>3, <1>4, <1>5 DEF StoreInv, Claimed

LEMMA OfferKeeps ==
  ASSUME PersistedQueueAssumption, StoreInv, NEW i \in Items, Offer(i) PROVE StoreInv'
<1>1. order' = Append(order, i) /\ UNCHANGED <<rows, mailbox, takers, poll, pc, held>>
  BY DEF Offer, local, fibers
<1>2. order \in Seq(Items)
  BY DEF StoreInv, TableOK
<1>3. order' \in Seq(Items) /\ Len(order') = Len(order) + 1 /\ \A n \in 1 .. Len(order) : order'[n] = order[n]
  BY <1>1, <1>2, AppendProperties
<1>4. Offered \subseteq Offered'
  BY <1>2, <1>3 DEF Offered
<1>5. TableOK'
  <2>1. order'[Len(order) + 1] = i /\ \A n \in DOMAIN order : order[n] # i
    BY <1>1, <1>2, AppendProperties DEF Offer, Offered
  <2>2. QED BY <1>1, <1>2, <1>3, <2>1 DEF StoreInv, TableOK
<1>6. (TicketsOK /\ ConsumersOK)'
  BY <1>1 DEF StoreInv, TicketsOK, ConsumersOK
<1>7. QED BY <1>1, <1>4, <1>5, <1>6, QuietStep DEF Holds

LEMMA TakeKeeps ==
  ASSUME PersistedQueueAssumption, StoreInv, NEW c \in Consumers, Take(c) PROVE StoreInv'
<1>1. /\ pc' = [pc EXCEPT ![c] = "waiting"] /\ takers' = [takers EXCEPT ![Home[c]] = @ + 1]
      /\ UNCHANGED <<rows, order, mailbox, poll, held>>
  BY DEF Take, tableVars
<1>2. Home[c] \in Workers
  BY DEF PersistedQueueAssumption
<1>3. (TableOK /\ TicketsOK /\ ConsumersOK)'
  BY <1>1, <1>2 DEF StoreInv, TableOK, TicketsOK, ConsumersOK
<1>4. \A d \in Consumers : Holds(d)' => Holds(d)
  BY <1>1 DEF StoreInv, ConsumersOK, Holds
<1>5. QED BY <1>1, <1>3, <1>4, QuietStep DEF Offered

LEMMA PollAskedKeeps ==
  ASSUME PersistedQueueAssumption, StoreInv, NEW w \in Workers, PollAsked(w) PROVE StoreInv'
<1>1. /\ poll' = [poll EXCEPT ![w] = [at |-> "asked", size |-> takers[w], items |-> <<>>]]
      /\ UNCHANGED <<rows, order, mailbox, takers, pc, held>>
  BY DEF PollAsked, tableVars, fibers
<1>2. [at |-> "asked", size |-> takers[w], items |-> <<>>] \in Poll
  BY DEF StoreInv, TicketsOK, Poll
<1>3. (TableOK /\ TicketsOK /\ ConsumersOK)'
  BY <1>1, <1>2 DEF StoreInv, TableOK, TicketsOK, ConsumersOK
<1>4. \A v \in Workers : poll'[v].items \in {poll[v].items, <<>>}
  BY <1>1 DEF StoreInv, TicketsOK
<1>5. QED BY <1>1, <1>3, <1>4, QuietStep DEF Offered, Holds

LEMMA PollGoesOnKeeps ==
  ASSUME PersistedQueueAssumption, StoreInv, NEW w \in Workers, PollGoesOn(w) PROVE StoreInv'
<1>1. /\ poll' = [poll EXCEPT ![w] = Ready]
      /\ UNCHANGED <<rows, order, mailbox, takers, pc, held>>
  BY DEF PollGoesOn, tableVars, fibers
<1>2. Ready \in Poll /\ Ready.items = <<>>
  BY DEF Poll, Ready
<1>3. (TableOK /\ TicketsOK /\ ConsumersOK)'
  BY <1>1, <1>2 DEF StoreInv, TableOK, TicketsOK, ConsumersOK
<1>4. \A v \in Workers : poll'[v].items \in {poll[v].items, <<>>}
  BY <1>1, <1>2 DEF StoreInv, TicketsOK
<1>5. QED BY <1>1, <1>3, <1>4, QuietStep DEF Offered, Holds

LEMMA StartedKeeps ==
  ASSUME PersistedQueueAssumption, StoreInv, NEW c \in Consumers, Started(c) PROVE StoreInv'
<1>1. /\ pc[c] = "taken" /\ takers' = [takers EXCEPT ![Home[c]] = takers[Home[c]] - 1]
      /\ pc' = [pc EXCEPT ![c] = IF held[c].id \in Bad THEN "idle" ELSE "running"]
      /\ UNCHANGED <<rows, order, mailbox, poll, held>>
  BY DEF Started, tableVars
<1>2. Home[c] \in Workers
  BY DEF PersistedQueueAssumption
<1>3. (TableOK /\ TicketsOK /\ ConsumersOK)'
  BY <1>1, <1>2 DEF StoreInv, TableOK, TicketsOK, ConsumersOK
<1>4. \A d \in Consumers : Holds(d)' => Holds(d)
  BY <1>1 DEF StoreInv, ConsumersOK, Holds
<1>5. QED BY <1>1, <1>3, <1>4, QuietStep DEF Offered

LEMMA InterruptTakeKeeps ==
  ASSUME PersistedQueueAssumption, StoreInv, NEW c \in Consumers, InterruptTake(c) PROVE StoreInv'
<1>1. /\ pc' = [pc EXCEPT ![c] = "idle"] /\ UNCHANGED <<rows, order, mailbox, takers, poll, held>>
  BY DEF InterruptTake, tableVars, local
<1>2. (TableOK /\ TicketsOK /\ ConsumersOK)'
  BY <1>1 DEF StoreInv, TableOK, TicketsOK, ConsumersOK
<1>3. \A d \in Consumers : Holds(d)' => Holds(d)
  BY <1>1 DEF StoreInv, ConsumersOK, Holds
<1>4. QED BY <1>1, <1>2, <1>3, QuietStep DEF Offered

\* A worker whose mailbox is given up has nothing left but what is worked on.
LEMMA ResetFacts ==
  ASSUME PersistedQueueAssumption, StoreInv, NEW w \in Workers, Reset(w)
  PROVE  /\ TicketsOK'
         /\ \A v \in Workers : /\ mailbox'[v] = IF v = w THEN <<>> ELSE mailbox[v]
                               /\ poll'[v].items = IF v = w THEN <<>> ELSE poll[v].items
<1>1. Ready \in Poll /\ Ready.items = <<>>
  BY DEF Poll, Ready
<1>2. /\ mailbox' = [mailbox EXCEPT ![w] = <<>>] /\ takers' = [takers EXCEPT ![w] = 0]
      /\ poll' = [poll EXCEPT ![w] = Ready]
  BY DEF Reset
<1>3. QED BY <1>1, <1>2 DEF StoreInv, TicketsOK

LEMMA CrashKeeps ==
  ASSUME PersistedQueueAssumption, StoreInv, NEW w \in Workers, Crash(w) PROVE StoreInv'
<1>1. /\ Reset(w) /\ UNCHANGED <<rows, order, held>>
      /\ pc' = [c \in Consumers |-> IF Home[c] = w THEN "idle" ELSE pc[c]]
  BY DEF Crash, tableVars
<1>2. (TableOK /\ TicketsOK /\ ConsumersOK)'
  BY <1>1, ResetFacts DEF StoreInv, TableOK, ConsumersOK
<1>3. \A d \in Consumers : Holds(d)' => Holds(d)
  BY <1>1 DEF StoreInv, ConsumersOK, Holds
<1>4. QED BY <1>1, <1>2, <1>3, ResetFacts, QuietStep DEF Offered

LEMMA IdleKeeps ==
  ASSUME PersistedQueueAssumption, StoreInv, NEW w \in Workers, Idle(w) PROVE StoreInv'
<1>1. /\ Reset(w) /\ UNCHANGED <<order, pc, held>>
      /\ rows' = [i \in Items |-> IF InMailbox(w, i) /\ rows[i].by = w THEN Freed(rows[i]) ELSE rows[i]]
  BY DEF Idle, fibers
<1>2. /\ TicketsOK'
      /\ \A v \in Workers : /\ mailbox'[v] = IF v = w THEN <<>> ELSE mailbox[v]
                            /\ poll'[v].items = IF v = w THEN <<>> ELSE poll[v].items
  BY <1>1, ResetFacts
<1>3. \A r \in Row : Freed(r) \in Row
  BY DEF Row, Freed
<1>4. (TableOK /\ ConsumersOK)'
  BY <1>1, <1>3 DEF StoreInv, TableOK, ConsumersOK
<1>5. \A v \in Workers : Disjoint(v)' /\ \A i : Using(v, i)' => Using(v, i)
  BY <1>1, <1>2, FewerPlaces DEF StoreInv, Holds
<1>6. ASSUME NEW v \in Workers, NEW i \in Items, Mine(v, i), Using(v, i)' PROVE Mine(v, i)'
  <2>1. ~(InMailbox(w, i) /\ rows[i].by = w)
    <3>1. SUFFICES ASSUME InMailbox(w, i), v = w PROVE FALSE
      BY <1>6 DEF Mine
    <3>2. \E c \in Crew(w) : Holds(c) /\ held[c].id = i
      BY <1>1, <1>2, <1>6, <3>1 DEF Using, InMailbox, Holds, Crew
    <3>3. QED BY <3>1, <3>2 DEF StoreInv, Disjoint, InMailbox, Among
  <2>2. QED BY <1>1, <1>6, <2>1 DEF Mine, Settled, Offered
<1>7. Claimed'
  BY <1>5, <1>6, StillClaimed DEF StoreInv
<1>8. QED BY <1>2, <1>4, <1>5, <1>7 DEF StoreInv

LEMMA LocksAgeKeeps ==
  ASSUME PersistedQueueAssumption, ~Long, StoreInv, LocksAge PROVE StoreInv'
<1>1. /\ rows' = [i \in Items |-> Older(rows[i])] /\ UNCHANGED <<order, mailbox, takers, poll, pc, held>>
      /\ \A i \in Items : rows[i].by # Nobody /\ Using(rows[i].by, i) => rows[i].age + 1 < Expiration
  BY DEF LocksAge, local, fibers
<1>2. \A r \in Row : /\ Older(r) \in Row /\ Older(r).by = r.by /\ Older(r).completed = r.completed
                     /\ Older(r).attempts = r.attempts /\ Older(r).age \in {r.age, r.age + 1}
  BY DEF Row, Older
<1>3. (TableOK /\ TicketsOK /\ ConsumersOK)'
  BY <1>1, <1>2 DEF StoreInv, TableOK, TicketsOK, ConsumersOK
<1>4. \A v \in Workers : Disjoint(v)' /\ \A i : Using(v, i)' => Using(v, i)
  BY <1>1, FewerPlaces DEF StoreInv, Holds
<1>5. ASSUME NEW v \in Workers, NEW i \in Items, Mine(v, i), Using(v, i)' PROVE Mine(v, i)'
  <2>1. Using(v, i) /\ rows[i] \in Row /\ v # Nobody
    BY <1>4, <1>5 DEF StoreInv, TableOK, PersistedQueueAssumption
  <2>2. rows[i].age + 1 < Expiration
    BY <1>1, <1>5, <2>1 DEF Mine
  <2>3. /\ rows'[i].by = rows[i].by /\ rows'[i].completed = rows[i].completed
        /\ rows'[i].attempts = rows[i].attempts /\ rows'[i].age \in {rows[i].age, rows[i].age + 1}
    BY <1>1, <1>2, <2>1
  <2>4. rows'[i].age < Expiration
    BY <1>5, <2>2, <2>3 DEF Mine
  <2>5. QED BY <1>1, <1>5, <2>3, <2>4 DEF Mine, Settled, Offered
<1>6. Claimed'
  BY <1>4, <1>5, StillClaimed DEF StoreInv
<1>7. QED BY <1>3, <1>4, <1>6 DEF StoreInv


\* What is to be had is in nobody's hands.
LEMMA AvailableIsUnused ==
  ASSUME PersistedQueueAssumption, StoreInv, NEW i \in Items, Available(i), NEW v \in Workers
  PROVE  ~Using(v, i)
BY DEF StoreInv, Claimed, Mine, Available, Locked, PersistedQueueAssumption

LEMMA PollRunsKeeps ==
  ASSUME PersistedQueueAssumption, StoreInv, NEW w \in Workers, PollRuns(w) PROVE StoreInv'
<1>1. PICK at \in Oldest(poll[w].size) :
        LET picked == [n \in DOMAIN at |-> order[at[n]]]
        IN /\ rows' = [i \in Items |-> IF i \in Range(picked) THEN [rows[i] EXCEPT !.by = w, !.age = 0] ELSE rows[i]]
           /\ poll' = [poll EXCEPT ![w].at = "answered",
                         ![w].items = [n \in DOMAIN picked |-> [id |-> picked[n], attempts |-> rows[picked[n]].attempts]]]
  BY DEF PollRuns
<1> DEFINE got == {order[at[n]] : n \in DOMAIN at}
           tickets == [n \in DOMAIN at |-> [id |-> order[at[n]], attempts |-> rows[order[at[n]]].attempts]]
<1>2. /\ rows' = [i \in Items |-> IF i \in got THEN [rows[i] EXCEPT !.by = w, !.age = 0] ELSE rows[i]]
      /\ poll' = [poll EXCEPT ![w].at = "answered", ![w].items = tickets]
  BY <1>1 DEF Range
<1>3. poll[w].at = "asked" /\ UNCHANGED <<order, mailbox, takers, pc, held>>
  BY DEF PollRuns, fibers
<1>4. PICK k \in Nat : DOMAIN at = 1 .. k
  <2>1. poll[w].size \in Int
    BY DEF StoreInv, TicketsOK, Poll
  <2>2. QED BY <2>1 DEF Oldest
<1>5. /\ \A n \in DOMAIN at : at[n] \in DOMAIN order /\ Available(order[at[n]])
      /\ \A m, n \in DOMAIN at : m < n => at[m] < at[n]
  BY DEF Oldest
<1>6. order \in Seq(Items) /\ \A n \in DOMAIN at : order[at[n]] \in Items
  BY <1>5 DEF StoreInv, TableOK
<1>7. /\ poll'[w].items = tickets /\ poll'[w].at = "answered" /\ poll'[w] \in Poll
      /\ \A v \in Workers : v # w => poll'[v] = poll[v]
      /\ tickets \in Seq(Ticket)
  <2>1. \A n \in 1 .. k : [id |-> order[at[n]], attempts |-> rows[order[at[n]]].attempts] \in Ticket
    BY <1>4, <1>6 DEF StoreInv, TableOK, Ticket, Row
  <2>2. tickets \in Seq(Ticket)
    BY <1>4, <2>1
  <2> HIDE DEF tickets
  <2>3. QED BY <1>2, <2>2 DEF StoreInv, TicketsOK, Poll
<1> HIDE DEF tickets
<1>8. poll[w].items = <<>> /\ ~Among(poll[w].items, None)
  BY <1>3 DEF StoreInv, TicketsOK, Among
<1>9. \A i : Among(tickets, i) <=> i \in got
  BY DEF Among, tickets
<1>10. \A i \in got : i \in Items /\ Available(i) /\ i \in Offered
  BY <1>5, <1>6 DEF Offered
<1>11. TableOK'
  <2>1. \A r \in Row : [r EXCEPT !.by = w, !.age = 0] \in Row
    BY DEF Row
  <2>2. QED BY <1>2, <1>3, <2>1 DEF StoreInv, TableOK
<1>12. TicketsOK'
  <2>1. poll' \in [Workers -> Poll]
    BY <1>2, <1>7 DEF StoreInv, TicketsOK
  <2>2. QED BY <1>3, <1>7, <2>1 DEF StoreInv, TicketsOK
<1>13. ConsumersOK'
  BY <1>3 DEF StoreInv, ConsumersOK
\* Whose places have changed, and how.
<1>14. \A v \in Workers : v # w => Disjoint(v)' /\ \A i : Using(v, i)' => Using(v, i)
  BY <1>3, <1>7, FewerPlaces DEF StoreInv, Holds
<1>15. \A i : Using(w, i)' => Using(w, i) \/ i \in got
  BY <1>3, <1>7, <1>9 DEF Using, InMailbox, Among, Crew
<1>16. Disjoint(w)'
  <2>1. \A i \in got : ~Using(w, i)
    BY <1>10, AvailableIsUnused
  <2>2. OnceIn(poll'[w].items)
    <3>1. ASSUME NEW m \in 1 .. k, NEW n \in 1 .. k, order[at[m]] = order[at[n]] PROVE m = n
      BY <1>4, <1>5, <1>6, <3>1 DEF StoreInv, TableOK
    <3>2. QED BY <1>4, <1>7, <3>1 DEF OnceIn, tickets
  <2>3. Disjoint(w)
    BY DEF StoreInv
  <2>4. \A i \in got : ~Among(mailbox[w], i) /\ \A c \in Crew(w) : Holds(c) => held[c].id # i
    BY <2>1 DEF Using, InMailbox, Among, Holds
  <2>5. \A i : Among(poll'[w].items, i) => i \in got
    BY <1>7, <1>9
  <2>6. mailbox' = mailbox /\ held' = held /\ \A c : Holds(c)' = Holds(c)
    BY <1>3 DEF Holds
  <2>7. QED BY <2>2, <2>3, <2>4, <2>5, <2>6 DEF Disjoint, Crew
<1>17. ASSUME NEW v \in Workers, NEW i \in Items \cup {None}, Using(v, i)' PROVE i \in Items /\ Mine(v, i)'
  <2>1. CASE i \in got
    <3>1. v = w
      BY <1>10, <1>14, <1>17, <2>1, AvailableIsUnused
    <3>2. rows'[i] = [rows[i] EXCEPT !.by = w, !.age = 0] /\ rows[i] \in Row /\ i \in Items
      BY <1>2, <1>10, <2>1 DEF StoreInv, TableOK
    <3>3. QED BY <1>3, <1>10, <2>1, <3>1, <3>2 DEF Mine, Settled, Offered, Available, Row, PersistedQueueAssumption
  <2>2. CASE i \notin got
    <3>1. Using(v, i)
      BY <1>14, <1>15, <1>17, <2>2
    <3>2. i \in Items /\ Mine(v, i)
      BY <3>1 DEF StoreInv, Claimed
    <3>3. QED BY <1>2, <1>3, <2>2, <3>2 DEF Mine, Settled, Offered
  <2>3. QED BY <2>1, <2>2
<1>18. QED BY <1>11, <1>12, <1>13, <1>14, <1>16, <1>17 DEF StoreInv, Claimed

\* What stands in two sequences, one behind the other.
LEMMA InConcat ==
  ASSUME NEW S, NEW s \in Seq(S), NEW t \in Seq(S)
  PROVE  /\ \A i : Among(s \o t, i) <=> Among(s, i) \/ Among(t, i)
         /\ OnceIn(s) /\ OnceIn(t) /\ (\A i : ~(Among(s, i) /\ Among(t, i))) => OnceIn(s \o t)
<1>1. /\ s \o t \in Seq(S) /\ Len(s \o t) = Len(s) + Len(t)
      /\ \A n \in 1 .. Len(s) + Len(t) : (s \o t)[n] = IF n <= Len(s) THEN s[n] ELSE t[n - Len(s)]
  BY ConcatProperties
<1> DEFINE u == s \o t
<1> HIDE DEF u
<1>2. /\ DOMAIN u = 1 .. Len(s) + Len(t) /\ DOMAIN s = 1 .. Len(s) /\ DOMAIN t = 1 .. Len(t)
      /\ Len(s) \in Nat /\ Len(t) \in Nat
  BY <1>1 DEF u
<1>3. /\ \A n \in DOMAIN s : n \in DOMAIN u /\ u[n] = s[n]
      /\ \A n \in DOMAIN t : n + Len(s) \in DOMAIN u /\ u[n + Len(s)] = t[n]
  <2>1. \A n \in DOMAIN t : n + Len(s) - Len(s) = n
    BY <1>2
  <2>2. QED BY <1>1, <1>2, <2>1 DEF u
<1>4. \A n \in DOMAIN u : \/ n \in DOMAIN s /\ u[n] = s[n]
                          \/ n - Len(s) \in DOMAIN t /\ u[n] = t[n - Len(s)] /\ ~(n <= Len(s))
  BY <1>1, <1>2 DEF u
<1>5. \A i : Among(u, i) <=> Among(s, i) \/ Among(t, i)
  BY <1>3, <1>4 DEF Among
<1>6. ASSUME OnceIn(s), OnceIn(t), \A i : ~(Among(s, i) /\ Among(t, i)),
             NEW m \in DOMAIN u, NEW n \in DOMAIN u, u[m].id = u[n].id
      PROVE  m = n
  <2>1. CASE m \in DOMAIN s /\ u[m] = s[m] /\ n \in DOMAIN s /\ u[n] = s[n]
    BY <1>6, <2>1 DEF OnceIn
  <2>2. CASE /\ m - Len(s) \in DOMAIN t /\ u[m] = t[m - Len(s)]
             /\ n - Len(s) \in DOMAIN t /\ u[n] = t[n - Len(s)]
    <3>1. m - Len(s) = n - Len(s)
      BY <1>6, <2>2 DEF OnceIn
    <3>2. QED BY <1>2, <3>1
  <2>3. QED BY <1>4, <1>6, <2>1, <2>2 DEF Among
<1>7. QED BY <1>5, <1>6 DEF OnceIn, u

LEMMA PollAnsweredKeeps ==
  ASSUME PersistedQueueAssumption, StoreInv, NEW w \in Workers, PollAnswered(w) PROVE StoreInv'
<1>1. /\ mailbox' = [mailbox EXCEPT ![w] = mailbox[w] \o poll[w].items]
      /\ UNCHANGED <<rows, order, takers, pc, held>>
      /\ poll' = [poll EXCEPT ![w] = IF poll[w].items = <<>> THEN Ready ELSE [Ready EXCEPT !.at = "offered"]]
  BY DEF PollAnswered, tableVars, fibers
<1>2. /\ mailbox[w] \in Seq(Ticket) /\ poll[w].items \in Seq(Ticket)
      /\ Disjoint(w)
  BY DEF StoreInv, TicketsOK, Poll
<1>3. /\ mailbox'[w] = mailbox[w] \o poll[w].items /\ mailbox'[w] \in Seq(Ticket)
      /\ \A v \in Workers : v # w => mailbox'[v] = mailbox[v] /\ poll'[v] = poll[v]
  BY <1>1, <1>2, ConcatProperties DEF StoreInv, TicketsOK
<1>4. /\ poll'[w] \in Poll /\ poll'[w].items = <<>> /\ poll'[w].at # "answered"
  <2>1. /\ Ready \in Poll /\ Ready.items = <<>> /\ Ready.at = "ready"
        /\ [Ready EXCEPT !.at = "offered"] \in Poll
        /\ [Ready EXCEPT !.at = "offered"].items = <<>> /\ [Ready EXCEPT !.at = "offered"].at = "offered"
    <3>1. [Ready EXCEPT !.at = "offered"] = [at |-> "offered", size |-> 0, items |-> <<>>]
      BY DEF Ready
    <3>2. /\ [at |-> "offered", size |-> 0, items |-> <<>>] \in Poll
          /\ [at |-> "ready", size |-> 0, items |-> <<>>] \in Poll
      BY DEF Poll
    <3>3. QED BY <3>1, <3>2 DEF Ready
  <2>2. poll'[w] \in {Ready, [Ready EXCEPT !.at = "offered"]}
    BY <1>1 DEF StoreInv, TicketsOK
  <2>3. QED BY <2>1, <2>2
<1>5. (TableOK /\ ConsumersOK)'
  BY <1>1 DEF StoreInv, TableOK, ConsumersOK
<1>6. TicketsOK'
  <2>1. mailbox' \in [Workers -> Seq(Ticket)] /\ poll' \in [Workers -> Poll]
    BY <1>1, <1>3, <1>4 DEF StoreInv, TicketsOK
  <2>2. QED BY <1>1, <1>3, <1>4, <2>1 DEF StoreInv, TicketsOK
<1>7. \A v \in Workers : v # w => Disjoint(v)' /\ \A i : Using(v, i)' => Using(v, i)
  BY <1>1, <1>3, FewerPlaces DEF StoreInv, Holds
<1>8. \A i \in Items \cup {None} : ~(Among(mailbox[w], i) /\ Among(poll[w].items, i))
  <2>1. Claimed
    BY DEF StoreInv
  <2>2. ~Among(mailbox[w], None)
    BY <2>1 DEF Claimed, Using, InMailbox, Among, PersistedQueueAssumption
  <2>3. QED BY <1>2, <2>2 DEF Disjoint
<1>9. \A i : Among(mailbox'[w], i) <=> Among(mailbox[w], i) \/ Among(poll[w].items, i)
  BY <1>2, <1>3, InConcat
<1>10. OnceIn(mailbox'[w])
  <2>1. \A i : Among(mailbox[w], i) => i \in Items \cup {None}
    <3>1. \A n \in DOMAIN mailbox[w] : mailbox[w][n] \in Ticket
      BY <1>2
    <3>2. QED BY <3>1 DEF Among, Ticket
  <2>2. QED BY <1>2, <1>3, <1>8, <2>1, InConcat DEF Disjoint
<1>11. Disjoint(w)'
  <2>1. \A i : ~Among(poll'[w].items, i) /\ OnceIn(poll'[w].items)
    BY <1>4 DEF Among, OnceIn
  <2>2. held' = held /\ \A c : Holds(c)' = Holds(c)
    BY <1>1 DEF Holds
  <2>3. QED BY <1>2, <1>9, <1>10, <2>1, <2>2 DEF Disjoint, Crew
<1>12. \A i : Using(w, i)' => Using(w, i)
  <2>1. \A i : ~Among(poll'[w].items, i)
    BY <1>4 DEF Among
  <2>2. pc' = pc /\ held' = held
    BY <1>1
  <2>3. QED BY <1>9, <2>1, <2>2, UsingIs DEF Holds, Crew
<1>13. Claimed'
  BY <1>1, <1>7, <1>12, StillClaimed, KeptRows DEF StoreInv, Offered
<1>14. QED BY <1>5, <1>6, <1>7, <1>11, <1>13 DEF StoreInv

LEMMA ReceiveKeeps ==
  ASSUME PersistedQueueAssumption, StoreInv, NEW c \in Consumers, Receive(c) PROVE StoreInv'
<1>1. PICK w \in Workers : w = Home[c]
  BY DEF PersistedQueueAssumption
<1>2. /\ pc[c] = "waiting" /\ mailbox[w] # <<>> /\ pc' = [pc EXCEPT ![c] = "taken"]
      /\ held' = [held EXCEPT ![c] = Head(mailbox[w])] /\ mailbox' = [mailbox EXCEPT ![w] = Tail(mailbox[w])]
      /\ UNCHANGED <<rows, order, takers, poll>>
  BY <1>1 DEF Receive, tableVars
<1>3. mailbox[w] \in Seq(Ticket) /\ Disjoint(w)
  BY DEF StoreInv, TicketsOK
<1>4. PICK e \in Ticket : e = Head(mailbox[w])
  BY <1>2, <1>3, HeadTailProperties
<1>5. /\ Tail(mailbox[w]) \in Seq(Ticket) /\ Len(Tail(mailbox[w])) = Len(mailbox[w]) - 1
      /\ e = mailbox[w][1] /\ 1 \in DOMAIN mailbox[w]
      /\ \A n \in DOMAIN Tail(mailbox[w]) : n + 1 \in DOMAIN mailbox[w] /\ Tail(mailbox[w])[n] = mailbox[w][n + 1]
                                           /\ n \in Int /\ n + 1 # 1
  BY <1>2, <1>3, <1>4, HeadTailProperties
<1>6. /\ mailbox'[w] = Tail(mailbox[w]) /\ \A v \in Workers : v # w => mailbox'[v] = mailbox[v]
      /\ held'[c] = e /\ pc'[c] = "taken"
      /\ \A d \in Consumers : d # c => held'[d] = held[d] /\ pc'[d] = pc[d]
  BY <1>2, <1>4 DEF StoreInv, TicketsOK, ConsumersOK
<1>7. (TableOK /\ TicketsOK /\ ConsumersOK)'
  BY <1>2, <1>4, <1>5 DEF StoreInv, TableOK, TicketsOK, ConsumersOK
<1>8. /\ \A i : Among(mailbox'[w], i) => Among(mailbox[w], i) /\ i # e.id
      /\ Among(mailbox[w], e.id) /\ OnceIn(mailbox'[w])
  <2>1. \A n \in DOMAIN mailbox'[w] : n + 1 \in DOMAIN mailbox[w] /\ mailbox'[w][n] = mailbox[w][n + 1]
                                      /\ n \in Int /\ n + 1 # 1
    BY <1>5, <1>6
  <2>2. \A m, n \in DOMAIN mailbox[w] : mailbox[w][m].id = mailbox[w][n].id => m = n
    BY <1>3 DEF Disjoint, OnceIn
  <2>3. \A n \in DOMAIN mailbox'[w] : mailbox'[w][n].id # e.id
    BY <1>5, <2>1, <2>2
  <2>4. ASSUME NEW m \in DOMAIN mailbox'[w], NEW n \in DOMAIN mailbox'[w], mailbox'[w][m].id = mailbox'[w][n].id
        PROVE  m = n
    <3>1. m + 1 = n + 1
      BY <2>1, <2>2, <2>4
    <3>2. QED BY <2>1, <3>1
  <2>5. QED BY <1>5, <2>1, <2>3, <2>4 DEF Among, OnceIn
<1>9. \A d \in Crew(w) : Holds(d)' <=> d = c \/ (d # c /\ Holds(d))
  BY <1>6 DEF Holds, Crew
<1>10. \A v \in Workers : v # w => Disjoint(v)' /\ \A i : Using(v, i)' => Using(v, i)
  <2>1. \A v \in Workers : v # w => \A d \in Crew(v) : d # c
    BY <1>1 DEF Crew
  <2>2. QED BY <1>2, <1>6, <2>1, FewerPlaces DEF StoreInv, Holds, Crew
<1>11. e.id \in Items /\ ~Among(poll[w].items, e.id) /\ \A d \in Crew(w) : Holds(d) => held[d].id # e.id
  <2>1. e.id \in Items
    BY <1>8 DEF StoreInv, Claimed, Using, InMailbox, Among, Ticket
  <2>2. QED BY <1>3, <1>8, <2>1 DEF Disjoint
<1>12. Disjoint(w)'
  <2>1. /\ OnceIn(poll[w].items)
        /\ \A i \in Items : ~(Among(mailbox[w], i) /\ Among(poll[w].items, i))
        /\ \A d \in Crew(w) : Holds(d) =>
             /\ ~Among(mailbox[w], held[d].id) /\ ~Among(poll[w].items, held[d].id)
             /\ \A g \in Crew(w) : Holds(g) /\ held[g].id = held[d].id => g = d
    BY <1>3 DEF Disjoint
  <2>2. ASSUME NEW d \in Crew(w), Holds(d)'
        PROVE  /\ ~Among(mailbox'[w], held'[d].id) /\ ~Among(poll[w].items, held'[d].id)
               /\ \A g \in Crew(w) : Holds(g)' /\ held'[g].id = held'[d].id => g = d
    BY <1>6, <1>8, <1>9, <1>11, <2>1, <2>2 DEF Crew
  <2>3. QED BY <1>2, <1>8, <2>1, <2>2 DEF Disjoint, Crew
<1>13. ASSUME NEW i, Using(w, i)' PROVE Using(w, i)
  <2>1. CASE Among(mailbox'[w], i) \/ Among(poll'[w].items, i)
    BY <1>2, <1>8, <2>1, UsingIs
  <2>2. CASE \E d \in Crew(w) : Holds(d)' /\ held'[d].id = i
    BY <1>6, <1>8, <1>9, <2>2, UsingIs DEF Crew
  <2>3. QED BY <1>13, <2>1, <2>2 DEF Using, InMailbox, Among, Holds, Crew
<1>14. Claimed'
  BY <1>2, <1>10, <1>13, StillClaimed, KeptRows DEF StoreInv, Offered
<1>15. QED BY <1>7, <1>10, <1>12, <1>14 DEF StoreInv

\* The order after an item has moved to its end.
LEMMA MovedFacts ==
  ASSUME TableOK, NEW i \in Items, Moved(i)
  PROVE  /\ order' \in Seq(Items) /\ Offered' = Offered
         /\ \A m, n \in DOMAIN order' : order'[m] = order'[n] => m = n
<1>1. PICK n \in DOMAIN order : order[n] = i /\ order' = Append(RemoveAt(order, n), i)
  BY DEF Moved
<1>2. order \in Seq(Items) /\ n \in 1 .. Len(order) /\ \A k, m \in DOMAIN order : order[k] = order[m] => k = m
  BY <1>1 DEF TableOK
<1> DEFINE t == RemoveAt(order, n)
<1>3. /\ t \in Seq(Items) /\ Len(t) = Len(order) - 1
      /\ \A j \in 1 .. Len(order) - 1 : t[j] = IF j < n THEN order[j] ELSE order[j + 1]
  BY <1>2, RemoveAtFacts
<1>4. order' = Append(t, i)
  BY <1>1
<1> HIDE DEF t
<1>5. /\ order' \in Seq(Items) /\ Len(order') = Len(order) /\ Len(order) \in Nat
      /\ \A j \in 1 .. Len(order) - 1 : order'[j] = IF j < n THEN order[j] ELSE order[j + 1]
      /\ order'[Len(order)] = order[n]
  BY <1>1, <1>2, <1>3, <1>4, AppendProperties
\* Where what stands at j stood before.
<1> DEFINE from(j) == IF j = Len(order) THEN n ELSE IF j < n THEN j ELSE j + 1
<1>6. /\ \A j \in DOMAIN order' : from(j) \in DOMAIN order /\ order'[j] = order[from(j)]
      /\ \A j, k \in DOMAIN order' : from(j) = from(k) => j = k
      /\ \A m \in DOMAIN order : \E j \in DOMAIN order' : from(j) = m
  <2>1. DOMAIN order' = 1 .. Len(order) /\ DOMAIN order = 1 .. Len(order)
    BY <1>2, <1>5
  <2>2. ASSUME NEW m \in 1 .. Len(order) PROVE \E j \in 1 .. Len(order) : from(j) = m
    <3>1. CASE m = n
      BY <1>5, <3>1
    <3>2. CASE m < n
      <4>1. m \in 1 .. Len(order) /\ m # Len(order) /\ from(m) = m
        BY <1>2, <1>5, <3>2
      <4>2. QED BY <4>1
    <3>3. CASE m > n
      <4>1. m - 1 \in 1 .. Len(order) /\ m - 1 # Len(order) /\ ~(m - 1 < n) /\ m - 1 + 1 = m
        BY <1>2, <1>5, <3>3
      <4>2. QED BY <4>1
    <3>4. QED BY <1>2, <3>1, <3>2, <3>3
  <2>3. ASSUME NEW j \in 1 .. Len(order) PROVE from(j) \in 1 .. Len(order) /\ order'[j] = order[from(j)]
    BY <1>2, <1>5, <2>3
  <2>4. ASSUME NEW j \in 1 .. Len(order), NEW k \in 1 .. Len(order), from(j) = from(k) PROVE j = k
    <3>1. \A a \in 1 .. Len(order) : a # Len(order) => from(a) # n
      BY <1>2, <1>5
    <3>2. \A a, b \in 1 .. Len(order) : a # Len(order) /\ b # Len(order) /\ from(a) = from(b) => a = b
      BY <1>2, <1>5
    <3>3. QED BY <2>4, <3>1, <3>2
  <2> HIDE DEF from
  <2>5. QED BY <2>1, <2>2, <2>3, <2>4
<1> HIDE DEF from
<1>7. QED BY <1>2, <1>5, <1>6 DEF Offered

\* A handler that ends gives its item up, and changes the row of it only.
LEMMA SettleKeeps ==
  ASSUME PersistedQueueAssumption, StoreInv, NEW c \in Consumers, NEW row \in Row, Settle(c, row),
         UNCHANGED order \/ Moved(held[c].id)
  PROVE  StoreInv'
<1>1. Home[c] \in Workers
  BY DEF PersistedQueueAssumption
<1>2. PICK i \in Items : i = held[c].id /\ Using(Home[c], i) /\ Mine(Home[c], i)
  BY <1>1 DEF Settle, StoreInv, Claimed, Using, Crew, ConsumersOK, Ticket
<1>3. /\ pc[c] = "running" /\ pc' = [pc EXCEPT ![c] = "idle"] /\ rows' = [rows EXCEPT ![i] = row]
      /\ UNCHANGED <<mailbox, takers, poll, held>>
  BY <1>2 DEF Settle, local, Mine
<1>4. /\ order' \in Seq(Items) /\ Offered' = Offered
      /\ \A m, n \in DOMAIN order' : order'[m] = order'[n] => m = n
  BY <1>2, MovedFacts DEF StoreInv, TableOK, Offered
<1>5. (TableOK /\ TicketsOK /\ ConsumersOK)'
  BY <1>2, <1>3, <1>4 DEF StoreInv, TableOK, TicketsOK, ConsumersOK
<1>6. \A d \in Consumers : Holds(d)' => Holds(d) /\ d # c
  BY <1>3 DEF StoreInv, ConsumersOK, Holds
<1>7. \A v \in Workers : Disjoint(v)' /\ \A j : Using(v, j)' => Using(v, j)
  BY <1>3, <1>6, FewerPlaces DEF StoreInv, Crew
<1>8. \A v \in Workers : ~Using(v, i)'
  <2>1. \A v \in Workers : Using(v, i) => v = Home[c]
    BY <1>2 DEF StoreInv, Claimed, Mine
  <2>2. /\ ~Among(mailbox[Home[c]], i) /\ ~Among(poll[Home[c]].items, i)
        /\ \A d \in Crew(Home[c]) : Holds(d) /\ held[d].id = i => d = c
    BY <1>1, <1>2, <1>3 DEF StoreInv, Disjoint, Holds, Crew
  <2>3. ~Using(Home[c], i)'
    BY <1>3, <1>6, <2>2 DEF Using, InMailbox, Among, Crew, Holds
  <2>4. QED BY <1>7, <2>1, <2>3
<1>9. Claimed'
  <2>1. ASSUME NEW v \in Workers, NEW j \in Items, Mine(v, j), Using(v, j)' PROVE Mine(v, j)'
    <3>1. j # i
      BY <1>8, <2>1
    <3>2. QED BY <1>3, <1>4, <2>1, <3>1 DEF StoreInv, TableOK, Mine, Settled
  <2>2. QED BY <1>7, <2>1, StillClaimed DEF StoreInv
<1>10. QED BY <1>5, <1>7, <1>9 DEF StoreInv

\* What the finalizers write.
LEMMA RowsWritten ==
  ASSUME PersistedQueueAssumption, StoreInv, NEW c \in Consumers, pc[c] = "running"
  PROVE  /\ rows[held[c].id] \in Row /\ Freed(rows[held[c].id]) \in Row
         /\ Retried(c) \in Row /\ [Retried(c) EXCEPT !.completed = TRUE] \in Row
<1>1. held[c].id \in Items /\ held[c].attempts \in Nat
  BY DEF StoreInv, Claimed, Using, Crew, ConsumersOK, Ticket, PersistedQueueAssumption
<1>2. rows[held[c].id] \in Row
  BY <1>1 DEF StoreInv, TableOK
<1>3. Freed(rows[held[c].id]) \in Row
  BY <1>2 DEF Row, Freed
<1>4. Retried(c) \in Row
  BY <1>1, <1>3 DEF Row, Retried
<1>5. [Retried(c) EXCEPT !.completed = TRUE] \in Row
  BY <1>4 DEF Row
<1>6. QED BY <1>2, <1>3, <1>4, <1>5

LEMMA EndsKeeps ==
  ASSUME PersistedQueueAssumption, StoreInv, NEW c \in Consumers,
         Complete(c) \/ Retry(c) \/ Interrupt(c) \/ EndUnsaid(c)
  PROVE  StoreInv'
<1>1. pc[c] = "running"
  BY DEF Complete, Retry, Interrupt, EndUnsaid, Settle
<1>2. QED BY <1>1, RowsWritten, SettleKeeps DEF Complete, Retry, Interrupt, EndUnsaid

LEMMA StoreNextInv ==
  ASSUME PersistedQueueAssumption, ~Long, StoreInv, [StoreNext]_storeVars PROVE StoreInv'
<1>1. ASSUME NEW i \in Items, Offer(i) PROVE StoreInv'
  BY <1>1, OfferKeeps
<1>2. ASSUME NEW w \in Workers, Polls(w) PROVE StoreInv'
  BY <1>2, PollAskedKeeps, PollRunsKeeps, PollAnsweredKeeps, PollGoesOnKeeps DEF Polls
<1>3. ASSUME NEW w \in Workers, Idle(w) \/ Crash(w) PROVE StoreInv'
  BY <1>3, IdleKeeps, CrashKeeps
<1>4. ASSUME NEW c \in Consumers, Take(c) \/ Receive(c) \/ Started(c) \/ InterruptTake(c) PROVE StoreInv'
  BY <1>4, TakeKeeps, ReceiveKeeps, StartedKeeps, InterruptTakeKeeps
<1>5. ASSUME NEW c \in Consumers, Ends(c) \/ Interrupt(c) \/ EndUnsaid(c) PROVE StoreInv'
  BY <1>5, EndsKeeps DEF Ends
<1>6. CASE LocksAge
  BY <1>6, LocksAgeKeeps
<1>7. CASE UNCHANGED storeVars
  <2>1. UNCHANGED <<rows, order, mailbox, takers, poll, pc, held>>
    BY <1>7 DEF storeVars, tableVars, local, fibers
  <2>2. (TableOK /\ TicketsOK /\ ConsumersOK)'
    BY <2>1 DEF StoreInv, TableOK, TicketsOK, ConsumersOK
  <2>3. QED BY <2>1, <2>2, QuietStep DEF Offered, Holds
<1>8. QED BY <1>1, <1>2, <1>3, <1>4, <1>5, <1>6, <1>7 DEF StoreNext

\* What a consumer works on is locked by its worker, as long as no handler and no
\* item that waits outlives its lock (PersistedQueue.ts:749-750, 1028-1170).
THEOREM WorkIsLocked ==
  ASSUME PersistedQueueAssumption, ~Long PROVE StoreSpec => []LocksHeld
<1>1. StoreInit => StoreInv
  BY StoreInitInv
<1>2. StoreInv /\ [StoreNext]_storeVars => StoreInv'
  BY StoreNextInv
<1>3. StoreInv => LocksHeld
  BY DEF StoreInv, Claimed, Mine, Using, Crew, ConsumersOK, Ticket, LocksHeld, PersistedQueueAssumption
<1>4. QED BY <1>1, <1>2, <1>3, PTL DEF StoreSpec

WorkersOn == [i \in Items |-> Running(i)]
StoreRefines == [Promise!Next]_(<<Offered, {i \in Items : Settled(i)}, WorkersOn>>)

\* Who runs an item is one consumer.
LEMMA OneRunner ==
  ASSUME PersistedQueueAssumption, StoreInv, NEW c \in Consumers, pc[c] = "running",
         NEW d \in Consumers, pc[d] = "running", held[c].id = held[d].id
  PROVE  c = d
<1>1. Using(Home[c], held[c].id) /\ Using(Home[d], held[d].id) /\ Home[c] \in Workers /\ Home[d] \in Workers
  BY DEF Using, Crew, PersistedQueueAssumption
<1>2. held[c].id \in Items \cup {None}
  BY DEF StoreInv, ConsumersOK, Ticket
<1>3. Home[c] = Home[d]
  BY <1>1, <1>2 DEF StoreInv, Claimed, Mine
<1>4. QED BY <1>1, <1>3 DEF StoreInv, Disjoint, Holds, Crew

\* Whose item an item is.
LEMMA RunsItsOwn ==
  ASSUME PersistedQueueAssumption, StoreInv, NEW c \in Consumers, Holds(c)
  PROVE  held[c].id \in Items /\ held[c].id \in Offered /\ ~Settled(held[c].id) /\ Using(Home[c], held[c].id)
<1>1. Using(Home[c], held[c].id) /\ Home[c] \in Workers
  BY DEF Using, Crew, Holds, PersistedQueueAssumption
<1>2. held[c].id \in Items \cup {None}
  BY DEF StoreInv, ConsumersOK, Ticket
<1>3. QED BY <1>1, <1>2 DEF StoreInv, Claimed, Mine

\* Steps in which nobody begins or ends work.
LEMMA SameWork ==
  ASSUME UNCHANGED <<Offered, {i \in Items : Settled(i)}>>,
         \A c \in Consumers : /\ (pc'[c] = "running") = (pc[c] = "running")
                              /\ pc[c] = "running" => held'[c] = held[c]
  PROVE  StoreRefines
<1>1. ASSUME NEW i \in Items PROVE Running(i)' = Running(i)
  BY DEF Running
<1>2. UNCHANGED WorkersOn
  BY <1>1 DEF WorkersOn
<1>3. QED BY <1>2 DEF StoreRefines

LEMMA SettledSame ==
  ASSUME \A i \in Items : rows'[i].completed = rows[i].completed /\ rows'[i].attempts = rows[i].attempts
  PROVE  UNCHANGED {i \in Items : Settled(i)}
BY DEF Settled

LEMMA StartedRefines ==
  ASSUME PersistedQueueAssumption, StoreInv, NEW c \in Consumers, Started(c) PROVE StoreRefines
<1>1. /\ pc[c] = "taken" /\ UNCHANGED <<rows, order, held>>
      /\ pc' = [pc EXCEPT ![c] = IF held[c].id \in Bad THEN "idle" ELSE "running"]
  BY DEF Started, tableVars
<1>2. UNCHANGED <<Offered, {i \in Items : Settled(i)}>>
  BY <1>1 DEF Offered, Settled
<1>3. CASE held[c].id \in Bad
  BY <1>1, <1>2, <1>3, SameWork DEF StoreInv, ConsumersOK
<1>4. CASE held[c].id \notin Bad
  <2>1. PICK i \in Items : i = held[c].id /\ i \in Offered /\ ~Settled(i) /\ Using(Home[c], i)
    BY <1>1, RunsItsOwn DEF Holds
  <2>2. \A d \in Consumers : pc'[d] = "running" <=> d = c \/ pc[d] = "running"
    BY <1>1, <1>4 DEF StoreInv, ConsumersOK
  <2>3. \A d \in Consumers : pc[d] = "running" => held[d].id # i
    <3>1. ASSUME NEW d \in Consumers, pc[d] = "running", held[d].id = i PROVE FALSE
      <4>1. Using(Home[d], i) /\ Home[d] = Home[c] /\ Home[c] \in Workers
        BY <2>1, <3>1, RunsItsOwn DEF Holds, StoreInv, Claimed, Mine, PersistedQueueAssumption
      <4>2. QED BY <1>1, <2>1, <3>1, <4>1 DEF StoreInv, Disjoint, Holds, Crew
    <3>2. QED BY <3>1
  <2>4. \A j \in Items : WorkersOn'[j] = IF j = i THEN {c} ELSE WorkersOn[j]
    BY <1>1, <2>1, <2>2, <2>3 DEF WorkersOn, Running
  <2>5. WorkersOn[i] = {}
    BY <2>3 DEF WorkersOn, Running
  <2>6. DOMAIN WorkersOn = Items /\ WorkersOn' = [j \in Items |-> WorkersOn'[j]]
    BY DEF WorkersOn
  <2>7. WorkersOn' = [WorkersOn EXCEPT ![i] = {c}]
    BY <2>4, <2>6, EqualFunctions
  <2>8. Promise!Start(i)
    BY <1>2, <2>1, <2>5, <2>7 DEF Promise!Start, WorkersOn
  <2>9. QED BY <2>8 DEF Promise!Next, StoreRefines
<1>5. QED BY <1>3, <1>4

LEMMA SettleRefines ==
  ASSUME PersistedQueueAssumption, StoreInv, NEW c \in Consumers, NEW row \in Row, Settle(c, row),
         row.by = Nobody \/ row = rows[held[c].id],
         UNCHANGED order \/ Moved(held[c].id)
  PROVE  StoreRefines
<1>1. PICK i \in Items : i = held[c].id /\ i \in Offered /\ ~Settled(i)
  BY RunsItsOwn DEF Settle, Holds
<1>2. /\ pc[c] = "running" /\ pc' = [pc EXCEPT ![c] = "idle"] /\ UNCHANGED held
      /\ rows' = [rows EXCEPT ![i] = row] \/ rows' = rows
  BY <1>1 DEF Settle
<1>3. UNCHANGED Offered
  BY <1>1, MovedFacts DEF StoreInv, TableOK, Offered
<1>4. \A j \in Items : j # i => rows'[j] = rows[j]
  BY <1>2 DEF StoreInv, TableOK
<1>5. {j \in Items : Settled(j)}' \in {{j \in Items : Settled(j)}, {j \in Items : Settled(j)} \cup {i}}
  BY <1>1, <1>4 DEF Settled
<1>6. \A d \in Consumers : pc'[d] = "running" <=> d # c /\ pc[d] = "running"
  BY <1>2 DEF StoreInv, ConsumersOK
<1>7. \A d \in Consumers : pc[d] = "running" /\ held[d].id = i => d = c
  BY <1>1, <1>2, OneRunner
<1>8. \A j \in Items : WorkersOn'[j] = IF j = i THEN {} ELSE WorkersOn[j]
  BY <1>1, <1>2, <1>6, <1>7 DEF WorkersOn, Running
<1>9. c \in WorkersOn[i]
  BY <1>1, <1>2 DEF WorkersOn, Running
<1>10. DOMAIN WorkersOn = Items /\ WorkersOn' = [j \in Items |-> WorkersOn'[j]]
  BY DEF WorkersOn
<1>11. WorkersOn' = [WorkersOn EXCEPT ![i] = {}]
  BY <1>8, <1>10, EqualFunctions
<1>12. Promise!Stop(i)
  BY <1>3, <1>5, <1>9, <1>11 DEF Promise!Stop, WorkersOn
<1>13. QED BY <1>12 DEF Promise!Next, StoreRefines

LEMMA CrashRefines ==
  ASSUME PersistedQueueAssumption, StoreInv, NEW w \in Workers, Crash(w) PROVE StoreRefines
<1>1. /\ UNCHANGED <<rows, order, held>>
      /\ pc' = [c \in Consumers |-> IF Home[c] = w THEN "idle" ELSE pc[c]]
  BY DEF Crash, tableVars
<1> DEFINE S == {i \in Items : \E c \in Running(i) : Home[c] = w}
<1>2. ASSUME NEW i \in Items PROVE Running(i)' = IF i \in S THEN {} ELSE Running(i)
  <2>1. \A c, d \in Running(i) : c = d
    BY OneRunner DEF Running
  <2>2. Running(i)' = {c \in Running(i) : Home[c] # w}
    BY <1>1 DEF Running
  <2>3. QED BY <2>1, <2>2
<1>3. WorkersOn' = [i \in Items |-> IF i \in S THEN {} ELSE WorkersOn[i]]
  BY <1>2 DEF WorkersOn
<1>4. S \in SUBSET Items /\ UNCHANGED <<Offered, {i \in Items : Settled(i)}>>
  BY <1>1 DEF Offered, Settled
<1> HIDE DEF S
<1>5. Promise!Abandon
  BY <1>3, <1>4 DEF Promise!Abandon, WorkersOn
<1>6. QED BY <1>5 DEF Promise!Next, StoreRefines

LEMMA StoreStepRefines ==
  ASSUME PersistedQueueAssumption, ~Long, StoreInv, [StoreNext]_storeVars PROVE StoreRefines
<1>1. ASSUME NEW i \in Items, Offer(i) PROVE StoreRefines
  <2>1. order' = Append(order, i) /\ order \in Seq(Items) /\ i \notin Offered /\ UNCHANGED <<rows, pc, held>>
    BY <1>1 DEF Offer, local, fibers, StoreInv, TableOK
  <2>2. Offered' = Offered \cup {i}
    BY <2>1, AppendProperties DEF Offered
  <2>3. UNCHANGED <<{j \in Items : Settled(j)}, WorkersOn>>
    BY <2>1 DEF Settled, WorkersOn, Running
  <2>4. Promise!Offer(i)
    BY <2>1, <2>2, <2>3 DEF Promise!Offer, WorkersOn
  <2>5. QED BY <2>4 DEF Promise!Next, StoreRefines
<1>2. ASSUME NEW w \in Workers, Polls(w) \/ Idle(w) PROVE StoreRefines
  <2>1. UNCHANGED <<order, pc, held>>
    BY <1>2 DEF Polls, PollAsked, PollRuns, PollAnswered, PollGoesOn, Idle, tableVars, fibers
  <2>2. \A i \in Items : rows'[i].completed = rows[i].completed /\ rows'[i].attempts = rows[i].attempts
    <3>1. CASE PollRuns(w)
      <4>1. PICK at \in Oldest(poll[w].size) :
              rows' = [i \in Items |-> IF i \in Range([n \in DOMAIN at |-> order[at[n]]])
                                       THEN [rows[i] EXCEPT !.by = w, !.age = 0] ELSE rows[i]]
        BY <3>1 DEF PollRuns
      <4>2. \A r \in Row : [r EXCEPT !.by = w, !.age = 0].completed = r.completed
                           /\ [r EXCEPT !.by = w, !.age = 0].attempts = r.attempts
        BY DEF Row
      <4>3. QED BY <4>1, <4>2 DEF StoreInv, TableOK
    <3>2. CASE Idle(w)
      <4>1. \A r \in Row : Freed(r).completed = r.completed /\ Freed(r).attempts = r.attempts
        BY DEF Row, Freed
      <4>2. QED BY <3>2, <4>1 DEF Idle, StoreInv, TableOK
    <3>3. CASE PollAsked(w) \/ PollAnswered(w) \/ PollGoesOn(w)
      BY <3>3 DEF PollAsked, PollAnswered, PollGoesOn, tableVars
    <3>4. QED BY <1>2, <3>1, <3>2, <3>3 DEF Polls
  <2>3. QED BY <2>1, <2>2, SettledSame, SameWork DEF Offered
<1>3. ASSUME NEW w \in Workers, Crash(w) PROVE StoreRefines
  BY <1>3, CrashRefines
<1>4. ASSUME NEW c \in Consumers, Take(c) \/ Receive(c) \/ InterruptTake(c) PROVE StoreRefines
  <2>1. UNCHANGED <<rows, order>> /\ pc[c] # "running"
        /\ \E p \in {"idle", "waiting", "taken"} : pc' = [pc EXCEPT ![c] = p]
    BY <1>4 DEF Take, Receive, InterruptTake, tableVars
  <2>2. \A d \in Consumers : d # c => held'[d] = held[d]
    BY <1>4 DEF Take, Receive, InterruptTake, StoreInv, ConsumersOK
  <2>3. QED BY <2>1, <2>2, SameWork DEF StoreInv, ConsumersOK, Offered, Settled
<1>5. ASSUME NEW c \in Consumers, Started(c) PROVE StoreRefines
  BY <1>5, StartedRefines
<1>6. ASSUME NEW c \in Consumers, Ends(c) \/ Interrupt(c) \/ EndUnsaid(c) PROVE StoreRefines
  <2>1. pc[c] = "running"
    BY <1>6 DEF Ends, Complete, Retry, Interrupt, EndUnsaid, Settle
  <2>2. /\ rows[held[c].id] \in Row /\ Freed(rows[held[c].id]) \in Row
        /\ Retried(c) \in Row /\ [Retried(c) EXCEPT !.completed = TRUE] \in Row
    BY <2>1, RowsWritten
  <2>3. Freed(rows[held[c].id]).by = Nobody
    BY <2>2 DEF Freed, Row
  <2>4. Retried(c).by = Nobody /\ [Retried(c) EXCEPT !.completed = TRUE].by = Nobody
    BY <2>2, <2>3 DEF Retried, Row
  <2>5. QED BY <1>6, <2>2, <2>3, <2>4, SettleRefines DEF Ends, Complete, Retry, Interrupt, EndUnsaid
<1>7. CASE LocksAge
  <2>1. rows' = [i \in Items |-> Older(rows[i])] /\ UNCHANGED <<order, pc, held>>
    BY <1>7 DEF LocksAge, fibers
  <2>2. \A r \in Row : Older(r).completed = r.completed /\ Older(r).attempts = r.attempts
    BY DEF Row, Older
  <2>3. QED BY <2>1, <2>2, SettledSame, SameWork DEF Offered, StoreInv, TableOK
<1>8. CASE UNCHANGED storeVars
  BY <1>8, SameWork DEF storeVars, tableVars, local, fibers, Offered, Settled
<1>9. QED BY <1>1, <1>2, <1>3, <1>4, <1>5, <1>6, <1>7, <1>8 DEF StoreNext

\* Over the SQL store an item is with one consumer of all workers at a time and never
\* again after it is settled, whoever is interrupted, fails or crashes, as long as
\* nothing outlives its lock (PersistedQueue.ts:172-186, 1028-1099, 1139-1170).
THEOREM StoreIsAWorkQueue ==
  ASSUME PersistedQueueAssumption, ~Long PROVE StoreSpec => ImplementsWorkQueue
<1>1. StoreInit => StoreInv
  BY StoreInitInv
<1>2. StoreInv /\ [StoreNext]_storeVars => StoreInv'
  BY StoreNextInv
<1>3. StoreInit => Promise!Init
  BY DEF StoreInit, Promise!Init, Offered, Settled, Running, PersistedQueueAssumption
<1>4. StoreInv /\ [StoreNext]_storeVars => [Promise!Next]_(Promise!vars)
  BY StoreStepRefines DEF StoreRefines, Promise!vars, WorkersOn
<1>5. QED BY <1>1, <1>2, <1>3, <1>4, PTL DEF StoreSpec, ImplementsWorkQueue, Promise!Spec
============================================================================

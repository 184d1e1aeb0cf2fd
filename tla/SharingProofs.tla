---------------------------- MODULE SharingProofs ----------------------------
(***************************************************************************)
(* What fibers share: the items of a pool, one build of a layer, one batch of  *)
(* requests, stored results. Each part has an inductive invariant, one lemma   *)
(* for each action that keeps it, and the theorem. The parts have no state in  *)
(* common.                                                                 *)
(***************************************************************************)
EXTENDS Pool, LayerMemo, RequestBatch, PersistedRequests, FiniteSetTheorems, SequenceTheorems,
        NaturalsInduction, WellFoundedInduction, TLAPS

(***************************************************************************)
(* Layers.                                                                 *)
(***************************************************************************)
Observing == {"counted", "created", "awaiting", "building", "ok", "ending"}
Entries == [map : Maps, observers : Nat, exit : {"none", "ok", "failed", "interrupted"},
            resource : {"none", "live", "gone"}, scope : {"open", "closing", "closed"}]
ObserversOf(e) == {u \in Builders : uses[u] = e /\ stage[u] \in Observing}

LayerTypeOK ==
  /\ memo \in Seq(Entries) /\ memoized \in [Maps -> Nat]
  /\ stage \in [Builders -> Observing \cup {"idle", "closing"}] /\ uses \in [Builders -> Nat]

\* A user at work has an entry, and its entry counts it.
Placed == \A u \in Builders : stage[u] # "idle" => uses[u] \in MemoIds
Observed == \A e \in MemoIds : /\ Cardinality(ObserversOf(e)) <= memo[e].observers
                               /\ ~Yields => Cardinality(ObserversOf(e)) = memo[e].observers
\* An entry is open while it is observed, and its map has it then.
OpenIsObserved == \A e \in MemoIds :
  /\ memo[e].scope = "open" <=> memo[e].observers > 0
  /\ memo[e].scope = "open" => memoized[memo[e].map] = e
HadIsOpen == \A m \in Maps : memoized[m] # 0 =>
  memoized[m] \in MemoIds /\ memo[memoized[m]].map = m /\ memo[memoized[m]].scope = "open"
\* What became of the build: one user told it, and the resource is there until
\* the scope is closed.
Told == \A e \in MemoIds : /\ memo[e].exit = "ok" => memo[e].resource # "none"
                           /\ memo[e].resource = "gone" => memo[e].scope = "closed"
                           /\ memo[e].resource = "live" => memo[e].scope # "closed"
ToldOk == \A u \in Builders : stage[u] = "ok" => memo[uses[u]].exit = "ok"
OneBuilder == \A u \in Builders : stage[u] \in {"created", "building"} =>
  /\ memo[uses[u]].exit = "none"
  /\ \A v \in Builders : stage[v] \in {"created", "building"} /\ uses[v] = uses[u] => u = v
OneUnreleased == ~Rebuild => \A e, f \in MemoIds :
  memo[e].scope # "closed" /\ memo[f].scope # "closed" /\ memo[e].map = memo[f].map => e = f

LayerInv == /\ LayerTypeOK /\ Placed /\ Observed /\ OpenIsObserved /\ HadIsOpen
            /\ Told /\ ToldOk /\ OneBuilder /\ OneUnreleased

LEMMA LayerInitInv == ASSUME LayerMemoAssumption PROVE LayerInit => LayerInv
<1> SUFFICES ASSUME LayerInit PROVE LayerInv
  OBVIOUS
<1>1. memo = <<>> /\ MemoIds = {}
  BY DEF LayerInit, MemoIds
<1>2. LayerTypeOK
  BY <1>1 DEF LayerInit, LayerTypeOK
<1>. QED BY <1>1, <1>2 DEF LayerInit, LayerInv, Placed, Observed, OpenIsObserved, HadIsOpen, Told, ToldOk, OneBuilder, OneUnreleased

\* The users of an entry can be counted.
LEMMA CountObservers ==
  ASSUME LayerMemoAssumption, NEW e
  PROVE  IsFiniteSet(ObserversOf(e)) /\ Cardinality(ObserversOf(e)) \in Nat
BY FS_Subset, FS_CardinalityType DEF LayerMemoAssumption, ObserversOf

\* The entry of a user that observes it is open.
LEMMA ObservedIsOpen ==
  ASSUME LayerMemoAssumption, LayerInv, NEW u \in Builders, stage[u] \in Observing
  PROVE  uses[u] \in MemoIds /\ memo[uses[u]].scope = "open" /\ memo[uses[u]].observers > 0
<1>1. uses[u] \in MemoIds
  BY DEF LayerInv, Placed, Observing
<1>2. u \in ObserversOf(uses[u])
  BY DEF ObserversOf
<1>3. Cardinality(ObserversOf(uses[u])) # 0
  BY <1>2, CountObservers, FS_EmptySet
<1>5. memo[uses[u]] \in Entries
  BY <1>1 DEF LayerInv, LayerTypeOK, MemoIds
<1>4. memo[uses[u]].observers \in Nat /\ Cardinality(ObserversOf(uses[u])) <= memo[uses[u]].observers
  BY <1>1, <1>5 DEF LayerInv, Observed, Entries
<1>. QED BY <1>1, <1>3, <1>4, CountObservers DEF LayerInv, OpenIsObserved

LEMMA LayerInvSafe == ASSUME LayerMemoAssumption PROVE LayerInv /\ NoneBelow => LayerSafe
<1> SUFFICES ASSUME LayerInv, NoneBelow PROVE LayerSafe
  OBVIOUS
<1>1. LiveInUse
  <2> SUFFICES ASSUME NEW u \in Builders, stage[u] = "ok" PROVE memo[uses[u]].resource = "live"
    BY DEF LiveInUse
  <2>1. uses[u] \in MemoIds /\ memo[uses[u]].scope = "open"
    BY ObservedIsOpen DEF Observing
  <2>2. memo[uses[u]] \in Entries
    BY <2>1 DEF LayerInv, LayerTypeOK, MemoIds
  <2>. QED BY <2>1, <2>2 DEF LayerInv, Told, ToldOk, Entries
<1>2. ASSUME ~Rebuild PROVE NoDuplicate
  <2> SUFFICES ASSUME NEW m \in Maps
               PROVE  Cardinality({e \in MemoIds : memo[e].map = m /\ memo[e].resource = "live"}) <= 1
    BY DEF NoDuplicate
  <2> DEFINE live == {e \in MemoIds : memo[e].map = m /\ memo[e].resource = "live"}
  <2>1. \A e, f \in live : e = f
    BY <1>2 DEF LayerInv, OneUnreleased, Told
  <2>2. CASE live = {}
    BY <2>2, FS_EmptySet
  <2>3. CASE live # {}
    <3>1. PICK e \in live : TRUE
      BY <2>3
    <3>2. live = {e}
      BY <2>1, <3>1
    <3>3. Cardinality({e}) = 1
      BY FS_Singleton
    <3>. QED BY <3>2, <3>3
  <2>. QED BY <2>2, <2>3
<1>3. ASSUME ~Yields PROVE LayerLeaksNothing
  <2> SUFFICES ASSUME \A u \in Builders : stage[u] = "idle", ~Releasing
               PROVE  (\A m \in Maps : memoized[m] = 0) /\ \A e \in MemoIds : memo[e].resource # "live"
    BY DEF LayerLeaksNothing
  <2>1. ASSUME NEW e \in MemoIds PROVE memo[e].scope = "closed"
    <3>1. ObserversOf(e) = {}
      BY DEF ObserversOf, Observing
    <3>2. memo[e].observers = 0
      BY <1>3, <3>1, FS_EmptySet DEF LayerInv, Observed
    <3>3. memo[e] \in Entries
      BY DEF LayerInv, LayerTypeOK, MemoIds
    <3>. QED BY <3>2, <3>3 DEF LayerInv, OpenIsObserved, Releasing, Entries
  <2>. QED BY <2>1 DEF LayerInv, Told, HadIsOpen
<1>. QED BY <1>1, <1>2, <1>3 DEF LayerSafe

\* What an action leaves of an entry that is none of its business.
LEMMA EntryTyped == ASSUME LayerInv, NEW e \in MemoIds PROVE memo[e] \in Entries /\ e \in Nat \ {0}
BY DEF LayerInv, LayerTypeOK, MemoIds

\* A set of numbers that is not empty has a least one.
LEMMA LeastExists ==
  ASSUME NEW S, S \subseteq Nat, S # {} PROVE \E i \in S : \A j \in S : i <= j
<1> DEFINE R == OpToRel(<, Nat)
<1>1. \A T : T \subseteq Nat /\ T # {} => \E i \in T : \A j \in T : <<j, i>> \notin R
  <2>1. IsWellFoundedOn(R, Nat)
    BY NatLessThanWellFounded
  <2> HIDE DEF R
  <2>. QED BY <2>1, WFMin
<1>2. PICK i \in S : \A j \in S : <<j, i>> \notin R
  BY <1>1
<1>3. \A j \in S : ~(j < i)
  BY <1>2 DEF OpToRel
<1>. QED BY <1>3

\* What a lookup returns is what the map or an ancestor has, and nothing only if
\* the map itself has nothing.
LEMMA FoundIsHad ==
  ASSUME LayerMemoAssumption, NEW m \in Maps
  PROVE  /\ Found(m) # 0 => \E a \in Maps : Found(m) = memoized[a]
         /\ Found(m) = 0 => /\ memoized[m] = 0
                            /\ \A i \in DOMAIN Ancestry[m] : memoized[Ancestry[m][i]] = 0
<1> DEFINE holders == {i \in DOMAIN Ancestry[m] : memoized[Ancestry[m][i]] # 0}
           nearest == CHOOSE i \in holders : \A j \in holders : i <= j
<1>1. Ancestry[m] \in Seq(Maps) /\ Ancestry[m] # <<>> /\ Ancestry[m][1] = m
  BY DEF LayerMemoAssumption
<1>2. CASE holders = {}
  <2>1. 1 \in DOMAIN Ancestry[m]
    BY <1>1
  <2>. QED BY <1>1, <1>2, <2>1 DEF Found
<1>3. CASE holders # {}
  <2>1. holders \subseteq Nat
    BY <1>1
  <2>2. \E i \in holders : \A j \in holders : i <= j
    <3> HIDE DEF holders
    <3>. QED BY <1>3, <2>1, LeastExists
  <2>3. nearest \in holders
    <3> HIDE DEF holders
    <3>. QED BY <2>2
  <2>4. Found(m) = memoized[Ancestry[m][nearest]]
    BY <1>3 DEF Found
  <2> HIDE DEF nearest
  <2>5. Ancestry[m][nearest] \in Maps /\ memoized[Ancestry[m][nearest]] # 0
    BY <1>1, <2>3
  <2>. QED BY <2>4, <2>5
<1>. QED BY <1>2, <1>3

LEMMA FoundIsOpen ==
  ASSUME LayerMemoAssumption, LayerInv, NEW m \in Maps
  PROVE  /\ Found(m) # 0 => Found(m) \in MemoIds /\ memo[Found(m)].scope = "open"
         /\ Found(m) = 0 => memoized[m] = 0
<1>1. \A a \in Maps : memoized[a] # 0 => memoized[a] \in MemoIds /\ memo[memoized[a]].scope = "open"
  BY DEF LayerInv, LayerTypeOK, HadIsOpen
<1>. QED BY <1>1, FoundIsHad


\* One entry is replaced.
LEMMA EntryReplaced ==
  ASSUME LayerInv, NEW e \in MemoIds, NEW r \in Entries, memo' = [memo EXCEPT ![e] = r]
  PROVE  /\ memo' \in Seq(Entries) /\ MemoIds' = MemoIds /\ memo'[e] = r
         /\ \A d \in MemoIds \ {e} : memo'[d] = memo[d]
<1>1. memo \in Seq(Entries) /\ e \in 1 .. Len(memo)
  BY DEF LayerInv, LayerTypeOK, MemoIds
<1>. QED BY <1>1, ExceptSeq DEF MemoIds

LEMMA ReuseInv == ASSUME LayerMemoAssumption, LayerInv, NEW u \in Builders, Reuse(u) PROVE LayerInv'
<1> DEFINE e == Found(MapOf[u])
           r == [memo[e] EXCEPT !.observers = memo[e].observers + 1]
<1>1. MapOf[u] \in Maps
  BY DEF LayerMemoAssumption
<1>2. e # 0 /\ e \in MemoIds /\ memo[e].scope = "open"
  BY <1>1, FoundIsOpen DEF Reuse
<1>3. memo[e] \in Entries /\ r \in Entries
  BY <1>2, EntryTyped DEF Entries
<1>4. /\ memo' = [memo EXCEPT ![e] = r]
      /\ uses' = [uses EXCEPT ![u] = e] /\ stage' = [stage EXCEPT ![u] = "counted"]
      /\ stage[u] = "idle" /\ memoized' = memoized
  BY DEF Reuse, Now, Moves
<1>5. memo' \in Seq(Entries) /\ MemoIds' = MemoIds /\ memo'[e] = r /\ \A d \in MemoIds \ {e} : memo'[d] = memo[d]
  <2> HIDE DEF e, r
  <2>. QED BY <1>2, <1>3, <1>4, EntryReplaced
<1>6. LayerTypeOK'
  BY <1>2, <1>4, <1>5, EntryTyped DEF LayerInv, LayerTypeOK, Observing
<1>7. Placed'
  BY <1>2, <1>4, <1>5 DEF LayerInv, Placed, LayerTypeOK
<1>8. Observed'
  <2> SUFFICES ASSUME NEW d \in MemoIds
               PROVE  /\ Cardinality(ObserversOf(d)') <= memo'[d].observers
                      /\ ~Yields => Cardinality(ObserversOf(d)') = memo'[d].observers
    BY <1>5 DEF Observed
  <2>1. CASE d = e
    <3>1. ObserversOf(d)' = ObserversOf(d) \cup {u} /\ u \notin ObserversOf(d)
      BY <1>4, <2>1 DEF ObserversOf, Observing, LayerInv, LayerTypeOK
    <3>2. Cardinality(ObserversOf(d)') = Cardinality(ObserversOf(d)) + 1
      BY <3>1, CountObservers, FS_AddElement
    <3>3. memo'[d].observers = memo[d].observers + 1
      BY <1>3, <1>5, <2>1 DEF Entries
    <3>. QED BY <3>2, <3>3, <1>3, <2>1, CountObservers DEF LayerInv, Observed, Entries
  <2>2. CASE d # e
    <3>1. ObserversOf(d)' = ObserversOf(d)
      BY <1>4, <2>2 DEF ObserversOf, Observing, LayerInv, LayerTypeOK
    <3>. QED BY <1>5, <2>2, <3>1 DEF LayerInv, Observed
  <2>. QED BY <2>1, <2>2
<1>9. /\ r.scope = memo[e].scope /\ r.map = memo[e].map /\ r.exit = memo[e].exit
      /\ r.resource = memo[e].resource /\ r.observers = memo[e].observers + 1
  BY <1>3 DEF Entries
<1> HIDE DEF r
<1>10. OpenIsObserved'
  BY <1>2, <1>3, <1>4, <1>5, <1>9 DEF LayerInv, OpenIsObserved, Entries
<1>11. HadIsOpen' /\ Told' /\ OneUnreleased'
  BY <1>4, <1>5, <1>9 DEF LayerInv, HadIsOpen, Told, OneUnreleased
<1>12. ToldOk' /\ OneBuilder'
  BY <1>4, <1>5, <1>9 DEF LayerInv, ToldOk, OneBuilder, Placed, LayerTypeOK
<1>. QED BY <1>6, <1>7, <1>8, <1>10, <1>11, <1>12 DEF LayerInv

LEMMA CreateInv == ASSUME LayerMemoAssumption, LayerInv, NEW u \in Builders, Create(u) PROVE LayerInv'
<1> DEFINE m == MapOf[u]
           e == Len(memo) + 1
           r == [map |-> m, observers |-> 1, exit |-> "none", resource |-> "none", scope |-> "open"]
<1>1. m \in Maps /\ memoized[m] = 0
  BY FoundIsOpen DEF LayerMemoAssumption, Create
<1>2. /\ memo' = Append(memo, r) /\ memo \in Seq(Entries) /\ r \in Entries
      /\ stage[u] = "idle" /\ (Rebuild \/ ~Releasing)
  BY <1>1 DEF Create, LayerInv, LayerTypeOK, Entries
<1>3. /\ memo' \in Seq(Entries) /\ Len(memo') = e /\ MemoIds' = MemoIds \cup {e} /\ e \notin MemoIds
      /\ e \in Nat \ {0} /\ memo'[e] = r /\ \A d \in MemoIds : memo'[d] = memo[d]
  BY <1>2 DEF MemoIds
<1>4. /\ uses' = [uses EXCEPT ![u] = e] /\ stage' = [stage EXCEPT ![u] = "created"]
      /\ memoized' = [memoized EXCEPT ![m] = e]
  BY <1>3 DEF Create, Moves
<1>5. LayerTypeOK'
  BY <1>1, <1>3, <1>4 DEF LayerInv, LayerTypeOK, Observing
<1>6. Placed'
  BY <1>3, <1>4 DEF LayerInv, Placed, LayerTypeOK
<1>7. Observed'
  <2> SUFFICES ASSUME NEW d \in MemoIds'
               PROVE  /\ Cardinality(ObserversOf(d)') <= memo'[d].observers
                      /\ ~Yields => Cardinality(ObserversOf(d)') = memo'[d].observers
    BY DEF Observed
  <2>1. CASE d = e
    <3>1. ObserversOf(d)' = {u}
      BY <1>2, <1>3, <1>4, <2>1 DEF ObserversOf, Observing, LayerInv, LayerTypeOK, Placed
    <3>2. Cardinality({u}) = 1
      BY FS_Singleton
    <3>3. memo'[d].observers = 1
      BY <1>3, <2>1
    <3>. QED BY <3>1, <3>2, <3>3
  <2>2. CASE d # e
    <3>1. ObserversOf(d)' = ObserversOf(d) /\ d \in MemoIds
      BY <1>2, <1>3, <1>4, <2>2 DEF ObserversOf, Observing, LayerInv, LayerTypeOK
    <3>. QED BY <1>3, <2>2, <3>1 DEF LayerInv, Observed
  <2>. QED BY <2>1, <2>2
<1>8. OpenIsObserved'
  <2> SUFFICES ASSUME NEW d \in MemoIds'
               PROVE  /\ memo'[d].scope = "open" <=> memo'[d].observers > 0
                      /\ memo'[d].scope = "open" => memoized'[memo'[d].map] = d
    BY DEF OpenIsObserved
  <2>1. CASE d = e
    BY <1>1, <1>3, <1>4, <2>1 DEF LayerInv, LayerTypeOK
  <2>2. CASE d # e
    <3>1. d \in MemoIds /\ memo'[d] = memo[d] /\ d # 0
      BY <1>3, <2>2, EntryTyped
    <3>2. memo[d].scope = "open" => memo[d].map # m
      BY <1>1, <3>1 DEF LayerInv, OpenIsObserved
    <3>. QED BY <1>4, <3>1, <3>2, EntryTyped DEF LayerInv, OpenIsObserved, LayerTypeOK, Entries
  <2>. QED BY <2>1, <2>2
<1>9. HadIsOpen'
  BY <1>1, <1>3, <1>4 DEF LayerInv, HadIsOpen, LayerTypeOK
<1>10. Told'
  BY <1>3 DEF LayerInv, Told
<1>13. ASSUME NEW v \in Builders, v # u
       PROVE  /\ stage'[v] = stage[v] /\ uses'[v] = uses[v]
              /\ stage[v] # "idle" => uses[v] \in MemoIds /\ uses[v] # e /\ memo'[uses[v]] = memo[uses[v]]
  BY <1>3, <1>4, <1>13 DEF LayerInv, Placed, LayerTypeOK
<1>14. stage'[u] = "created" /\ uses'[u] = e /\ memo'[e].exit = "none"
  BY <1>3, <1>4 DEF LayerInv, LayerTypeOK
<1> HIDE DEF e, r
<1>15. ToldOk'
  BY <1>13, <1>14 DEF LayerInv, ToldOk
<1>11. OneBuilder'
  BY <1>13, <1>14 DEF LayerInv, OneBuilder
<1> USE DEF e, r
<1>12. OneUnreleased'
  <2> SUFFICES ASSUME ~Rebuild, NEW d \in MemoIds', NEW f \in MemoIds', d # f, memo'[d].scope # "closed",
                      memo'[f].scope # "closed", memo'[d].map = memo'[f].map
               PROVE  FALSE
    BY DEF OneUnreleased
  <2>1. ASSUME NEW c \in MemoIds, memo[c].map = m PROVE memo[c].scope = "closed"
    BY <1>1, <1>2, <2>1, EntryTyped DEF LayerInv, OpenIsObserved, Releasing, Entries
  <2>. QED BY <1>3, <2>1 DEF LayerInv, OneUnreleased
<1>. QED BY <1>5, <1>6, <1>7, <1>8, <1>9, <1>10, <1>11, <1>12, <1>15 DEF LayerInv

\* A user goes on while the entries keep their maps, observers and scopes.
LEMMA UserGoesOn ==
  ASSUME LayerMemoAssumption, LayerInv, NEW u \in Builders, NEW s \in Observing, stage[u] \in Observing,
         stage' = [stage EXCEPT ![u] = s], UNCHANGED <<uses, memoized>>,
         memo' \in Seq(Entries), MemoIds' = MemoIds,
         \A e \in MemoIds : /\ memo'[e].map = memo[e].map /\ memo'[e].observers = memo[e].observers
                            /\ memo'[e].scope = memo[e].scope
  PROVE  LayerTypeOK' /\ Placed' /\ Observed' /\ OpenIsObserved' /\ HadIsOpen' /\ OneUnreleased'
<1>1. LayerTypeOK'
  BY DEF LayerInv, LayerTypeOK
<1>2. Placed'
  BY DEF LayerInv, Placed, LayerTypeOK, Observing
<1>3. \A e : ObserversOf(e)' = ObserversOf(e)
  BY DEF LayerInv, LayerTypeOK, ObserversOf
<1>4. Observed'
  BY <1>3 DEF LayerInv, Observed
<1>5. OpenIsObserved' /\ HadIsOpen' /\ OneUnreleased'
  BY DEF LayerInv, OpenIsObserved, HadIsOpen, OneUnreleased
<1>. QED BY <1>1, <1>2, <1>4, <1>5

\* Nothing is told and nobody begins to build.
LEMMA UserMoves ==
  ASSUME LayerMemoAssumption, LayerInv, NEW u \in Builders, NEW s \in Observing, stage[u] \in Observing,
         Moves(u, s), UNCHANGED <<memo, memoized, uses>>,
         s = "ok" => memo[uses[u]].exit = "ok", s = "building" => stage[u] = "created",
         s # "created"
  PROVE  LayerInv'
<1>1. MemoIds' = MemoIds /\ memo' \in Seq(Entries) /\ stage' = [stage EXCEPT ![u] = s]
  BY DEF MemoIds, LayerInv, LayerTypeOK, Moves
<1>2. LayerTypeOK' /\ Placed' /\ Observed' /\ OpenIsObserved' /\ HadIsOpen' /\ OneUnreleased'
  BY <1>1, UserGoesOn
<1>3. Told'
  BY <1>1 DEF LayerInv, Told
<1>4. ToldOk' /\ OneBuilder'
  BY <1>1 DEF LayerInv, ToldOk, OneBuilder, LayerTypeOK
<1>. QED BY <1>2, <1>3, <1>4 DEF LayerInv

LEMMA AcquireInv == ASSUME LayerMemoAssumption, LayerInv, NEW u \in Builders, AcquireLayer(u) PROVE LayerInv'
<1> DEFINE e == uses[u]
           r == [memo[e] EXCEPT !.resource = "live"]
<1>1. stage[u] = "building" /\ e \in MemoIds /\ memo[e].scope = "open"
  BY ObservedIsOpen DEF AcquireLayer, Observing
<1>2. memo[e] \in Entries /\ r \in Entries
  BY <1>1, EntryTyped DEF Entries
<1>3. memo' = [memo EXCEPT ![e] = r] /\ UNCHANGED <<memoized, stage, uses>>
  BY DEF AcquireLayer, Now
<1>4. memo' \in Seq(Entries) /\ MemoIds' = MemoIds /\ memo'[e] = r /\ \A d \in MemoIds \ {e} : memo'[d] = memo[d]
  <2> HIDE DEF e, r
  <2>. QED BY <1>1, <1>2, <1>3, EntryReplaced
<1>5. /\ r.map = memo[e].map /\ r.observers = memo[e].observers /\ r.scope = "open"
      /\ r.exit = memo[e].exit /\ r.resource = "live"
  BY <1>1, <1>2 DEF Entries
<1>6. stage' = [stage EXCEPT ![u] = "building"]
  BY <1>1, <1>3 DEF LayerInv, LayerTypeOK
<1> HIDE DEF e, r
<1>9. \A d \in MemoIds : /\ memo'[d].map = memo[d].map /\ memo'[d].observers = memo[d].observers
                         /\ memo'[d].scope = memo[d].scope
  BY <1>1, <1>4, <1>5
<1>7. LayerTypeOK' /\ Placed' /\ Observed' /\ OpenIsObserved' /\ HadIsOpen' /\ OneUnreleased'
  <2>1. "building" \in Observing /\ stage[u] \in Observing /\ UNCHANGED <<uses, memoized>>
    BY <1>1, <1>3 DEF Observing
  <2>. QED BY <1>4, <1>6, <1>9, <2>1, UserGoesOn
<1>8. Told' /\ ToldOk' /\ OneBuilder'
  BY <1>1, <1>3, <1>4, <1>5, ObservedIsOpen DEF LayerInv, Told, ToldOk, OneBuilder, Placed, Observing
<1>. QED BY <1>7, <1>8 DEF LayerInv

LEMMA BuiltInv ==
  ASSUME LayerMemoAssumption, LayerInv, NEW u \in Builders,
         NEW exit \in {"ok", "failed", "interrupted"}, Built(u, exit)
  PROVE  LayerInv'
<1> DEFINE e == uses[u]
           r == [memo[e] EXCEPT !.exit = exit]
           s == IF exit = "ok" THEN "ok" ELSE "ending"
<1>1. stage[u] = "building" /\ e \in MemoIds /\ memo[e].scope = "open" /\ (exit = "ok" => memo[e].resource = "live")
  BY ObservedIsOpen DEF Built, Observing
<1>2. memo[e] \in Entries /\ r \in Entries
  BY <1>1, EntryTyped DEF Entries
<1>3. memo' = [memo EXCEPT ![e] = r] /\ stage' = [stage EXCEPT ![u] = s] /\ UNCHANGED <<memoized, uses>>
  BY DEF Built, Tell, Now, Moves
<1>4. memo' \in Seq(Entries) /\ MemoIds' = MemoIds /\ memo'[e] = r /\ \A d \in MemoIds \ {e} : memo'[d] = memo[d]
  <2> HIDE DEF e, r
  <2>. QED BY <1>1, <1>2, <1>3, EntryReplaced
<1>5. /\ r.map = memo[e].map /\ r.observers = memo[e].observers /\ r.scope = memo[e].scope
      /\ r.exit = exit /\ r.resource = memo[e].resource
  BY <1>2 DEF Entries
<1> HIDE DEF e, r
<1>6. LayerTypeOK' /\ Placed' /\ Observed' /\ OpenIsObserved' /\ HadIsOpen' /\ OneUnreleased'
  BY <1>1, <1>3, <1>4, <1>5, UserGoesOn DEF Observing
<1>7. Told'
  BY <1>1, <1>4, <1>5 DEF LayerInv, Told
<1>8. OneBuilder'
  BY <1>1, <1>3, <1>4 DEF LayerInv, OneBuilder, Placed, LayerTypeOK, e
<1>9. ASSUME NEW v \in Builders, stage'[v] = "ok" PROVE memo'[uses'[v]].exit = "ok"
  <2>1. CASE v = u
    BY <1>3, <1>4, <1>5, <1>9, <2>1 DEF LayerInv, LayerTypeOK, e
  <2>2. CASE v # u
    <3>1. stage[v] = "ok" /\ uses[v] \in MemoIds /\ memo[uses[v]].exit = "ok"
      BY <1>3, <1>9, <2>2 DEF LayerInv, LayerTypeOK, Placed, ToldOk
    <3>2. memo[e].exit = "none"
      BY <1>1 DEF LayerInv, OneBuilder, e
    <3>. QED BY <1>3, <1>4, <3>1, <3>2
  <2>. QED BY <2>1, <2>2
<1>. QED BY <1>6, <1>7, <1>8, <1>9 DEF LayerInv, ToldOk

LEMMA GiveUpInv ==
  ASSUME LayerMemoAssumption, LayerInv, NEW u \in Builders, InterruptBuild(u)
  PROVE  LayerInv'
<1>1. CASE Built(u, "interrupted")
  BY <1>1, BuiltInv
<1>2. CASE stage[u] = "awaiting" /\ Moves(u, "ending") /\ UNCHANGED <<memo, memoized, uses>>
  BY <1>2, UserMoves DEF Observing
<1>3. CASE /\ Yields /\ stage[u] \in {"counted", "created"} /\ Moves(u, "idle")
           /\ uses' = [uses EXCEPT ![u] = 0] /\ UNCHANGED <<memo, memoized>>
  <2>1. stage' = [stage EXCEPT ![u] = "idle"] /\ MemoIds' = MemoIds
    BY <1>3 DEF Moves, MemoIds
  <2>2. LayerTypeOK' /\ Placed' /\ ToldOk' /\ OneBuilder'
    BY <1>3, <2>1 DEF LayerInv, LayerTypeOK, Placed, ToldOk, OneBuilder
  <2>3. ASSUME NEW e \in MemoIds PROVE Cardinality(ObserversOf(e)') <= memo[e].observers
    <3>1. ObserversOf(e)' \subseteq ObserversOf(e)
      BY <1>3, <2>1, <2>3, EntryTyped DEF ObserversOf, LayerInv, LayerTypeOK, Observing
    <3>2. Cardinality(ObserversOf(e)') <= Cardinality(ObserversOf(e)) /\ Cardinality(ObserversOf(e)') \in Nat
      BY <3>1, CountObservers, FS_Subset, FS_CardinalityType
    <3>. QED BY <2>3, <3>2, CountObservers, EntryTyped DEF LayerInv, Observed, Entries
  <2>4. Observed'
    BY <1>3, <2>1, <2>3 DEF Observed
  <2>5. OpenIsObserved' /\ HadIsOpen' /\ Told' /\ OneUnreleased'
    BY <1>3, <2>1 DEF LayerInv, OpenIsObserved, HadIsOpen, Told, OneUnreleased
  <2>. QED BY <2>2, <2>4, <2>5 DEF LayerInv
<1>. QED BY <1>1, <1>2, <1>3 DEF InterruptBuild

LEMMA ReleaseLayerInv ==
  ASSUME LayerMemoAssumption, LayerInv, NEW u \in Builders, ReleaseLayer(u)
  PROVE  LayerInv'
<1> DEFINE e == uses[u]
           last == memo[e].observers = 1
           r == [memo[e] EXCEPT !.observers = memo[e].observers - 1,
                                !.scope = IF last THEN "closing" ELSE memo[e].scope]
<1>1. stage[u] = "ending" /\ e \in MemoIds /\ memo[e].scope = "open" /\ memo[e].observers > 0
  BY ObservedIsOpen DEF ReleaseLayer, Observing
<1>2. memo[e] \in Entries /\ r \in Entries
  <2>1. memo[e] \in Entries /\ memo[e].observers - 1 \in Nat
    BY <1>1, EntryTyped DEF Entries
  <2>. QED BY <2>1 DEF Entries
<1>3. /\ memo' = [memo EXCEPT ![e] = r] /\ stage' = [stage EXCEPT ![u] = "closing"] /\ uses' = uses
      /\ memoized' = [m \in Maps |-> IF last /\ memoized[m] = e THEN 0 ELSE memoized[m]]
  BY <1>2 DEF ReleaseLayer, Moves, Entries
<1>4. memo' \in Seq(Entries) /\ MemoIds' = MemoIds /\ memo'[e] = r /\ \A d \in MemoIds \ {e} : memo'[d] = memo[d]
  <2> HIDE DEF e, r
  <2>. QED BY <1>1, <1>2, <1>3, EntryReplaced
<1>5. /\ r.map = memo[e].map /\ r.observers = memo[e].observers - 1
      /\ r.scope = IF last THEN "closing" ELSE "open"
      /\ r.exit = memo[e].exit /\ r.resource = memo[e].resource
  BY <1>1, <1>2 DEF Entries
<1>6. memo[e].observers \in Nat \ {0} /\ e \in Nat \ {0}
  BY <1>1, <1>2, EntryTyped DEF Entries
<1> HIDE DEF r
<1>7. LayerTypeOK' /\ Placed'
  BY <1>1, <1>3, <1>4 DEF LayerInv, LayerTypeOK, Placed
<1>8. Observed'
  <2> SUFFICES ASSUME NEW d \in MemoIds
               PROVE  /\ Cardinality(ObserversOf(d)') <= memo'[d].observers
                      /\ ~Yields => Cardinality(ObserversOf(d)') = memo'[d].observers
    BY <1>4 DEF Observed
  <2>1. CASE d = e
    <3>1. ObserversOf(d)' = ObserversOf(d) \ {u} /\ u \in ObserversOf(d)
      BY <1>1, <1>3, <2>1 DEF ObserversOf, Observing, LayerInv, LayerTypeOK
    <3>2. Cardinality(ObserversOf(d)') = Cardinality(ObserversOf(d)) - 1
      BY <3>1, CountObservers, FS_RemoveElement
    <3>3. memo'[d].observers = memo[d].observers - 1
      BY <1>4, <1>5, <2>1
    <3>. QED BY <3>2, <3>3, <1>6, <2>1, CountObservers DEF LayerInv, Observed
  <2>2. CASE d # e
    <3>1. ObserversOf(d)' = ObserversOf(d)
      BY <1>3, <2>2 DEF ObserversOf, LayerInv, LayerTypeOK
    <3>. QED BY <1>4, <2>2, <3>1 DEF LayerInv, Observed
  <2>. QED BY <2>1, <2>2
<1>9. OpenIsObserved'
  <2> SUFFICES ASSUME NEW d \in MemoIds
               PROVE  /\ memo'[d].scope = "open" <=> memo'[d].observers > 0
                      /\ memo'[d].scope = "open" => memoized'[memo'[d].map] = d
    BY <1>4 DEF OpenIsObserved
  <2>1. memo[d].map \in Maps
    BY EntryTyped DEF Entries
  <2>2. CASE d = e
    BY <1>1, <1>3, <1>4, <1>5, <1>6, <2>1, <2>2 DEF LayerInv, OpenIsObserved
  <2>3. CASE d # e
    BY <1>3, <1>4, <2>1, <2>3 DEF LayerInv, OpenIsObserved
  <2>. QED BY <2>2, <2>3
<1>10. HadIsOpen'
  <2> SUFFICES ASSUME NEW m \in Maps, memoized'[m] # 0
               PROVE  memoized'[m] \in MemoIds /\ memo'[memoized'[m]].map = m /\ memo'[memoized'[m]].scope = "open"
    BY <1>4 DEF HadIsOpen
  <2>1. memoized'[m] = memoized[m] /\ (last => memoized[m] # e)
    BY <1>3
  <2>. QED BY <1>4, <1>5, <2>1 DEF LayerInv, HadIsOpen
<1>11. Told' /\ OneUnreleased'
  BY <1>1, <1>4, <1>5, ObservedIsOpen DEF LayerInv, Told, OneUnreleased
<1>12. ToldOk' /\ OneBuilder'
  BY <1>1, <1>3, <1>4, <1>5 DEF LayerInv, ToldOk, OneBuilder, LayerTypeOK, Placed
<1>. QED BY <1>7, <1>8, <1>9, <1>10, <1>11, <1>12 DEF LayerInv

LEMMA ScopeClosedInv ==
  ASSUME LayerMemoAssumption, LayerInv, NEW e \in MemoIds, ScopeClosed(e)
  PROVE  LayerInv'
<1> DEFINE r == [memo[e] EXCEPT !.scope = "closed",
                                !.resource = IF memo[e].resource = "live" THEN "gone" ELSE memo[e].resource]
<1>1. memo[e] \in Entries /\ r \in Entries /\ memo[e].scope = "closing"
  BY EntryTyped DEF Entries, ScopeClosed
<1>2. memo' = [memo EXCEPT ![e] = r] /\ UNCHANGED <<memoized, stage, uses>>
  BY DEF ScopeClosed, Dispose
<1>3. memo' \in Seq(Entries) /\ MemoIds' = MemoIds /\ memo'[e] = r /\ \A d \in MemoIds \ {e} : memo'[d] = memo[d]
  <2> HIDE DEF r
  <2>. QED BY <1>1, <1>2, EntryReplaced
<1>4. /\ r.map = memo[e].map /\ r.observers = memo[e].observers /\ r.scope = "closed" /\ r.exit = memo[e].exit
      /\ r.resource = IF memo[e].resource = "live" THEN "gone" ELSE memo[e].resource
  BY <1>1 DEF Entries
<1>5. ASSUME NEW u \in Builders, stage[u] \in Observing PROVE uses[u] # e
  BY <1>1, <1>5, ObservedIsOpen
<1> HIDE DEF r
<1>6. LayerTypeOK' /\ Placed'
  BY <1>2, <1>3 DEF LayerInv, LayerTypeOK, Placed
<1>7. \A d : ObserversOf(d)' = ObserversOf(d)
  BY <1>2 DEF ObserversOf
<1>8. Observed'
  BY <1>3, <1>4, <1>7 DEF LayerInv, Observed
<1>9. OpenIsObserved' /\ HadIsOpen'
  BY <1>1, <1>2, <1>3, <1>4 DEF LayerInv, OpenIsObserved, HadIsOpen
<1>12. Told'
  BY <1>1, <1>3, <1>4 DEF LayerInv, Told, Entries
<1>10. OneUnreleased'
  BY <1>1, <1>3, <1>4 DEF LayerInv, OneUnreleased
<1>11. ToldOk' /\ OneBuilder'
  BY <1>2, <1>3, <1>4, <1>5 DEF LayerInv, ToldOk, OneBuilder, Placed, Observing
<1>. QED BY <1>6, <1>8, <1>9, <1>10, <1>11, <1>12 DEF LayerInv

LEMMA EndedInv == ASSUME LayerMemoAssumption, LayerInv, NEW u \in Builders, Ended(u) PROVE LayerInv'
<1>1. /\ stage[u] = "closing" /\ stage' = [stage EXCEPT ![u] = "idle"] /\ uses' = [uses EXCEPT ![u] = 0]
      /\ UNCHANGED <<memo, memoized>> /\ MemoIds' = MemoIds
  BY DEF Ended, Moves, MemoIds
<1>2. LayerTypeOK' /\ Placed' /\ ToldOk' /\ OneBuilder'
  BY <1>1 DEF LayerInv, LayerTypeOK, Placed, ToldOk, OneBuilder
<1>3. \A e \in MemoIds : ObserversOf(e)' = ObserversOf(e)
  BY <1>1, EntryTyped DEF ObserversOf, LayerInv, LayerTypeOK, Observing
<1>4. Observed'
  BY <1>1, <1>3 DEF LayerInv, Observed
<1>5. OpenIsObserved' /\ HadIsOpen' /\ Told' /\ OneUnreleased'
  BY <1>1 DEF LayerInv, OpenIsObserved, HadIsOpen, Told, OneUnreleased
<1>. QED BY <1>2, <1>4, <1>5 DEF LayerInv

\* Only a new entry is opened.
LEMMA NothingOpens ==
  ASSUME LayerInv, [LayerNext]_layerVars, \A u \in Builders : ~Create(u)
  PROVE  /\ MemoIds' = MemoIds
         /\ \A e \in MemoIds :
               memo'[e].map = memo[e].map /\ (memo'[e].scope = "open" => memo[e].scope = "open")
<1> DEFINE Kept == MemoIds' = MemoIds /\ \A e \in MemoIds :
                     memo'[e].map = memo[e].map /\ (memo'[e].scope = "open" => memo[e].scope = "open")
<1>1. memo \in Seq(Entries)
  BY DEF LayerInv, LayerTypeOK
<1>2. ASSUME UNCHANGED memo PROVE Kept
  BY <1>2 DEF MemoIds
<1>3. ASSUME NEW u \in Builders, Reuse(u) PROVE Kept
  BY <1>1, <1>3 DEF Reuse, Now, MemoIds, Entries
<1>8. ASSUME NEW u \in Builders, NEW exit \in {"ok", "failed", "interrupted"}, Built(u, exit) PROVE Kept
  <2>1. memo' = [memo EXCEPT ![uses[u]].exit = exit]
    BY <1>8 DEF Built, Tell, Now
  <2>. QED BY <1>1, <2>1 DEF MemoIds, Entries
<1>4. ASSUME NEW u \in Builders, Builds(u) PROVE Kept
  <2>1. CASE Register(u) \/ Answered(u) \/ Ended(u)
    BY <1>2, <2>1 DEF Register, Answered, Ended
  <2>2. CASE AcquireLayer(u)
    BY <1>1, <2>2 DEF AcquireLayer, Now, MemoIds, Entries
  <2>3. CASE Built(u, "ok") \/ Built(u, "failed")
    BY <1>8, <2>3
  <2>4. CASE ReleaseLayer(u)
    BY <1>1, <2>4 DEF ReleaseLayer, MemoIds, Entries
  <2>. QED BY <1>4, <2>1, <2>2, <2>3, <2>4 DEF Builds
<1>5. ASSUME NEW u \in Builders, InterruptBuild(u) \/ CloseLayer(u) PROVE Kept
  <2>1. CASE Built(u, "interrupted")
    BY <1>8, <2>1
  <2>2. CASE UNCHANGED memo
    BY <1>2, <2>2
  <2>. QED BY <1>5, <2>1, <2>2 DEF InterruptBuild, CloseLayer
<1>6. ASSUME NEW e \in MemoIds, ScopeClosed(e) PROVE Kept
  BY <1>1, <1>6 DEF ScopeClosed, Dispose, MemoIds, Entries
<1>7. CASE LayerOver \/ UNCHANGED layerVars
  BY <1>2, <1>7 DEF LayerOver, layerVars
<1>. QED BY <1>3, <1>4, <1>5, <1>6, <1>7 DEF LayerNext, LayerStep

LEMMA NoneBelowInv ==
  ASSUME LayerMemoAssumption, LayerInv, NoneBelow, [LayerNext]_layerVars PROVE NoneBelow'
<1>1. CASE \A u \in Builders : ~Create(u)
  <2>1. /\ MemoIds' = MemoIds
        /\ \A e \in MemoIds :
              memo'[e].map = memo[e].map /\ (memo'[e].scope = "open" => memo[e].scope = "open")
    BY <1>1, NothingOpens
  <2>. QED BY <2>1 DEF NoneBelow
<1>2. ASSUME NEW u \in Builders, Create(u) PROVE NoneBelow'
  <2> DEFINE m == MapOf[u]
             n == Len(memo) + 1
             r == [map |-> m, observers |-> 1, exit |-> "none", resource |-> "none", scope |-> "open"]
  <2>1. m \in Maps /\ Found(m) = 0 /\ memo' = Append(memo, r) /\ memo \in Seq(Entries)
    BY <1>2 DEF Create, LayerMemoAssumption, LayerInv, LayerTypeOK
  <2>2. /\ MemoIds' = MemoIds \cup {n} /\ n \notin MemoIds /\ MemoIds \subseteq Nat /\ \A e \in MemoIds : e < n
        /\ memo'[n] = r /\ \A e \in MemoIds : memo'[e] = memo[e]
    BY <2>1 DEF MemoIds
  <2>3. \A i \in DOMAIN Ancestry[m] : memoized[Ancestry[m][i]] = 0
    BY <2>1, FoundIsHad
  <2>4. ASSUME NEW d \in MemoIds, memo[d].scope = "open", NEW i \in 2 .. Len(Ancestry[m])
        PROVE  Ancestry[m][i] # memo[d].map
    <3>1. i \in DOMAIN Ancestry[m]
      BY <2>1 DEF LayerMemoAssumption
    <3>2. memoized[memo[d].map] = d /\ d # 0
      BY <2>4, EntryTyped DEF LayerInv, OpenIsObserved
    <3>. QED BY <2>3, <3>1, <3>2
  <2> SUFFICES ASSUME NEW d \in MemoIds', NEW e \in MemoIds',
                      memo'[d].scope = "open", memo'[e].scope = "open", d < e,
                      NEW i \in 2 .. Len(Ancestry[memo'[e].map])
               PROVE  Ancestry[memo'[e].map][i] # memo'[d].map
    BY DEF NoneBelow
  <2>5. CASE e = n
    <3>1. d \in MemoIds /\ memo'[d] = memo[d] /\ memo'[e].map = m
      BY <2>2, <2>5
    <3>. QED BY <2>4, <3>1
  <2>6. CASE e # n
    <3>1. d \in MemoIds /\ e \in MemoIds
      BY <2>2, <2>6
    <3>. QED BY <2>2, <3>1 DEF NoneBelow
  <2>. QED BY <2>5, <2>6
<1>. QED BY <1>1, <1>2

LEMMA LayerNextInv == ASSUME LayerMemoAssumption PROVE LayerInv /\ [LayerNext]_layerVars => LayerInv'
<1> SUFFICES ASSUME LayerInv, [LayerNext]_layerVars PROVE LayerInv'
  OBVIOUS
<1>1. ASSUME NEW u \in Builders, Reuse(u) \/ Create(u) PROVE LayerInv'
  BY <1>1, ReuseInv, CreateInv
<1>2. ASSUME NEW u \in Builders, Builds(u) PROVE LayerInv'
  <2>1. CASE Register(u)
    BY <2>1, UserMoves DEF Register, Observing
  <2>2. CASE AcquireLayer(u)
    BY <2>2, AcquireInv
  <2>3. CASE Built(u, "ok") \/ Built(u, "failed")
    BY <2>3, BuiltInv
  <2>4. CASE Answered(u)
    BY <2>4, UserMoves DEF Answered, Observing
  <2>5. CASE ReleaseLayer(u)
    BY <2>5, ReleaseLayerInv
  <2>6. CASE Ended(u)
    BY <2>6, EndedInv
  <2>. QED BY <1>2, <2>1, <2>2, <2>3, <2>4, <2>5, <2>6 DEF Builds
<1>3. ASSUME NEW u \in Builders, InterruptBuild(u) \/ CloseLayer(u) PROVE LayerInv'
  BY <1>3, GiveUpInv, UserMoves DEF CloseLayer, Observing
<1>4. ASSUME NEW e \in MemoIds, ScopeClosed(e) PROVE LayerInv'
  BY <1>4, ScopeClosedInv
<1>5. CASE UNCHANGED layerVars
  <2>1. UNCHANGED <<memo, memoized, stage, uses>> /\ MemoIds' = MemoIds
    BY <1>5 DEF layerVars, MemoIds
  <2>2. \A e : ObserversOf(e)' = ObserversOf(e)
    BY <2>1 DEF ObserversOf
  <2>. QED BY <2>1, <2>2 DEF LayerInv, LayerTypeOK, Placed, Observed, OpenIsObserved, HadIsOpen, Told, ToldOk, OneBuilder, OneUnreleased
<1>. QED BY <1>1, <1>2, <1>3, <1>4, <1>5 DEF LayerNext, LayerStep, LayerOver

\* A layer that somebody uses is live, no map builds beside an instance that one of
\* its ancestors has already, a map has no two of its resources at once
\* unless it is built again, and when nobody is left neither is anything of it,
\* unless a build may be interrupted where it yields (Layer.ts:315-420).
THEOREM LayersAreShared == ASSUME LayerMemoAssumption PROVE LayerSpec => []LayerSafe
<1>1. LayerInit => LayerInv /\ NoneBelow
  BY LayerInitInv DEF LayerInit, NoneBelow, MemoIds
<1>2. LayerInv /\ NoneBelow /\ [LayerNext]_layerVars => (LayerInv /\ NoneBelow)'
  BY LayerNextInv, NoneBelowInv
<1>3. LayerInv /\ NoneBelow => LayerSafe
  BY LayerInvSafe
<1>. QED BY <1>1, <1>2, <1>3, PTL DEF LayerSpec

(***************************************************************************)
(* Pools.                                                                  *)
(***************************************************************************)
Items == [ok : BOOLEAN, refCount : Nat, open : BOOLEAN, disableReclaim : BOOLEAN]
ItemIds == DOMAIN item
Active == pool.items \ pool.invalidated
HoldersOf(i) == {u \in Borrowers : borrower[u].of = i}

PoolTypeOK ==
  /\ item \in Seq(Items)
  /\ pool \in [items : SUBSET ItemIds, available : SUBSET ItemIds, invalidated : SUBSET ItemIds]
  /\ borrower \in [Borrowers -> [at : {"idle", "queued", "loop", "latched", "holding", "defect"}, of : Nat]]
  /\ resizers \in Nat /\ resizing \in [on : BOOLEAN, allocs : Nat, failed : BOOLEAN]
  /\ latch \in BOOLEAN /\ flush \in BOOLEAN
  /\ phase \in {"open", "closing", "shutting", "draining", "closed"} /\ visited \in SUBSET ItemIds

\* Who holds an item holds one that is in the pool, and nobody has met a defect.
Held == \A u \in Borrowers :
  /\ borrower[u].at = "holding" => borrower[u].of \in pool.items /\ item[borrower[u].of].ok
  /\ borrower[u].at # "holding" => borrower[u].of = 0
\* An item that was acquired is open as long as it is in the pool.
OpenInPool == \A i \in ItemIds : item[i].open <=> i \in pool.items /\ item[i].ok
\* A resize allocates what is missing and no more.
Room == activeSize + resizing.allocs <= MaxSize /\ (~resizing.on => resizing.allocs = 0)
\* A pool that closes is not resized, and a shutdown has dealt with what it visited.
Closing == /\ phase # "open" => resizers = 0 /\ ~resizing.on
           /\ phase \in {"open", "closing"} => visited = {}
           /\ \A i \in visited \cap pool.items : i \in pool.invalidated /\ item[i].refCount > 0
           /\ phase \in {"draining", "closed"} => pool.items \subseteq visited

PoolInv == PoolTypeOK /\ Consistent /\ NoDefect /\ Held /\ OpenInPool /\ Room /\ Closing

LEMMA PoolInitInv == ASSUME PoolAssumption PROVE PoolInit => PoolInv
<1> SUFFICES ASSUME PoolInit PROVE PoolInv
  OBVIOUS
<1>1. item = <<>> /\ ItemIds = {}
  BY DEF PoolInit, ItemIds
<1>2. PoolTypeOK
  <2>1. item \in Seq(Items)
    BY <1>1
  <2>2. pool \in [items : SUBSET ItemIds, available : SUBSET ItemIds, invalidated : SUBSET ItemIds]
    BY <1>1 DEF PoolInit
  <2>. QED BY <2>1, <2>2 DEF PoolInit, PoolTypeOK, Still
<1>3. activeSize = 0
  BY FS_EmptySet DEF PoolInit, activeSize
<1>4. Consistent /\ NoDefect /\ Held /\ OpenInPool /\ Closing
  BY <1>1 DEF PoolInit, Consistent, NoDefect, Held, OpenInPool, Closing, At, isShuttingDown, Still, ItemIds
<1>5. Room
  BY <1>3 DEF PoolInit, Room, Still, PoolAssumption
<1>. QED BY <1>2, <1>4, <1>5 DEF PoolInv

--------------------------------------------------------------------------
(* Counting.                                                               *)

LEMMA FiniteHolders == ASSUME PoolAssumption, NEW i
                       PROVE  IsFiniteSet(HoldersOf(i)) /\ Cardinality(HoldersOf(i)) \in Nat
BY FS_Subset, FS_CardinalityType DEF PoolAssumption, HoldersOf

LEMMA FiniteAt == ASSUME PoolAssumption, NEW p
                  PROVE  IsFiniteSet(At(p)) /\ Cardinality(At(p)) \in Nat
BY FS_Subset, FS_CardinalityType DEF PoolAssumption, At

LEMMA FiniteItems ==
  ASSUME NEW s \in Seq(Items), NEW S \in SUBSET DOMAIN s
  PROVE  IsFiniteSet(S) /\ Cardinality(S) \in Nat
<1>1. DOMAIN s = 1 .. Len(s) /\ Len(s) \in Nat
  OBVIOUS
<1>2. IsFiniteSet(DOMAIN s)
  BY <1>1, FS_Interval
<1>. QED BY <1>2, FS_Subset, FS_CardinalityType

LEMMA CountRest ==
  ASSUME NEW S, NEW T \in SUBSET S, IsFiniteSet(S)
  PROVE  /\ IsFiniteSet(S \ T) /\ Cardinality(S \ T) = Cardinality(S) - Cardinality(T)
         /\ Cardinality(S \ T) \in Nat
<1>1. S \cap T = T /\ IsFiniteSet(S \ T)
  BY FS_Subset
<1>. QED BY <1>1, FS_Difference, FS_CardinalityType

\* The active size counts the active items.
LEMMA ActiveCounts ==
  ASSUME PoolTypeOK, pool.invalidated \subseteq pool.items
  PROVE  activeSize = Cardinality(Active) /\ activeSize \in Nat /\ IsFiniteSet(Active)
<1>1. IsFiniteSet(pool.items)
  BY FiniteItems DEF PoolTypeOK, ItemIds
<1>. QED BY <1>1, CountRest DEF activeSize, Active

\* With fewer active items the active size is less.
LEMMA FewerActive ==
  ASSUME PoolTypeOK, PoolTypeOK', pool.invalidated \subseteq pool.items,
         pool'.invalidated \subseteq pool'.items, Active' \subseteq Active
  PROVE  activeSize' \in Nat /\ activeSize' <= activeSize
<1>1. IsFiniteSet(pool'.items)
  BY FiniteItems DEF PoolTypeOK, ItemIds
<1>2. activeSize' = Cardinality(Active') /\ activeSize' \in Nat
  BY <1>1, CountRest DEF activeSize, Active
<1>. QED BY <1>2, ActiveCounts, FS_Subset

\* Users who hold C of each of the things S are at least C times as many.
LEMMA HoldersMultiply ==
  ASSUME NEW U, IsFiniteSet(U), NEW S, IsFiniteSet(S), NEW C \in Nat, NEW H,
         H \in [S -> SUBSET U], \A i, j \in S : i # j => H[i] \cap H[j] = {},
         \A i \in S : Cardinality(H[i]) = C
  PROVE  C * Cardinality(S) <= Cardinality(U)
<1> DEFINE b == [i \in S |-> CHOOSE f : f \in Bijection(1 .. C, H[i])]
           g == [p \in S \X (1 .. C) |-> b[p[1]][p[2]]]
<1>1. ASSUME NEW i \in S PROVE b[i] \in Bijection(1 .. C, H[i])
  <2>1. IsFiniteSet(H[i])
    BY FS_Subset
  <2>2. ExistsBijection(1 .. C, H[i])
    BY <2>1, FS_CardinalityType
  <2>. QED BY <2>2 DEF ExistsBijection
<1> HIDE DEF b
<1>2. ASSUME NEW p \in S \X (1 .. C) PROVE g[p] \in H[p[1]]
  <2>1. p[1] \in S /\ p[2] \in 1 .. C
    OBVIOUS
  <2>. QED BY <1>1, <2>1 DEF Bijection, Injection, Surjection
<1>3. g \in [S \X (1 .. C) -> U]
  BY <1>2
<1>4. ASSUME NEW p \in S \X (1 .. C), NEW q \in S \X (1 .. C), g[p] = g[q] PROVE p = q
  <2>1. p[1] = q[1]
    BY <1>2, <1>4
  <2>2. b[p[1]] \in Injection(1 .. C, H[p[1]]) /\ p[1] \in S /\ p[2] \in 1 .. C /\ q[2] \in 1 .. C
    BY <1>1 DEF Bijection
  <2>3. b[p[1]][p[2]] = b[p[1]][q[2]]
    BY <1>4, <2>1
  <2>4. p[2] = q[2]
    BY <2>2, <2>3 DEF Injection, IsInjective
  <2>. QED BY <2>1, <2>4
<1>5. g \in Injection(S \X (1 .. C), U)
  BY <1>3, <1>4 DEF Injection, IsInjective
<1>6. Cardinality(S \X (1 .. C)) <= Cardinality(U)
  BY <1>5, FS_Injection
<1>7. IsFiniteSet(1 .. C) /\ Cardinality(1 .. C) = C
  BY FS_Interval
<1>8. Cardinality(S \X (1 .. C)) = Cardinality(S) * Cardinality(1 .. C)
  BY <1>7, FS_Product
<1>9. Cardinality(S) \in Nat
  BY FS_CardinalityType
<1>. QED BY <1>6, <1>7, <1>8, <1>9

LEMMA CeilDivType == ASSUME NEW a \in Nat, NEW b \in Nat \ {0} PROVE CeilDiv(a, b) \in Nat
BY DEF CeilDiv

\* More than q times b makes more than q parts of b, the last one begun.
LEMMA CeilDivExceeds ==
  ASSUME NEW a \in Nat, NEW b \in Nat \ {0}, NEW q \in Nat, a > q * b
  PROVE  CeilDiv(a, b) >= q + 1
<1> DEFINE d == (a + b - 1) \div b
<1>1. d \in Nat /\ a + b - 1 = b * d + ((a + b - 1) % b) /\ ((a + b - 1) % b) \in 0 .. (b - 1)
  OBVIOUS
<1>2. b * d + (b - 1) >= a + b - 1
  BY <1>1
<1>3. b * d > q * b
  BY <1>1, <1>2
<1>4. ASSUME d <= q PROVE FALSE
  <2>1. b * d <= b * q
    BY <1>1, <1>4
  <2>. QED BY <1>3, <2>1
<1>. QED BY <1>1, <1>4 DEF CeilDiv

\* A size is enough only if it can hold everybody who wants an item.
LEMMA EnoughItems ==
  ASSUME PoolAssumption, NEW n \in Nat, NEW usage \in Nat, usage > Concurrency * n
  PROVE  CeilDiv(10 * usage, Utilization * Concurrency) >= n + 1
<1>1. Concurrency \in Nat \ {0} /\ Utilization \in 1 .. 10
  BY DEF PoolAssumption
<1> DEFINE c == Concurrency * n
<1>2. c \in Nat /\ usage > c
  BY <1>1
<1>3. 10 * usage > Utilization * c
  <2> HIDE DEF c
  <2>1. Utilization * c <= 10 * c
    BY <1>1, <1>2
  <2>. QED BY <1>1, <1>2, <2>1
<1>4. Utilization * c = n * (Utilization * Concurrency)
  BY <1>1
<1>5. Utilization * Concurrency \in Nat \ {0}
  BY <1>1
<1>. QED BY <1>3, <1>4, <1>5, CeilDivExceeds

LEMMA FiniteUsage ==
  ASSUME PoolAssumption
  PROVE  /\ waiters \in Nat
         /\ \A n \in Nat : currentUsage(n) \in Nat
<1>1. waiters \in Nat
  <2>1. IsFiniteSet(At("loop") \cup At("latched"))
    BY FiniteAt, FS_Union
  <2>. QED BY <2>1, FS_CardinalityType DEF waiters
<1>2. Cardinality({u \in At("holding") : borrower[u].of \in pool.items}) \in Nat
  BY FiniteAt, FS_Subset, FS_CardinalityType
<1>3. ASSUME NEW n \in Nat PROVE currentUsage(n) \in Nat
  BY <1>1, <1>2 DEF currentUsage
<1>. QED BY <1>1, <1>3

\* No target is past the maximum.
LEMMA TargetBound ==
  ASSUME PoolAssumption, NEW n \in Nat
  PROVE  targetSize(n) \in Nat /\ targetSize(n) <= MaxSize
<1>1. currentUsage(n) \in Nat /\ 10 * currentUsage(n) \in Nat /\ Utilization * Concurrency \in Nat \ {0}
  BY FiniteUsage DEF PoolAssumption
<1>2. CeilDiv(10 * currentUsage(n), Utilization * Concurrency) \in Nat
  BY <1>1, CeilDivType
<1>. QED BY <1>2 DEF targetSize, PoolAssumption

\* With enough active items for the usage one of them is free.
LEMMA HeadUnsafeFinds ==
  ASSUME PoolAssumption, PoolInv, ~isShuttingDown, pool.available = {}, targetSize(1) <= activeSize,
         Cardinality(At("holding")) + waiters < Concurrency * MaxSize
  PROVE  FALSE
<1> DEFINE U == {u \in At("holding") : borrower[u].of \in pool.items}
           H == [i \in Active |-> HoldersOf(i)]
<1>1. activeSize = Cardinality(Active) /\ activeSize \in Nat /\ IsFiniteSet(Active) /\ Active \subseteq ItemIds
  BY ActiveCounts DEF PoolInv, Consistent, PoolTypeOK, Active
<1>2. IsFiniteSet(U) /\ Cardinality(U) \in Nat /\ Cardinality(U) <= Cardinality(At("holding"))
  BY FiniteAt, FS_Subset, FS_CardinalityType
<1>3. ASSUME NEW i \in Active PROVE HoldersOf(i) \in SUBSET U /\ Cardinality(HoldersOf(i)) = Concurrency
  <2>1. i \in ItemIds /\ i \in pool.items /\ i \notin pool.invalidated
    BY <1>1 DEF Active
  <2>2. item[i].refCount \in Nat /\ item[i].refCount = Cardinality(HoldersOf(i)) /\ item[i].refCount <= Concurrency
    <3>1. item[i] \in Items
      BY <2>1, ElementOfSeq DEF PoolInv, PoolTypeOK, ItemIds
    <3>2. item[i].refCount = Cardinality(HoldersOf(i)) /\ item[i].refCount <= Concurrency
      BY <2>1 DEF PoolInv, ItemIds, Consistent, HoldersOf
    <3>. QED BY <3>1, <3>2 DEF Items
  <2>3. ~(item[i].refCount < Concurrency)
    BY <2>1 DEF PoolInv, Consistent
  <2>4. i # 0
    BY <2>1 DEF PoolInv, PoolTypeOK, ItemIds
  <2>5. HoldersOf(i) \subseteq U
    BY <2>1, <2>4 DEF HoldersOf, PoolInv, Held, At
  <2>. QED BY <2>2, <2>3, <2>5 DEF PoolAssumption
<1>4. H \in [Active -> SUBSET U] /\ (\A i \in Active : Cardinality(H[i]) = Concurrency)
  BY <1>3
<1>5. \A i, j \in Active : i # j => H[i] \cap H[j] = {}
  BY DEF HoldersOf
<1>6. Concurrency * Cardinality(Active) <= Cardinality(U)
  <2> HIDE DEF H, U
  <2>. QED BY <1>1, <1>2, <1>4, <1>5, HoldersMultiply DEF PoolAssumption
<1>7. currentUsage(1) = 1 + waiters + Cardinality(U) /\ waiters \in Nat /\ currentUsage(1) \in Nat
  BY FiniteUsage DEF currentUsage
<1>8. currentUsage(1) > Concurrency * activeSize
  BY <1>1, <1>2, <1>6, <1>7 DEF PoolAssumption
<1>9. CeilDiv(10 * currentUsage(1), Utilization * Concurrency) >= activeSize + 1
  BY <1>1, <1>7, <1>8, EnoughItems
<1>10. activeSize <= MaxSize
  BY <1>1 DEF PoolInv, Room, PoolTypeOK, PoolAssumption
<1>11. CASE activeSize < MaxSize
  <2>1. CeilDiv(10 * currentUsage(1), Utilization * Concurrency) \in Nat
    <3>1. 10 * currentUsage(1) \in Nat /\ Utilization * Concurrency \in Nat \ {0}
      BY <1>7 DEF PoolAssumption
    <3>. QED BY <3>1, CeilDivType
  <2>2. targetSize(1) > activeSize
    BY <1>1, <1>9, <1>11, <2>1 DEF targetSize, PoolAssumption
  <2>. QED BY <1>1, <2>2, TargetBound
<1>12. CASE activeSize = MaxSize
  <2>1. Concurrency * MaxSize <= Cardinality(U)
    BY <1>1, <1>6, <1>12
  <2>2. Concurrency * MaxSize \in Nat
    BY DEF PoolAssumption
  <2>. QED BY <1>2, <1>7, <2>1, <2>2, FiniteAt
<1>. QED BY <1>1, <1>10, <1>11, <1>12 DEF PoolAssumption

--------------------------------------------------------------------------
(* The steps.                                                              *)

\* Steps that leave the items alone, and who holds which.
LEMMA StaysInv ==
  ASSUME PoolInv, PoolTypeOK', Closing', UNCHANGED <<item, pool, resizing>>,
         isShuttingDown => isShuttingDown',
         \A u \in Borrowers : /\ borrower'[u].of = borrower[u].of /\ borrower'[u].at # "defect"
                              /\ borrower'[u].at = "holding" <=> borrower[u].at = "holding"
  PROVE  PoolInv'
<1>1. Consistent'
  <2>1. \A i : {u \in Borrowers : borrower'[u].of = i} = {u \in Borrowers : borrower[u].of = i}
    OBVIOUS
  <2>2. \A i \in DOMAIN item' : item'[i].refCount = Cardinality({u \in Borrowers : borrower'[u].of = i})
    BY <2>1 DEF PoolInv, Consistent
  <2>. QED BY <2>2 DEF PoolInv, Consistent
<1>2. NoDefect' /\ Held' /\ OpenInPool' /\ Room'
  BY DEF PoolInv, NoDefect, At, Held, OpenInPool, ItemIds, Room, activeSize
<1>. QED BY <1>1, <1>2 DEF PoolInv

\* Steps of one borrower that holds nothing.
LEMMA WalksInv ==
  ASSUME PoolInv, NEW u \in Borrowers, borrower[u].at # "holding",
         NEW p \in {"idle", "queued", "loop", "latched"}, Goes(u, p, 0),
         UNCHANGED <<item, pool, resizing, phase, visited>>,
         resizers' \in Nat, phase # "open" => resizers' = 0, latch' \in BOOLEAN, flush' \in BOOLEAN
  PROVE  PoolInv'
<1>1. borrower \in [Borrowers -> [at : {"idle", "queued", "loop", "latched", "holding", "defect"}, of : Nat]]
  BY DEF PoolInv, PoolTypeOK
<1>2. borrower' = [borrower EXCEPT ![u] = [at |-> p, of |-> 0]] /\ borrower[u].of = 0
  BY DEF Goes, PoolInv, Held
<1>3. \A v \in Borrowers : /\ borrower'[v].of = borrower[v].of /\ borrower'[v].at # "defect"
                           /\ borrower'[v].at = "holding" <=> borrower[v].at = "holding"
  BY <1>1, <1>2 DEF PoolInv, NoDefect, At
<1>4. PoolTypeOK'
  <2>1. borrower' \in [Borrowers -> [at : {"idle", "queued", "loop", "latched", "holding", "defect"}, of : Nat]]
    BY <1>1, <1>2
  <2>. QED BY <2>1 DEF PoolInv, PoolTypeOK, ItemIds
<1>5. Closing' /\ (isShuttingDown => isShuttingDown')
  BY DEF PoolInv, Closing, isShuttingDown
<1>. QED BY <1>3, <1>4, <1>5, StaysInv

LEMMA AwakeInv ==
  ASSUME PoolInv, borrower' = Awake \/ UNCHANGED borrower, Closing', isShuttingDown => isShuttingDown',
         UNCHANGED <<item, pool, resizing, visited, resizers>>,
         latch' \in BOOLEAN, flush' \in BOOLEAN, phase' \in {"open", "closing", "shutting", "draining", "closed"}
  PROVE  PoolInv'
<1>1. borrower \in [Borrowers -> [at : {"idle", "queued", "loop", "latched", "holding", "defect"}, of : Nat]]
  BY DEF PoolInv, PoolTypeOK
<1>2. \A v \in Borrowers : /\ borrower'[v].of = borrower[v].of /\ borrower'[v].at # "defect"
                           /\ borrower'[v].at = "holding" <=> borrower[v].at = "holding"
  BY <1>1 DEF PoolInv, NoDefect, At, Held, Awake
<1>3. borrower' \in [Borrowers -> [at : {"idle", "queued", "loop", "latched", "holding", "defect"}, of : Nat]]
  BY <1>1 DEF Awake
<1>4. PoolTypeOK'
  BY <1>3 DEF PoolInv, PoolTypeOK, ItemIds
<1>. QED BY <1>2, <1>4, StaysInv

\* An item goes to somebody who had none, and nobody else's is touched.
LEMMA HolderAdded ==
  ASSUME PoolAssumption, PoolTypeOK, NEW u \in Borrowers, borrower[u].of = 0, NEW i \in ItemIds,
         Goes(u, "holding", i)
  PROVE  /\ Cardinality(HoldersOf(i)') = Cardinality(HoldersOf(i)) + 1
         /\ \A j \in ItemIds \ {i} : HoldersOf(j)' = HoldersOf(j)
<1>1. i # 0 /\ i \in Nat /\ 0 \notin ItemIds
  BY DEF PoolTypeOK, ItemIds
<1>2. borrower' = [borrower EXCEPT ![u] = [at |-> "holding", of |-> i]]
      /\ borrower \in [Borrowers -> [at : {"idle", "queued", "loop", "latched", "holding", "defect"}, of : Nat]]
  BY DEF Goes, PoolTypeOK
<1>3. HoldersOf(i)' = HoldersOf(i) \cup {u} /\ u \notin HoldersOf(i)
  BY <1>1, <1>2 DEF HoldersOf
<1>4. \A j \in ItemIds \ {i} : HoldersOf(j)' = HoldersOf(j)
  BY <1>1, <1>2 DEF HoldersOf
<1>. QED BY <1>3, <1>4, FiniteHolders, FS_AddElement

LEMMA HolderGone ==
  ASSUME PoolAssumption, PoolTypeOK, NEW u \in Borrowers, NEW i \in ItemIds, borrower[u].of = i,
         Goes(u, "idle", 0)
  PROVE  /\ Cardinality(HoldersOf(i)') = Cardinality(HoldersOf(i)) - 1
         /\ Cardinality(HoldersOf(i)) # 0
         /\ \A j \in ItemIds \ {i} : HoldersOf(j)' = HoldersOf(j)
<1>1. i # 0 /\ i \in Nat /\ 0 \notin ItemIds
  BY DEF PoolTypeOK, ItemIds
<1>2. borrower' = [borrower EXCEPT ![u] = [at |-> "idle", of |-> 0]]
      /\ borrower \in [Borrowers -> [at : {"idle", "queued", "loop", "latched", "holding", "defect"}, of : Nat]]
  BY DEF Goes, PoolTypeOK
<1>3. HoldersOf(i)' = HoldersOf(i) \ {u} /\ u \in HoldersOf(i)
  BY <1>1, <1>2 DEF HoldersOf
<1>4. \A j \in ItemIds \ {i} : HoldersOf(j)' = HoldersOf(j)
  BY <1>1, <1>2 DEF HoldersOf
<1>. QED BY <1>3, <1>4, FiniteHolders, FS_RemoveElement, FS_EmptySet

LEMMA ItemReplaced ==
  ASSUME PoolTypeOK, NEW i \in ItemIds, NEW r \in Items, item' = [item EXCEPT ![i] = r]
  PROVE  /\ item' \in Seq(Items) /\ ItemIds' = ItemIds /\ item'[i] = r
         /\ \A j \in ItemIds \ {i} : item'[j] = item[j]
<1>1. item \in Seq(Items) /\ i \in 1 .. Len(item)
  BY DEF PoolTypeOK, ItemIds
<1>. QED BY <1>1, ExceptSeq DEF ItemIds

\* The fields of an item that is typed, and where it may be found.
LEMMA ItemFacts ==
  ASSUME PoolInv, NEW i \in ItemIds
  PROVE  /\ item[i] \in Items /\ i \in DOMAIN item
         /\ item[i].refCount = Cardinality(HoldersOf(i)) /\ item[i].refCount <= Concurrency
         /\ item[i].open <=> i \in pool.items /\ item[i].ok
<1>1. item[i] \in Items /\ i \in DOMAIN item
  BY ElementOfSeq DEF PoolInv, PoolTypeOK, ItemIds
<1>. QED BY <1>1 DEF PoolInv, Consistent, HoldersOf, OpenInPool

\* References that agree with who holds what, item by item.
LEMMA Counted ==
  ASSUME PoolInv, NEW i \in ItemIds, ItemIds' = ItemIds,
         \A j \in ItemIds \ {i} : item'[j] = item[j] /\ HoldersOf(j)' = HoldersOf(j),
         item'[i].refCount = Cardinality(HoldersOf(i)'), item'[i].refCount <= Concurrency
  PROVE  \A j \in DOMAIN item' : /\ item'[j].refCount = Cardinality({u \in Borrowers : borrower'[u].of = j})
                                 /\ item'[j].refCount <= Concurrency
<1> SUFFICES ASSUME NEW j \in ItemIds
             PROVE  item'[j].refCount = Cardinality(HoldersOf(j)') /\ item'[j].refCount <= Concurrency
  BY DEF HoldersOf, ItemIds
<1>. QED BY ItemFacts

LEMMA ServeInv ==
  ASSUME PoolAssumption, PoolInv, NEW u \in Borrowers, borrower[u].at # "holding",
         ~isShuttingDown, Serve(u), UNCHANGED <<resizing, phase, visited>>,
         resizers' \in Nat, phase # "open" => resizers' = 0, latch' \in BOOLEAN, flush' \in BOOLEAN
  PROVE  PoolInv'
<1>1. PICK i \in pool.available :
        \/ /\ ~item[i].ok /\ pool' = Without(i) /\ Goes(u, "idle", 0) /\ UNCHANGED item
        \/ /\ item[i].ok /\ item' = [item EXCEPT ![i].refCount = @ + 1]
           /\ pool' = IF item[i].refCount + 1 < Concurrency THEN pool
                      ELSE [pool EXCEPT !.available = @ \ {i}]
           /\ Goes(u, "holding", i)
  BY DEF Serve
<1>2. /\ borrower \in [Borrowers -> [at : {"idle", "queued", "loop", "latched", "holding", "defect"}, of : Nat]]
      /\ pool \in [items : SUBSET ItemIds, available : SUBSET ItemIds, invalidated : SUBSET ItemIds]
      /\ i \in ItemIds /\ i \in pool.items /\ i \notin pool.invalidated /\ borrower[u].of = 0 /\ i # 0
  BY DEF PoolInv, PoolTypeOK, Consistent, Held, ItemIds
<1>3. item[i] \in Items /\ item[i].refCount < Concurrency
  BY <1>2, ItemFacts DEF PoolInv, Consistent
<1>4. Closing' /\ isShuttingDown' = isShuttingDown /\ visited = {}
  BY DEF PoolInv, PoolTypeOK, Closing, isShuttingDown
<1>5. pool.available = {j \in pool.items \ pool.invalidated : item[j].refCount < Concurrency}
  BY DEF PoolInv, Consistent
<1>6. CASE ~item[i].ok /\ pool' = Without(i) /\ Goes(u, "idle", 0) /\ UNCHANGED item
  <2>1. borrower' = [borrower EXCEPT ![u] = [at |-> "idle", of |-> 0]]
    BY <1>6 DEF Goes
  <2>2. PoolTypeOK'
    <3>1. borrower' \in [Borrowers -> [at : {"idle", "queued", "loop", "latched", "holding", "defect"}, of : Nat]]
      BY <1>2, <2>1
    <3>2. pool' \in [items : SUBSET ItemIds', available : SUBSET ItemIds', invalidated : SUBSET ItemIds']
      BY <1>2, <1>6 DEF Without, ItemIds
    <3>. QED BY <1>6, <3>1, <3>2 DEF PoolInv, PoolTypeOK, ItemIds
  <2>3. \A v \in Borrowers : borrower'[v].of = borrower[v].of
    BY <1>2, <2>1
  <2>4. Consistent'
    <3>1. \A j : {v \in Borrowers : borrower'[v].of = j} = {v \in Borrowers : borrower[v].of = j}
      BY <2>3
    <3>2. \A j \in DOMAIN item' : /\ item'[j].refCount = Cardinality({v \in Borrowers : borrower'[v].of = j})
                                  /\ item'[j].refCount <= Concurrency
      BY <1>6, <3>1 DEF PoolInv, Consistent
    <3>3. pool'.invalidated \cup pool'.available \subseteq pool'.items
      BY <1>6 DEF Without, PoolInv, Consistent
    <3>4. pool'.available = {j \in pool'.items \ pool'.invalidated : item'[j].refCount < Concurrency}
      BY <1>5, <1>6 DEF Without
    <3>. QED BY <3>2, <3>3, <3>4 DEF Consistent
  <2>5. NoDefect' /\ Held'
    BY <1>2, <1>6, <2>1 DEF PoolInv, NoDefect, At, Held, Without
  <2>6. OpenInPool'
    BY <1>6 DEF PoolInv, OpenInPool, ItemIds, Without
  <2>7. Room'
    <3>1. Active' \subseteq Active
      BY <1>6 DEF Active, Without
    <3>2. activeSize' \in Nat /\ activeSize' <= activeSize /\ activeSize \in Nat
      BY <2>2, <2>4, <3>1, FewerActive, ActiveCounts DEF PoolInv, Consistent
    <3>. QED BY <3>2 DEF PoolInv, Room, PoolTypeOK, PoolAssumption
  <2>. QED BY <1>4, <2>2, <2>4, <2>5, <2>6, <2>7 DEF PoolInv
<1>7. CASE /\ item[i].ok /\ item' = [item EXCEPT ![i].refCount = @ + 1]
           /\ pool' = IF item[i].refCount + 1 < Concurrency THEN pool
                      ELSE [pool EXCEPT !.available = @ \ {i}]
           /\ Goes(u, "holding", i)
  <2> DEFINE r == [item[i] EXCEPT !.refCount = item[i].refCount + 1]
  <2>1. r \in Items /\ item' = [item EXCEPT ![i] = r]
    BY <1>3, <1>7 DEF Items
  <2>2. r.refCount = item[i].refCount + 1 /\ r.ok = item[i].ok /\ r.open = item[i].open
    BY <1>3 DEF Items
  <2> HIDE DEF r
  <2>3. /\ item' \in Seq(Items) /\ ItemIds' = ItemIds /\ item'[i] = r
        /\ \A j \in ItemIds \ {i} : item'[j] = item[j]
    BY <1>2, <2>1, ItemReplaced DEF PoolInv
  <2>4. borrower' = [borrower EXCEPT ![u] = [at |-> "holding", of |-> i]]
    BY <1>7 DEF Goes
  <2>5. pool'.items = pool.items /\ pool'.invalidated = pool.invalidated
        /\ pool' \in [items : SUBSET ItemIds, available : SUBSET ItemIds, invalidated : SUBSET ItemIds]
    BY <1>2, <1>7
  <2>6. PoolTypeOK'
    <3>1. borrower' \in [Borrowers -> [at : {"idle", "queued", "loop", "latched", "holding", "defect"}, of : Nat]]
      BY <1>2, <2>3, <2>4 DEF ItemIds, PoolInv, PoolTypeOK
    <3>. QED BY <2>3, <2>5, <3>1 DEF PoolInv, PoolTypeOK
  <2>7. Consistent'
    <3>1. Cardinality(HoldersOf(i)') = Cardinality(HoldersOf(i)) + 1
          /\ \A j \in ItemIds \ {i} : HoldersOf(j)' = HoldersOf(j)
      BY <1>2, <1>7, HolderAdded DEF PoolInv
    <3>2. item'[i].refCount = Cardinality(HoldersOf(i)') /\ item'[i].refCount <= Concurrency
      BY <1>2, <1>3, <2>2, <2>3, <3>1, ItemFacts DEF Items, PoolAssumption
    <3>3. \A j \in DOMAIN item' : /\ item'[j].refCount = Cardinality({v \in Borrowers : borrower'[v].of = j})
                                  /\ item'[j].refCount <= Concurrency
      BY <1>2, <2>3, <3>1, <3>2, Counted
    <3>4. pool'.invalidated \cup pool'.available \subseteq pool'.items
      BY <1>2, <1>7 DEF PoolInv, Consistent
    <3>5. pool'.available = {j \in pool'.items \ pool'.invalidated : item'[j].refCount < Concurrency}
      <4>1. \A j \in pool.items \ {i} : item'[j] = item[j]
        BY <1>2, <2>3
      <4>2. CASE item[i].refCount + 1 < Concurrency
        BY <1>2, <1>5, <1>7, <2>2, <2>3, <4>1, <4>2
      <4>3. CASE ~(item[i].refCount + 1 < Concurrency)
        BY <1>2, <1>5, <1>7, <2>2, <2>3, <4>1, <4>3
      <4>. QED BY <4>2, <4>3
    <3>. QED BY <3>3, <3>4, <3>5 DEF Consistent
  <2>8. NoDefect' /\ Held'
    <3>1. NoDefect'
      BY <1>2, <2>4 DEF PoolInv, NoDefect, At
    <3>2. \A v \in Borrowers : borrower'[v].at = "holding" => item'[borrower'[v].of].ok /\ borrower'[v].of \in pool'.items
      BY <1>2, <1>7, <2>2, <2>3, <2>4, <2>5 DEF PoolInv, Held
    <3>3. \A v \in Borrowers : borrower'[v].at # "holding" => borrower'[v].of = 0
      BY <1>2, <2>4 DEF PoolInv, Held
    <3>. QED BY <3>1, <3>2, <3>3 DEF Held
  <2>9. OpenInPool'
    BY <1>2, <2>2, <2>3, <2>5 DEF PoolInv, OpenInPool
  <2>10. Room'
    BY <2>5 DEF PoolInv, Room, activeSize
  <2>. QED BY <1>4, <2>6, <2>7, <2>8, <2>9, <2>10 DEF PoolInv
<1>. QED BY <1>1, <1>6, <1>7

LEMMA EnterInv == ASSUME PoolAssumption, PoolInv, NEW u \in Borrowers, Enter(u) PROVE PoolInv'
<1>1. /\ borrower[u].at # "holding" /\ resizers' \in Nat /\ (phase # "open" => resizers' = 0)
      /\ latch' \in BOOLEAN /\ flush' \in BOOLEAN /\ UNCHANGED <<resizing, phase, visited>>
  BY DEF Enter, PoolInv, PoolTypeOK, Closing, resizeVars, latchVars, shutdownVars
<1>2. CASE (Goes(u, "idle", 0) \/ Goes(u, "loop", 0)) /\ UNCHANGED <<item, pool>>
  BY <1>1, <1>2, WalksInv
<1>3. CASE ~isShuttingDown /\ Serve(u)
  BY <1>1, <1>3, ServeInv
<1>4. CASE ~isShuttingDown /\ targetSize(1) <= activeSize /\ pool.available = {}
  BY <1>4, HeadUnsafeFinds DEF Enter
<1>. QED BY <1>2, <1>3, <1>4 DEF Enter

LEMMA LoopInv == ASSUME PoolAssumption, PoolInv, NEW u \in Borrowers, Loop(u) PROVE PoolInv'
<1>1. /\ borrower[u].at # "holding" /\ resizers' \in Nat /\ (phase # "open" => resizers' = 0)
      /\ latch' \in BOOLEAN /\ flush' \in BOOLEAN /\ UNCHANGED <<resizing, phase, visited>>
  <2>1. resizers' \in Nat /\ (phase # "open" => resizers' = 0)
    BY DEF Loop, ForkResize, PoolInv, PoolTypeOK, Closing
  <2>2. latch' \in BOOLEAN /\ flush' \in BOOLEAN
    BY DEF Loop, PoolInv, PoolTypeOK
  <2>. QED BY <2>1, <2>2 DEF Loop, shutdownVars
<1>2. CASE (Goes(u, "idle", 0) \/ Goes(u, "latched", 0)) /\ UNCHANGED <<item, pool>>
  BY <1>1, <1>2, WalksInv
<1>3. CASE ~isShuttingDown /\ Serve(u)
  BY <1>1, <1>3, ServeInv
<1>. QED BY <1>2, <1>3 DEF Loop

\* What invalidatePoolItem keeps, of items and holders that agree.
LEMMA InvalidateKeeps ==
  ASSUME PoolAssumption, PoolInv, NEW i \in pool.items, NEW it \in Seq(Items), DOMAIN it = ItemIds,
         \A j \in ItemIds : it[j].ok = item[j].ok /\ it[j].open = item[j].open,
         \A j \in ItemIds : it[j].refCount = Cardinality(HoldersOf(j)') /\ it[j].refCount <= Concurrency,
         \A j \in ItemIds \ {i} : it[j].refCount = item[j].refCount,
         borrower' \in [Borrowers -> [at : {"idle", "queued", "loop", "latched", "holding", "defect"}, of : Nat]],
         \A v \in Borrowers : /\ borrower'[v].at # "defect"
                              /\ borrower'[v].at = "holding" => borrower'[v] = borrower[v]
                              /\ borrower'[v].at # "holding" => borrower'[v].of = 0,
         InvalidatePoolItem(i, it), UNCHANGED <<resizing, latch, flush, phase, visited>>
  PROVE  PoolInv'
<1>1. /\ pool \in [items : SUBSET ItemIds, available : SUBSET ItemIds, invalidated : SUBSET ItemIds]
      /\ i \in ItemIds /\ it[i] \in Items
  BY ElementOfSeq DEF PoolInv, PoolTypeOK
<1>2. \A v \in Borrowers : borrower'[v].at = "holding" =>
        borrower'[v].of \in pool.items /\ item[borrower'[v].of].ok
  BY DEF PoolInv, Held
<1>3. CASE it[i].refCount = 0 /\ pool' = Without(i) /\ item' = [it EXCEPT ![i].open = FALSE] /\ ForkResize
  <2> DEFINE r == [it[i] EXCEPT !.open = FALSE]
  <2>1. r \in Items /\ item' = [it EXCEPT ![i] = r]
    BY <1>1, <1>3 DEF Items
  <2>2. r.refCount = it[i].refCount /\ r.ok = it[i].ok /\ r.open = FALSE
    BY <1>1 DEF Items
  <2> HIDE DEF r
  <2>3. /\ item' \in Seq(Items) /\ ItemIds' = ItemIds /\ item'[i] = r
        /\ \A j \in ItemIds \ {i} : item'[j] = it[j]
    <3>1. i \in 1 .. Len(it) /\ ItemIds = 1 .. Len(it)
      BY <1>1
    <3>. QED BY <2>1, <3>1, ExceptSeq DEF ItemIds
  <2>4. \A j \in ItemIds : item'[j].refCount = it[j].refCount /\ item'[j].ok = item[j].ok
    BY <2>2, <2>3
  <2>5. HoldersOf(i)' = {}
    <3>1. IsFiniteSet(HoldersOf(i)')
      BY FS_Subset DEF PoolAssumption, HoldersOf
    <3>. QED BY <1>1, <1>3, <3>1, FS_EmptySet
  <2>6. PoolTypeOK'
    <3>1. pool' \in [items : SUBSET ItemIds', available : SUBSET ItemIds', invalidated : SUBSET ItemIds']
      BY <1>1, <1>3, <2>3 DEF Without
    <3>2. resizers' \in Nat
      BY <1>3 DEF ForkResize, PoolInv, PoolTypeOK
    <3>. QED BY <2>3, <3>1, <3>2 DEF PoolInv, PoolTypeOK
  <2>7. Consistent'
    <3>1. \A j \in DOMAIN item' : /\ item'[j].refCount = Cardinality({v \in Borrowers : borrower'[v].of = j})
                                  /\ item'[j].refCount <= Concurrency
      BY <2>3, <2>4 DEF HoldersOf, ItemIds
    <3>2. pool'.invalidated \cup pool'.available \subseteq pool'.items
      BY <1>3 DEF Without, PoolInv, Consistent
    <3>3. ASSUME ~isShuttingDown'
          PROVE  pool'.available = {j \in pool'.items \ pool'.invalidated : item'[j].refCount < Concurrency}
      <4>1. pool.available = {j \in pool.items \ pool.invalidated : item[j].refCount < Concurrency}
        BY <3>3 DEF PoolInv, Consistent, isShuttingDown
      <4>2. \A j \in pool.items \ {i} : item'[j].refCount = item[j].refCount
        BY <1>1, <2>4
      <4>. QED BY <1>3, <4>1, <4>2 DEF Without
    <3>. QED BY <3>1, <3>2, <3>3 DEF Consistent
  <2>8. NoDefect' /\ Held'
    <3>1. \A v \in Borrowers : borrower'[v].at = "holding" => borrower'[v].of # i
      BY <2>5 DEF HoldersOf
    <3>2. \A v \in Borrowers : borrower'[v].at = "holding" => borrower'[v].of \in pool'.items /\ item'[borrower'[v].of].ok
      BY <1>1, <1>2, <1>3, <2>4, <3>1 DEF Without
    <3>. QED BY <3>2 DEF NoDefect, At, Held
  <2>9. OpenInPool'
    BY <1>1, <1>3, <2>2, <2>3 DEF Without, PoolInv, OpenInPool
  <2>10. Room'
    <3>1. Active' \subseteq Active
      BY <1>3 DEF Active, Without
    <3>2. activeSize' \in Nat /\ activeSize' <= activeSize /\ activeSize \in Nat
      BY <2>6, <2>7, <3>1, FewerActive, ActiveCounts DEF PoolInv, Consistent
    <3>. QED BY <3>2 DEF PoolInv, Room, PoolTypeOK, PoolAssumption
  <2>11. Closing'
    <3>1. phase # "open" => resizers' = 0 /\ ~resizing.on
      BY <1>3 DEF ForkResize, PoolInv, Closing
    <3>2. \A j \in visited \cap pool'.items : j \in pool'.invalidated /\ item'[j].refCount > 0
      BY <1>1, <1>3, <2>4 DEF Without, PoolInv, Closing
    <3>. QED BY <1>3, <3>1, <3>2 DEF Without, PoolInv, Closing
  <2>. QED BY <2>6, <2>7, <2>8, <2>9, <2>10, <2>11 DEF PoolInv
<1>4. CASE /\ it[i].refCount > 0 /\ item' = it /\ UNCHANGED resizers
           /\ pool' = [pool EXCEPT !.invalidated = @ \cup {i}, !.available = @ \ {i}]
  <2>1. /\ pool'.items = pool.items /\ pool'.invalidated = pool.invalidated \cup {i}
        /\ pool'.available = pool.available \ {i}
        /\ pool' \in [items : SUBSET ItemIds, available : SUBSET ItemIds, invalidated : SUBSET ItemIds]
    BY <1>1, <1>4
  <2>2. ItemIds' = ItemIds
    BY <1>4 DEF ItemIds
  <2>3. PoolTypeOK'
    BY <1>4, <2>1, <2>2 DEF PoolInv, PoolTypeOK
  <2>4. Consistent'
    <3>1. \A j \in DOMAIN item' : /\ item'[j].refCount = Cardinality({v \in Borrowers : borrower'[v].of = j})
                                  /\ item'[j].refCount <= Concurrency
      BY <1>4 DEF HoldersOf, ItemIds
    <3>2. pool'.invalidated \cup pool'.available \subseteq pool'.items
      BY <2>1 DEF PoolInv, Consistent
    <3>3. ASSUME ~isShuttingDown'
          PROVE  pool'.available = {j \in pool'.items \ pool'.invalidated : item'[j].refCount < Concurrency}
      <4>1. pool.available = {j \in pool.items \ pool.invalidated : item[j].refCount < Concurrency}
        BY <3>3 DEF PoolInv, Consistent, isShuttingDown
      <4>2. \A j \in pool.items \ {i} : item'[j].refCount = item[j].refCount
        BY <1>1, <1>4
      <4>. QED BY <2>1, <4>1, <4>2
    <3>. QED BY <3>1, <3>2, <3>3 DEF Consistent
  <2>5. NoDefect' /\ Held' /\ OpenInPool'
    BY <1>1, <1>2, <1>4, <2>1, <2>2 DEF NoDefect, At, Held, PoolInv, OpenInPool
  <2>6. Room'
    <3>1. Active' \subseteq Active
      BY <2>1 DEF Active
    <3>2. activeSize' \in Nat /\ activeSize' <= activeSize /\ activeSize \in Nat
      BY <2>3, <2>4, <3>1, FewerActive, ActiveCounts DEF PoolInv, Consistent
    <3>. QED BY <3>2 DEF PoolInv, Room, PoolTypeOK, PoolAssumption
  <2>7. Closing'
    <3>1. \A j \in visited \cap pool'.items : j \in pool'.invalidated /\ item'[j].refCount > 0
      BY <1>1, <1>4, <2>1 DEF PoolInv, Closing
    <3>. QED BY <1>4, <2>1, <3>1 DEF PoolInv, Closing
  <2>. QED BY <2>3, <2>4, <2>5, <2>6, <2>7 DEF PoolInv
<1>. QED BY <1>3, <1>4 DEF InvalidatePoolItem

LEMMA ReleaseItemInv == ASSUME PoolAssumption, PoolInv, NEW u \in Borrowers, ReleaseItem(u) PROVE PoolInv'
<1> PICK i : i = borrower[u].of
  OBVIOUS
<1> DEFINE r == [item[i] EXCEPT !.refCount = item[i].refCount - 1]
           left == [item EXCEPT ![i] = r]
<1>1. /\ borrower[u].at = "holding" /\ Goes(u, "idle", 0) /\ UNCHANGED <<resizing, latch, flush, phase, visited>>
      /\ IF i \in pool.invalidated THEN InvalidatePoolItem(i, left)
         ELSE /\ item' = left /\ UNCHANGED resizers
              /\ pool' = [pool EXCEPT !.available = @ \cup {i}]
  BY DEF ReleaseItem, latchVars
<1>2. i \in pool.items /\ i \in ItemIds /\ item[i].ok
  BY <1>1 DEF PoolInv, Held, PoolTypeOK
<1>3. /\ borrower \in [Borrowers -> [at : {"idle", "queued", "loop", "latched", "holding", "defect"}, of : Nat]]
      /\ pool \in [items : SUBSET ItemIds, available : SUBSET ItemIds, invalidated : SUBSET ItemIds]
  BY DEF PoolInv, PoolTypeOK
<1>4. borrower' = [borrower EXCEPT ![u] = [at |-> "idle", of |-> 0]]
  BY <1>1 DEF Goes
<1>5. borrower' \in [Borrowers -> [at : {"idle", "queued", "loop", "latched", "holding", "defect"}, of : Nat]]
  BY <1>3, <1>4
<1>6. \A v \in Borrowers : /\ borrower'[v].at # "defect"
                           /\ borrower'[v].at = "holding" => borrower'[v] = borrower[v]
                           /\ borrower'[v].at # "holding" => borrower'[v].of = 0
  BY <1>3, <1>4 DEF PoolInv, NoDefect, At, Held
<1>7. /\ Cardinality(HoldersOf(i)') = Cardinality(HoldersOf(i)) - 1 /\ Cardinality(HoldersOf(i)) # 0
      /\ \A j \in ItemIds \ {i} : HoldersOf(j)' = HoldersOf(j)
  <2> HIDE DEF r, left
  <2>. QED BY <1>1, <1>2, HolderGone DEF PoolInv
<1>8. item[i] \in Items /\ item[i].refCount = Cardinality(HoldersOf(i)) /\ item[i].refCount <= Concurrency
  BY <1>2, ItemFacts
<1>9. /\ r \in Items /\ r.refCount = item[i].refCount - 1 /\ r.ok = item[i].ok /\ r.open = item[i].open
      /\ r.refCount < Concurrency
  BY <1>7, <1>8 DEF Items, PoolAssumption
<1> HIDE DEF r
<1>10. /\ left \in Seq(Items) /\ DOMAIN left = ItemIds /\ left[i] = r
       /\ \A j \in ItemIds \ {i} : left[j] = item[j]
  <2>1. item \in Seq(Items) /\ i \in 1 .. Len(item)
    BY <1>2 DEF PoolInv, PoolTypeOK, ItemIds
  <2>. QED BY <1>9, <2>1, ExceptSeq DEF ItemIds
<1>11. \A j \in ItemIds : left[j].ok = item[j].ok /\ left[j].open = item[j].open
  BY <1>9, <1>10
<1>12. \A j \in ItemIds : left[j].refCount = Cardinality(HoldersOf(j)') /\ left[j].refCount <= Concurrency
  <2> SUFFICES ASSUME NEW j \in ItemIds
               PROVE  left[j].refCount = Cardinality(HoldersOf(j)') /\ left[j].refCount <= Concurrency
    OBVIOUS
  <2>1. CASE j = i
    BY <1>7, <1>8, <1>9, <1>10, <2>1 DEF Items, PoolAssumption
  <2>2. CASE j # i
    BY <1>7, <1>10, <2>2, ItemFacts
  <2>. QED BY <2>1, <2>2
<1>13. CASE i \in pool.invalidated
  <2>1. InvalidatePoolItem(i, left)
    BY <1>1, <1>13
  <2> HIDE DEF left
  <2>. QED BY <1>1, <1>2, <1>5, <1>6, <1>10, <1>11, <1>12, <2>1, InvalidateKeeps
<1>14. CASE i \notin pool.invalidated
  <2>1. /\ item' = left /\ UNCHANGED resizers /\ pool'.items = pool.items
        /\ pool'.invalidated = pool.invalidated /\ pool'.available = pool.available \cup {i}
        /\ pool' \in [items : SUBSET ItemIds, available : SUBSET ItemIds, invalidated : SUBSET ItemIds]
    BY <1>1, <1>2, <1>3, <1>14
  <2> HIDE DEF left
  <2>2. ItemIds' = ItemIds
    BY <1>10, <2>1 DEF ItemIds
  <2>3. PoolTypeOK'
    BY <1>1, <1>5, <1>10, <2>1, <2>2 DEF PoolInv, PoolTypeOK
  <2>4. Consistent'
    <3>1. \A j \in DOMAIN item' : /\ item'[j].refCount = Cardinality({v \in Borrowers : borrower'[v].of = j})
                                  /\ item'[j].refCount <= Concurrency
      BY <1>10, <1>12, <2>1 DEF HoldersOf
    <3>2. pool'.invalidated \cup pool'.available \subseteq pool'.items
      BY <1>2, <2>1 DEF PoolInv, Consistent
    <3>3. ASSUME ~isShuttingDown'
          PROVE  pool'.available = {j \in pool'.items \ pool'.invalidated : item'[j].refCount < Concurrency}
      <4>1. pool.available = {j \in pool.items \ pool.invalidated : item[j].refCount < Concurrency}
        BY <1>1, <3>3 DEF PoolInv, Consistent, isShuttingDown
      <4>2. \A j \in pool.items \ {i} : item'[j].refCount = item[j].refCount
        BY <1>3, <1>10, <2>1
      <4>3. item'[i].refCount < Concurrency
        BY <1>9, <1>10, <2>1
      <4>. QED BY <1>2, <1>14, <2>1, <4>1, <4>2, <4>3
    <3>. QED BY <3>1, <3>2, <3>3 DEF Consistent
  <2>5. NoDefect' /\ Held' /\ OpenInPool'
    <3>1. \A v \in Borrowers : borrower'[v].at = "holding" =>
            borrower'[v].of \in pool'.items /\ item'[borrower'[v].of].ok
      BY <1>3, <1>6, <1>11, <2>1 DEF PoolInv, Held
    <3>. QED BY <1>6, <1>11, <2>1, <2>2, <3>1 DEF NoDefect, At, Held, PoolInv, OpenInPool
  <2>6. Room'
    BY <1>1, <2>1 DEF PoolInv, Room, activeSize
  <2>7. Closing'
    <3>1. \A j \in visited \cap pool'.items : j \in pool'.invalidated /\ item'[j].refCount > 0
      BY <1>3, <1>10, <1>14, <2>1 DEF PoolInv, Closing
    <3>. QED BY <1>1, <2>1, <3>1 DEF PoolInv, Closing
  <2>. QED BY <2>3, <2>4, <2>5, <2>6, <2>7 DEF PoolInv
<1>. QED BY <1>13, <1>14

\* An invalidation from outside: of what was found as it is, or not to be reclaimed.
LEMMA InvalidatesInv ==
  ASSUME PoolAssumption, PoolInv, ~isShuttingDown, NEW i \in pool.items, NEW it,
         it = item \/ it = [item EXCEPT ![i].disableReclaim = TRUE],
         InvalidatePoolItem(i, it), UNCHANGED <<borrower, resizing, latch, flush, phase, visited>>
  PROVE  PoolInv'
<1> DEFINE r == [item[i] EXCEPT !.disableReclaim = TRUE]
<1>1. i \in ItemIds /\ item \in Seq(Items) /\ i \in 1 .. Len(item) /\ item[i] \in Items
  BY ItemFacts DEF PoolInv, PoolTypeOK, ItemIds
<1>2. r \in Items /\ r.ok = item[i].ok /\ r.refCount = item[i].refCount /\ r.open = item[i].open
  BY <1>1 DEF Items
<1>3. it = item \/ it = [item EXCEPT ![i] = r]
  OBVIOUS
<1> HIDE DEF r
<1>4. it \in Seq(Items) /\ DOMAIN it = ItemIds
  BY <1>1, <1>2, <1>3, ExceptSeq DEF ItemIds
<1>5. \A j \in ItemIds : it[j].ok = item[j].ok /\ it[j].open = item[j].open /\ it[j].refCount = item[j].refCount
  BY <1>1, <1>2, <1>3 DEF ItemIds
<1>6. \A j \in ItemIds : it[j].refCount = Cardinality(HoldersOf(j)') /\ it[j].refCount <= Concurrency
  BY <1>5, ItemFacts DEF HoldersOf
<1>7. /\ borrower' \in [Borrowers -> [at : {"idle", "queued", "loop", "latched", "holding", "defect"}, of : Nat]]
      /\ \A v \in Borrowers : /\ borrower'[v].at # "defect"
                              /\ borrower'[v].at = "holding" => borrower'[v] = borrower[v]
                              /\ borrower'[v].at # "holding" => borrower'[v].of = 0
  BY DEF PoolInv, PoolTypeOK, NoDefect, At, Held
<1>. QED BY <1>4, <1>5, <1>6, <1>7, InvalidateKeeps

\* A batch takes back what it reclaims and allocates the rest: with both it
\* reaches the target, and no more.
LEMMA ResizeBatchInv ==
  ASSUME PoolAssumption, PoolInv, phase = "open", resizing.allocs = 0, targetSize(0) > activeSize, Batch,
         UNCHANGED <<item, borrower, phase, visited>>,
         resizers' \in Nat, latch' \in BOOLEAN, flush' \in BOOLEAN
  PROVE  PoolInv'
<1> DEFINE missing == targetSize(0) - activeSize
<1>1. activeSize \in Nat /\ targetSize(0) \in Nat /\ targetSize(0) <= MaxSize /\ missing \in Nat \ {0}
  BY ActiveCounts, TargetBound DEF PoolInv, Consistent
<1>2. PICK S \in SUBSET Reclaimable :
        /\ Cardinality(S) = IF Cardinality(Reclaimable) < missing
                            THEN Cardinality(Reclaimable) ELSE missing
        /\ pool' = [pool EXCEPT !.invalidated = @ \ S,
                      !.available = @ \cup {i \in S : item[i].refCount < Concurrency}]
        /\ resizing' = [on |-> TRUE, allocs |-> missing - Cardinality(S), failed |-> FALSE]
  BY DEF Batch
<1> HIDE DEF missing
<1>3. /\ pool \in [items : SUBSET ItemIds, available : SUBSET ItemIds, invalidated : SUBSET ItemIds]
      /\ S \subseteq pool.invalidated /\ pool.invalidated \subseteq pool.items /\ item \in Seq(Items)
      /\ Reclaimable \subseteq pool.invalidated
  BY DEF PoolInv, PoolTypeOK, Consistent, Reclaimable
<1>4. /\ pool'.items = pool.items /\ pool'.invalidated = pool.invalidated \ S
      /\ pool'.available = pool.available \cup {i \in S : item[i].refCount < Concurrency}
      /\ pool' \in [items : SUBSET ItemIds, available : SUBSET ItemIds, invalidated : SUBSET ItemIds]
      /\ ItemIds' = ItemIds
  BY <1>2, <1>3 DEF ItemIds
<1>5. /\ Cardinality(S) \in Nat /\ Cardinality(pool.items) \in Nat /\ Cardinality(pool.invalidated) \in Nat
      /\ IsFiniteSet(pool.invalidated) /\ Cardinality(Reclaimable) \in Nat
  BY <1>3, FiniteItems DEF ItemIds
<1>6. Cardinality(S) <= missing
  BY <1>1, <1>2, <1>5
<1>7. PoolTypeOK'
  <2>1. missing - Cardinality(S) \in Nat
    BY <1>1, <1>5, <1>6
  <2>2. resizing' \in [on : BOOLEAN, allocs : Nat, failed : BOOLEAN]
    BY <1>2, <2>1
  <2>. QED BY <1>3, <1>4, <2>2 DEF PoolInv, PoolTypeOK
<1>8. Consistent'
  <2>1. pool'.available = {i \in pool'.items \ pool'.invalidated : item'[i].refCount < Concurrency}
    <3>1. pool.available = {i \in pool.items \ pool.invalidated : item[i].refCount < Concurrency}
      BY DEF PoolInv, Consistent, isShuttingDown
    <3>. QED BY <1>3, <1>4, <3>1
  <2>2. pool'.invalidated \cup pool'.available \subseteq pool'.items
    BY <1>3, <1>4 DEF PoolInv, Consistent
  <2>. QED BY <2>1, <2>2 DEF PoolInv, Consistent
<1>9. NoDefect' /\ Held' /\ OpenInPool'
  BY <1>4 DEF PoolInv, NoDefect, At, Held, OpenInPool
<1>10. Room'
  <2>1. Cardinality(pool'.invalidated) = Cardinality(pool.invalidated) - Cardinality(S)
    BY <1>3, <1>4, <1>5, CountRest
  <2>2. activeSize' = activeSize + Cardinality(S)
    BY <1>4, <1>5, <2>1 DEF activeSize
  <2>3. resizing'.allocs = missing - Cardinality(S) /\ resizing'.on
    BY <1>2
  <2>. QED BY <1>1, <1>5, <2>2, <2>3 DEF Room, missing, PoolAssumption
<1>11. Closing'
  BY DEF PoolInv, Closing
<1>. QED BY <1>7, <1>8, <1>9, <1>10, <1>11 DEF PoolInv

LEMMA StartResizeInv == ASSUME PoolAssumption, PoolInv, StartResize PROVE PoolInv'
<1>1. /\ resizers > 0 /\ ~resizing.on /\ resizers' = resizers - 1 /\ resizers \in Nat
      /\ UNCHANGED <<item, borrower, latch, flush, phase, visited>>
  BY DEF StartResize, latchVars, shutdownVars, PoolInv, PoolTypeOK
<1>2. phase = "open" /\ resizing.allocs = 0 /\ resizers' \in Nat /\ latch' \in BOOLEAN /\ flush' \in BOOLEAN
  BY <1>1 DEF PoolInv, Closing, Room, PoolTypeOK
<1>3. CASE targetSize(0) > activeSize
  BY <1>1, <1>2, <1>3, ResizeBatchInv DEF StartResize
<1>4. CASE ~(targetSize(0) > activeSize)
  <2>1. UNCHANGED <<pool, resizing>>
    BY <1>4 DEF StartResize
  <2>2. PoolTypeOK' /\ Closing' /\ isShuttingDown' = isShuttingDown
    BY <1>1, <1>2, <2>1 DEF PoolInv, PoolTypeOK, ItemIds, Closing, isShuttingDown
  <2>. QED BY <1>1, <2>1, <2>2, StaysInv DEF PoolInv, NoDefect, At
<1>. QED BY <1>3, <1>4

LEMMA EndBatchInv == ASSUME PoolAssumption, PoolInv, EndBatch PROVE PoolInv'
<1>1. /\ resizing.on /\ resizing.allocs = 0 /\ UNCHANGED <<item, borrower, resizers, phase, visited>>
      /\ latch' \in BOOLEAN /\ flush' \in BOOLEAN /\ resizers' \in Nat
  BY DEF EndBatch, shutdownVars, PoolInv, PoolTypeOK
<1>2. phase = "open"
  BY <1>1 DEF PoolInv, Closing
<1>3. CASE targetSize(0) > activeSize /\ Batch
  BY <1>1, <1>2, <1>3, ResizeBatchInv
<1>4. CASE resizing' = Still /\ UNCHANGED pool
  <2>1. PoolTypeOK'
    BY <1>1, <1>4 DEF PoolInv, PoolTypeOK, ItemIds, Still
  <2>2. Consistent' /\ NoDefect' /\ Held' /\ OpenInPool'
    BY <1>1, <1>4 DEF PoolInv, Consistent, isShuttingDown, NoDefect, At, Held, OpenInPool, ItemIds
  <2>3. Room' /\ Closing'
    BY <1>1, <1>2, <1>4 DEF PoolInv, Room, activeSize, Closing, Still
  <2>. QED BY <2>1, <2>2, <2>3 DEF PoolInv
<1>. QED BY <1>3, <1>4 DEF EndBatch

LEMMA AllocateInv == ASSUME PoolAssumption, PoolInv, Allocate PROVE PoolInv'
<1> DEFINE n == Len(item) + 1
<1>1. /\ resizing.on /\ resizing.allocs > 0 /\ resizing.allocs \in Nat /\ item \in Seq(Items) /\ n \in Nat \ {0}
      /\ UNCHANGED <<borrower, resizers, latch, flush, phase, visited>>
      /\ pool \in [items : SUBSET ItemIds, available : SUBSET ItemIds, invalidated : SUBSET ItemIds]
  BY DEF Allocate, latchVars, shutdownVars, PoolInv, PoolTypeOK
<1>2. PICK ok \in BOOLEAN :
        /\ item' = Append(item, [ok |-> ok, refCount |-> 0, open |-> ok, disableReclaim |-> FALSE])
        /\ resizing' = [resizing EXCEPT !.allocs = @ - 1, !.failed = @ \/ ~ok]
  BY DEF Allocate
<1> DEFINE r == [ok |-> ok, refCount |-> 0, open |-> ok, disableReclaim |-> FALSE]
<1>3. /\ item' \in Seq(Items) /\ Len(item') = n /\ ItemIds' = ItemIds \cup {n} /\ n \notin ItemIds
      /\ item'[n] = r /\ \A i \in ItemIds : item'[i] = item[i]
  <2>1. r \in Items
    BY DEF Items
  <2>2. ItemIds = 1 .. Len(item) /\ Len(item) \in Nat
    BY <1>1 DEF ItemIds
  <2>3. item' \in Seq(Items) /\ Len(item') = n
    BY <1>1, <1>2, <2>1
  <2>4. ItemIds' = 1 .. n
    BY <2>3 DEF ItemIds
  <2>5. item'[n] = r /\ \A i \in ItemIds : item'[i] = item[i]
    BY <1>1, <1>2, <2>1, <2>2
  <2>. QED BY <2>2, <2>3, <2>4, <2>5
<1> HIDE DEF n
<1>4. /\ pool'.items = pool.items \cup {n} /\ pool'.available = pool.available \cup {n}
      /\ pool'.invalidated = pool.invalidated
      /\ pool' \in [items : SUBSET ItemIds', available : SUBSET ItemIds', invalidated : SUBSET ItemIds']
  BY <1>1, <1>3 DEF Allocate
<1>5. resizing' \in [on : BOOLEAN, allocs : Nat, failed : BOOLEAN] /\ resizing'.on
      /\ resizing'.allocs = resizing.allocs - 1
  <2>1. resizing \in [on : BOOLEAN, allocs : Nat, failed : BOOLEAN] /\ resizing.allocs - 1 \in Nat
    BY <1>1 DEF PoolInv, PoolTypeOK
  <2>2. (resizing.failed \/ ~ok) \in BOOLEAN
    OBVIOUS
  <2>. QED BY <1>1, <1>2, <2>1, <2>2
<1>6. PoolTypeOK'
  BY <1>1, <1>3, <1>4, <1>5 DEF PoolInv, PoolTypeOK
<1>7. phase = "open" /\ visited = {}
  BY <1>1 DEF PoolInv, PoolTypeOK, Closing
<1>8. Consistent'
  <2>1. \A u \in Borrowers : borrower[u].of # n
    BY <1>1, <1>3 DEF PoolInv, PoolTypeOK, Held
  <2>2. \A i \in DOMAIN item' : /\ item'[i].refCount = Cardinality({u \in Borrowers : borrower'[u].of = i})
                                /\ item'[i].refCount <= Concurrency
    <3> SUFFICES ASSUME NEW i \in ItemIds'
                 PROVE  item'[i].refCount = Cardinality(HoldersOf(i)') /\ item'[i].refCount <= Concurrency
      BY DEF HoldersOf, ItemIds
    <3>1. CASE i = n
      <4>1. HoldersOf(i)' = {}
        BY <1>1, <2>1, <3>1 DEF HoldersOf
      <4>. QED BY <1>3, <3>1, <4>1, FS_EmptySet DEF PoolAssumption
    <3>2. CASE i \in ItemIds
      <4>1. HoldersOf(i)' = HoldersOf(i)
        BY <1>1 DEF HoldersOf
      <4>. QED BY <1>3, <3>2, <4>1, ItemFacts
    <3>. QED BY <1>3, <3>1, <3>2
  <2>3. pool'.invalidated \cup pool'.available \subseteq pool'.items
    BY <1>4 DEF PoolInv, Consistent
  <2>4. pool'.available = {i \in pool'.items \ pool'.invalidated : item'[i].refCount < Concurrency}
    <3>1. pool.available = {i \in pool.items \ pool.invalidated : item[i].refCount < Concurrency}
      BY <1>7 DEF PoolInv, Consistent, isShuttingDown
    <3>2. \A i \in pool.items : item'[i].refCount = item[i].refCount
      BY <1>1, <1>3
    <3>3. item'[n].refCount < Concurrency /\ n \notin pool.invalidated /\ n \notin pool.items
      BY <1>1, <1>3 DEF PoolAssumption
    <3>. QED BY <1>4, <3>1, <3>2, <3>3
  <2>. QED BY <2>2, <2>3, <2>4 DEF Consistent
<1>9. NoDefect' /\ Held'
  BY <1>1, <1>3, <1>4 DEF PoolInv, NoDefect, At, Held
<1>10. OpenInPool'
  BY <1>1, <1>3, <1>4 DEF PoolInv, OpenInPool
<1>11. Room'
  <2>1. IsFiniteSet(pool.items) /\ Cardinality(pool.items) \in Nat /\ Cardinality(pool.invalidated) \in Nat
    BY <1>1, FiniteItems DEF ItemIds
  <2>2. Cardinality(pool'.items) = Cardinality(pool.items) + 1
    BY <1>1, <1>3, <1>4, <2>1, FS_AddElement
  <2>3. activeSize' = activeSize + 1 /\ activeSize \in Int
    BY <1>4, <2>1, <2>2 DEF activeSize
  <2>. QED BY <1>1, <1>5, <2>3 DEF PoolInv, Room, PoolAssumption
<1>12. Closing'
  BY <1>1, <1>7, <1>5 DEF PoolInv, Closing
<1>. QED BY <1>6, <1>8, <1>9, <1>10, <1>11, <1>12 DEF PoolInv

LEMMA ClosePoolInv == ASSUME PoolAssumption, PoolInv, ClosePool PROVE PoolInv'
<1>1. /\ phase = "open" /\ phase' = "closing" /\ resizers' = 0 /\ resizing' = Still
      /\ UNCHANGED <<item, pool, borrower, latch, flush, visited>>
  BY DEF ClosePool, latchVars
<1>2. PoolTypeOK'
  BY <1>1 DEF PoolInv, PoolTypeOK, ItemIds, Still
<1>3. Consistent' /\ NoDefect' /\ Held' /\ OpenInPool'
  BY <1>1 DEF PoolInv, Consistent, isShuttingDown, NoDefect, At, Held, OpenInPool, ItemIds
<1>4. Room' /\ Closing'
  <2>1. activeSize \in Nat
    BY ActiveCounts DEF PoolInv, Consistent
  <2>2. activeSize' = activeSize /\ activeSize + resizing.allocs <= MaxSize /\ resizing.allocs \in Nat
    BY <1>1 DEF activeSize, PoolInv, Room, PoolTypeOK
  <2>3. activeSize' + resizing'.allocs <= MaxSize /\ resizing'.allocs = 0
    BY <1>1, <2>1, <2>2 DEF Still, PoolAssumption
  <2>. QED BY <1>1, <2>3 DEF PoolInv, Room, Closing, Still
<1>. QED BY <1>2, <1>3, <1>4 DEF PoolInv

LEMMA VisitInv == ASSUME PoolAssumption, PoolInv, NEW i \in pool.items, Visit(i) PROVE PoolInv'
<1>1. /\ phase = "shutting" /\ i \in pool.items \ visited /\ visited' = visited \cup {i}
      /\ UNCHANGED <<borrower, resizers, resizing, latch, flush, phase>>
  BY DEF Visit, resizeVars, latchVars
<1>2. /\ pool \in [items : SUBSET ItemIds, available : SUBSET ItemIds, invalidated : SUBSET ItemIds]
      /\ i \in ItemIds /\ visited \in SUBSET ItemIds /\ isShuttingDown' /\ item[i] \in Items
  BY <1>1, ItemFacts DEF PoolInv, PoolTypeOK, isShuttingDown
<1>3. CASE item[i].refCount > 0 /\ pool' = [pool EXCEPT !.invalidated = @ \cup {i}] /\ UNCHANGED item
  <2>1. /\ pool'.items = pool.items /\ pool'.invalidated = pool.invalidated \cup {i}
        /\ pool'.available = pool.available /\ ItemIds' = ItemIds
        /\ pool' \in [items : SUBSET ItemIds, available : SUBSET ItemIds, invalidated : SUBSET ItemIds]
    BY <1>2, <1>3 DEF ItemIds
  <2>2. PoolTypeOK'
    BY <1>1, <1>2, <1>3, <2>1 DEF PoolInv, PoolTypeOK
  <2>3. Consistent'
    BY <1>1, <1>2, <1>3, <2>1 DEF PoolInv, Consistent
  <2>4. NoDefect' /\ Held' /\ OpenInPool'
    BY <1>1, <1>3, <2>1 DEF PoolInv, NoDefect, At, Held, OpenInPool
  <2>5. Room'
    <3>1. Active' \subseteq Active
      BY <2>1 DEF Active
    <3>2. activeSize' \in Nat /\ activeSize' <= activeSize /\ activeSize \in Nat
      BY <2>2, <2>3, <3>1, FewerActive, ActiveCounts DEF PoolInv, Consistent
    <3>. QED BY <1>1, <3>2 DEF PoolInv, Room, PoolTypeOK, PoolAssumption
  <2>6. Closing'
    BY <1>1, <1>3, <2>1 DEF PoolInv, Closing
  <2>. QED BY <2>2, <2>3, <2>4, <2>5, <2>6 DEF PoolInv
<1>4. CASE item[i].refCount = 0 /\ pool' = Without(i) /\ item' = [item EXCEPT ![i].open = FALSE]
  <2> DEFINE r == [item[i] EXCEPT !.open = FALSE]
  <2>1. r \in Items /\ item' = [item EXCEPT ![i] = r]
    BY <1>2, <1>4 DEF Items
  <2>2. r.refCount = item[i].refCount /\ r.ok = item[i].ok /\ r.open = FALSE
    BY <1>2 DEF Items
  <2> HIDE DEF r
  <2>3. /\ item' \in Seq(Items) /\ ItemIds' = ItemIds /\ item'[i] = r
        /\ \A j \in ItemIds \ {i} : item'[j] = item[j]
    BY <1>2, <2>1, ItemReplaced DEF PoolInv
  <2>4. HoldersOf(i)' = {} /\ \A j : HoldersOf(j)' = HoldersOf(j)
    BY <1>1, <1>2, <1>4, ItemFacts, FiniteHolders, FS_EmptySet DEF HoldersOf
  <2>5. PoolTypeOK'
    <3>1. pool' \in [items : SUBSET ItemIds', available : SUBSET ItemIds', invalidated : SUBSET ItemIds']
      BY <1>2, <1>4, <2>3 DEF Without
    <3>. QED BY <1>1, <1>2, <2>3, <3>1 DEF PoolInv, PoolTypeOK
  <2>6. Consistent'
    <3>1. item'[i].refCount = Cardinality(HoldersOf(i)') /\ item'[i].refCount <= Concurrency
      BY <1>2, <2>2, <2>3, <2>4, ItemFacts
    <3>2. \A j \in DOMAIN item' : /\ item'[j].refCount = Cardinality({v \in Borrowers : borrower'[v].of = j})
                                  /\ item'[j].refCount <= Concurrency
      BY <1>2, <2>3, <2>4, <3>1, Counted
    <3>3. pool'.invalidated \cup pool'.available \subseteq pool'.items
      BY <1>4 DEF Without, PoolInv, Consistent
    <3>. QED BY <1>2, <3>2, <3>3 DEF Consistent
  <2>7. NoDefect' /\ Held'
    <3>1. \A v \in Borrowers : borrower[v].at = "holding" => borrower[v].of # i
      BY <1>1, <2>4 DEF HoldersOf
    <3>2. \A v \in Borrowers : borrower'[v].at = "holding" => borrower'[v].of \in pool'.items /\ item'[borrower'[v].of].ok
      BY <1>1, <1>2, <1>4, <2>3, <3>1 DEF Without, PoolInv, Held
    <3>. QED BY <1>1, <3>2 DEF NoDefect, At, PoolInv, Held
  <2>8. OpenInPool'
    BY <1>2, <1>4, <2>2, <2>3 DEF Without, PoolInv, OpenInPool
  <2>9. Room'
    <3>1. Active' \subseteq Active
      BY <1>4 DEF Active, Without
    <3>2. activeSize' \in Nat /\ activeSize' <= activeSize /\ activeSize \in Nat
      BY <2>5, <2>6, <3>1, FewerActive, ActiveCounts DEF PoolInv, Consistent
    <3>. QED BY <1>1, <3>2 DEF PoolInv, Room, PoolTypeOK, PoolAssumption
  <2>10. Closing'
    <3>1. \A j \in visited' \cap pool'.items : j \in pool'.invalidated /\ item'[j].refCount > 0
      BY <1>1, <1>2, <1>4, <2>3 DEF Without, PoolInv, Closing
    <3>. QED BY <1>1, <3>1 DEF PoolInv, Closing
  <2>. QED BY <2>5, <2>6, <2>7, <2>8, <2>9, <2>10 DEF PoolInv
<1>. QED BY <1>3, <1>4 DEF Visit

LEMMA ShutdownInv == ASSUME PoolAssumption, PoolInv, Shutdown PROVE PoolInv'
<1>1. CASE ShutdownBegins
  <2>1. UNCHANGED <<item, pool, borrower, resizers, resizing, latch, flush, visited>> /\ phase = "closing" /\ phase' = "shutting"
    BY <1>1 DEF ShutdownBegins, resizeVars, latchVars
  <2>2. Closing' /\ (isShuttingDown => isShuttingDown') /\ latch' \in BOOLEAN /\ flush' \in BOOLEAN
    BY <2>1 DEF PoolInv, Closing, isShuttingDown, PoolTypeOK
  <2>. QED BY <2>1, <2>2, AwakeInv
<1>2. CASE \E i \in pool.items : Visit(i)
  BY <1>2, VisitInv
<1>3. CASE ShutdownReleases
  <2>1. /\ UNCHANGED <<item, pool, resizers, resizing, visited>> /\ phase = "shutting" /\ phase' = "draining"
        /\ pool.items \subseteq visited /\ latch' = TRUE /\ flush' = (flush /\ latch)
        /\ borrower' = Awake \/ UNCHANGED borrower
    BY <1>3 DEF ShutdownReleases, resizeVars
  <2>2. Closing' /\ (isShuttingDown => isShuttingDown')
    BY <2>1 DEF PoolInv, Closing, isShuttingDown
  <2>3. latch' \in BOOLEAN /\ flush' \in BOOLEAN
    BY <2>1
  <2>. QED BY <2>1, <2>2, <2>3, AwakeInv
<1>4. CASE ShutdownEnds
  <2>1. UNCHANGED <<item, pool, borrower, resizers, resizing, latch, flush, visited>> /\ phase = "draining" /\ phase' = "closed"
    BY <1>4 DEF ShutdownEnds, resizeVars, latchVars
  <2>2. Closing' /\ (isShuttingDown => isShuttingDown') /\ latch' \in BOOLEAN /\ flush' \in BOOLEAN
    BY <2>1 DEF PoolInv, Closing, isShuttingDown, PoolTypeOK
  <2>. QED BY <2>1, <2>2, AwakeInv
<1>. QED BY <1>1, <1>2, <1>3, <1>4 DEF Shutdown

LEMMA PoolNextInv == ASSUME PoolAssumption, PoolInv, [PoolNext]_poolVars PROVE PoolInv'
<1>1. CASE UNCHANGED poolVars
  <2>1. UNCHANGED <<item, pool, borrower, resizers, resizing, latch, flush, phase, visited>>
    BY <1>1 DEF poolVars, resizeVars, latchVars, shutdownVars
  <2>2. Closing' /\ (isShuttingDown => isShuttingDown') /\ PoolTypeOK'
    BY <2>1 DEF PoolInv, Closing, isShuttingDown, PoolTypeOK, ItemIds
  <2>. QED BY <2>1, <2>2, StaysInv DEF PoolInv, NoDefect, At
<1>2. ASSUME NEW u \in Borrowers, GetItem(u) \/ InterruptGet(u) PROVE PoolInv'
  <2>1. /\ borrower[u].at # "holding" /\ (Goes(u, "queued", 0) \/ Goes(u, "idle", 0))
        /\ UNCHANGED <<item, pool, resizers, resizing, latch, flush, phase, visited>>
    BY <1>2 DEF GetItem, InterruptGet, resizeVars, latchVars, shutdownVars
  <2>2. resizers' \in Nat /\ (phase # "open" => resizers' = 0) /\ latch' \in BOOLEAN /\ flush' \in BOOLEAN
    BY <2>1 DEF PoolInv, PoolTypeOK, Closing
  <2>. QED BY <2>1, <2>2, WalksInv
<1>3. ASSUME NEW u \in Borrowers, UserStep(u) PROVE PoolInv'
  BY <1>3, EnterInv, LoopInv, ReleaseItemInv DEF UserStep
<1>4. ASSUME NEW i \in pool.items, InvalidateItem(i) \/ Expire(i) PROVE PoolInv'
  <2>1. UNCHANGED <<borrower, resizing, latch, flush, phase, visited>> /\ ~isShuttingDown
    BY <1>4 DEF InvalidateItem, Expire, latchVars, shutdownVars, isShuttingDown
  <2>2. CASE InvalidatePoolItem(i, item)
    BY <2>1, <2>2, InvalidatesInv
  <2>3. CASE InvalidatePoolItem(i, [item EXCEPT ![i].disableReclaim = TRUE])
    BY <2>1, <2>3, InvalidatesInv
  <2>. QED BY <1>4, <2>2, <2>3 DEF InvalidateItem, Expire
<1>5. CASE FlushWaiters
  <2>1. UNCHANGED <<item, pool, resizers, resizing, visited, latch, phase>> /\ borrower' = Awake /\ flush' = FALSE
    BY <1>5 DEF FlushWaiters, resizeVars, shutdownVars
  <2>2. Closing' /\ (isShuttingDown => isShuttingDown') /\ latch' \in BOOLEAN /\ flush' \in BOOLEAN
        /\ phase' \in {"open", "closing", "shutting", "draining", "closed"}
    BY <2>1 DEF PoolInv, Closing, isShuttingDown, PoolTypeOK
  <2>. QED BY <2>1, <2>2, AwakeInv
<1>6. CASE StartResize \/ Allocate \/ EndBatch
  BY <1>6, StartResizeInv, AllocateInv, EndBatchInv
<1>7. CASE ClosePool \/ Shutdown
  BY <1>7, ClosePoolInv, ShutdownInv
<1>. QED BY <1>1, <1>2, <1>3, <1>4, <1>5, <1>6, <1>7 DEF PoolNext, PoolStep

LEMMA PoolInvSafe == ASSUME PoolAssumption, PoolInv PROVE PoolSafe
<1>1. NoReleasedItemHeld
  <2> SUFFICES ASSUME NEW u \in Borrowers, borrower[u].at = "holding" PROVE item[borrower[u].of].open
    BY DEF NoReleasedItemHeld, At
  <2>1. borrower[u].of \in pool.items /\ item[borrower[u].of].ok /\ pool.items \subseteq ItemIds
    BY DEF PoolInv, Held, PoolTypeOK
  <2>. QED BY <2>1 DEF PoolInv, OpenInPool
<1>2. ASSUME phase = "closed", At("holding") = {}, NEW i \in ItemIds PROVE ~item[i].open
  <2>1. i # 0
    BY DEF PoolInv, PoolTypeOK, ItemIds
  <2>2. HoldersOf(i) = {}
    BY <1>2, <2>1 DEF HoldersOf, At, PoolInv, Held
  <2>3. item[i].refCount = 0
    BY <2>2, ItemFacts, FS_EmptySet
  <2>4. i \notin pool.items
    BY <1>2, <2>3 DEF PoolInv, Closing
  <2>. QED BY <2>4 DEF PoolInv, OpenInPool
<1>3. SizeBound
  BY DEF PoolInv, Room, SizeBound
<1>. QED BY <1>1, <1>2, <1>3 DEF PoolSafe, PoolInv, PoolLeaksNothing, ItemIds

\* A pool's books agree, a get that has been let in finds an item, nobody is
\* left with a released one, there are never more than the maximum, and a
\* shutdown leaves none behind (Pool.ts:377-397, 429-488, 524-559, 650-686).
THEOREM PoolIsSafe == ASSUME PoolAssumption PROVE PoolSpec => []PoolSafe
<1>1. PoolInit => PoolInv
  BY PoolInitInv
<1>2. PoolInv /\ [PoolNext]_poolVars => PoolInv'
  BY PoolNextInv
<1>3. PoolInv => PoolSafe
  BY PoolInvSafe
<1>. QED BY <1>1, <1>2, <1>3, PTL DEF PoolSpec

(***************************************************************************)
(* Batches of requests.                                                    *)
(***************************************************************************)
Entry == [entry : Requests \cup {None}, exit : BOOLEAN]

BatchTypeOK ==
  /\ status \in [Requests -> {"idle", "waiting", "done", "interrupted", "defect"}]
  /\ answer \in [Requests -> Batches \cup {None}]
  /\ current \in [Keys -> Batches \cup {None}]
  /\ at \in [Batches -> {"free", "delay", "due", "running"}]
  /\ entries \in [Batches -> SUBSET Requests] /\ entrySet \in [Batches -> SUBSET Requests]
  /\ sent \in [Batches -> SUBSET Requests]
  /\ cache \in [Values -> Entry]
  /\ followers \in [Requests -> SUBSET Requests] /\ bound \in SUBSET Requests

Pending(r) == \E b \in Batches : r \in entrySet[b]

\* A request that has not begun is nowhere.
Fresh == \A r \in Requests : status[r] = "idle" =>
  /\ answer[r] = None /\ \A b \in Batches : r \notin entries[b]
  /\ \A q \in Requests : r \notin followers[q]
\* What a batch has if no delay completes at once: no more than fits, of one key.
Sized(b) == /\ at[b] = "free" => entries[b] = {}
            /\ at[b] = "running" => sent[b] # {}
            /\ Cardinality(entries[b]) <= Limit /\ (at[b] = "delay" => Cardinality(entries[b]) < Limit)
            /\ \A r, q \in entries[b] : Key[r] = Key[q]
\* The books of a batch.
Collected == \A b \in Batches :
  /\ entries[b] = {} => at[b] = "free"
  /\ entrySet[b] \subseteq entries[b] /\ (at[b] # "running" => entrySet[b] = entries[b])
  /\ sent[b] \subseteq entries[b] /\ (at[b] # "running" => sent[b] = {})
  /\ at[b] # "running" => \A r \in entries[b] : answer[r] = None
  /\ ~Immediate => Sized(b)
\* The map has batches that still collect, each under one key, that of its entries.
Mapped == \A k \in Keys : current[k] # None =>
  /\ at[current[k]] = "delay" /\ \A l \in Keys : current[l] = current[k] => l = k
  /\ ~Immediate => \A r \in entries[current[k]] : Key[r] = k
\* No entry is in two batches, and who is linked to an entry is in none.
Apart == /\ \A b, c \in Batches : entries[b] \cap entries[c] # {} => b = c
         /\ \A q \in Requests : followers[q] # {} => q \in bound
         /\ \A q \in Requests, b \in Batches : followers[q] \cap entries[b] = {}
\* Who waits waits for an entry that is not completed.
Waits == \A r \in Requests : status[r] = "waiting" =>
  \E q \in Requests : (r = q \/ r \in followers[q]) /\ Pending(q)
\* The cache has entries of the value it has them for, completed or not yet.
Remembered == \A v \in Values :
  /\ cache[v].exit => cache[v].entry # None
  /\ cache[v].entry # None => Value[cache[v].entry] = v
  /\ cache[v].entry # None /\ ~cache[v].exit => Pending(cache[v].entry)
  /\ ~Cached => cache[v] = Missing

BatchInv == BatchTypeOK /\ Fresh /\ Collected /\ Mapped /\ Apart /\ Waits /\ Remembered

LEMMA BatchInitInv == ASSUME RequestBatchAssumption PROVE BatchInit => BatchInv
<1> SUFFICES ASSUME BatchInit PROVE BatchInv
  OBVIOUS
<1>1. BatchTypeOK
  BY DEF BatchInit, BatchTypeOK, Entry, Missing
<1>2. Fresh /\ Mapped /\ Apart /\ Waits
  BY DEF BatchInit, Fresh, Mapped, Apart, Waits, RequestBatchAssumption
<1>3. Collected
  BY FS_EmptySet DEF BatchInit, Collected, Sized, RequestBatchAssumption
<1>4. Remembered
  BY DEF BatchInit, Remembered, Missing
<1>. QED BY <1>1, <1>2, <1>3, <1>4 DEF BatchInv

--------------------------------------------------------------------------
(* The steps.                                                              *)

LEMMA FiniteEntries ==
  ASSUME RequestBatchAssumption, NEW S \in SUBSET Requests
  PROVE  IsFiniteSet(S) /\ Cardinality(S) \in Nat
BY FS_Subset, FS_CardinalityType DEF RequestBatchAssumption

\* What collecting an entry keeps, if the cache has it or not.
LEMMA CollectInv ==
  ASSUME RequestBatchAssumption, BatchInv, NEW r \in Requests, status[r] = "idle", Collect(r),
         status' = [status EXCEPT ![r] = "waiting"], UNCHANGED <<answer, followers, bound>>,
         \/ UNCHANGED cache
         \/ Cached /\ cache[Value[r]] = Missing /\ cache' = [cache EXCEPT ![Value[r]].entry = r]
  PROVE  BatchInv'
<1>1. PICK b \in Batches :
        /\ IF current[Key[r]] = None THEN at[b] = "free" ELSE b = current[Key[r]]
        /\ entries' = [entries EXCEPT ![b] = @ \cup {r}]
        /\ entrySet' = [entrySet EXCEPT ![b] = @ \cup {r}]
        /\ at' = [at EXCEPT ![b] = IF Full(entries'[b]) THEN "due" ELSE "delay"]
        /\ current' = [current EXCEPT ![Key[r]] = IF Full(entries'[b]) THEN None ELSE b]
        /\ UNCHANGED sent
  BY DEF Collect
<1>2. /\ status \in [Requests -> {"idle", "waiting", "done", "interrupted", "defect"}]
      /\ answer \in [Requests -> Batches \cup {None}]
      /\ current \in [Keys -> Batches \cup {None}]
      /\ at \in [Batches -> {"free", "delay", "due", "running"}]
      /\ entries \in [Batches -> SUBSET Requests] /\ entrySet \in [Batches -> SUBSET Requests]
      /\ cache \in [Values -> Entry] /\ Key[r] \in Keys /\ Value[r] \in Values
  BY DEF BatchInv, BatchTypeOK, Keys, Values
<1>3. /\ entries'[b] = entries[b] \cup {r} /\ entrySet'[b] = entrySet[b] \cup {r}
      /\ \A c \in Batches \ {b} : entries'[c] = entries[c] /\ entrySet'[c] = entrySet[c] /\ at'[c] = at[c]
      /\ at'[b] = IF Full(entries'[b]) THEN "due" ELSE "delay"
  BY <1>1, <1>2
<1>4. /\ at[b] \in {"free", "delay"} /\ entrySet[b] = entries[b] /\ \A c \in Batches : r \notin entries[c]
      /\ answer[r] = None /\ \A q \in entries[b] : answer[q] = None
      /\ ~Immediate => /\ at[b] = "free" => entries[b] = {}
                       /\ \A q \in entries[b] : Key[q] = Key[r]
  BY <1>1, <1>2 DEF BatchInv, Fresh, Mapped, Collected, Sized
<1>5. /\ Cardinality(entries'[b]) = Cardinality(entries[b]) + 1 /\ Cardinality(entries[b]) \in Nat
      /\ (~Immediate => Cardinality(entries[b]) < Limit) /\ Limit \in Nat
  <2>1. entries[b] \in SUBSET Requests
    BY <1>2
  <2>2. Cardinality(entries[b]) \in Nat /\ Cardinality(entries'[b]) = Cardinality(entries[b]) + 1
    BY <1>3, <1>4, <2>1, FiniteEntries, FS_AddElement
  <2>3. Limit \in Nat \ {0}
    BY DEF RequestBatchAssumption
  <2>4. ASSUME ~Immediate PROVE Cardinality(entries[b]) < Limit
    <3>1. CASE at[b] = "free"
      <4>1. Cardinality(entries[b]) = 0
        BY <1>4, <2>4, <3>1, FS_EmptySet
      <4>. QED BY <2>3, <4>1
    <3>2. CASE at[b] = "delay"
      BY <2>4, <3>2 DEF BatchInv, Collected, Sized
    <3>. QED BY <1>4, <3>1, <3>2
  <2>. QED BY <2>2, <2>3, <2>4
<1>6. BatchTypeOK'
  <2>1. cache' \in [Values -> Entry]
    BY <1>2 DEF Entry
  <2>2. current' \in [Keys -> Batches \cup {None}] /\ at' \in [Batches -> {"free", "delay", "due", "running"}]
    BY <1>1, <1>2
  <2>3. entries' \in [Batches -> SUBSET Requests] /\ entrySet' \in [Batches -> SUBSET Requests]
    BY <1>1, <1>2
  <2>. QED BY <1>1, <1>2, <2>1, <2>2, <2>3 DEF BatchInv, BatchTypeOK
<1>7. Fresh'
  <2> SUFFICES ASSUME NEW q \in Requests, status'[q] = "idle"
               PROVE  /\ answer'[q] = None /\ \A c \in Batches : q \notin entries'[c]
                      /\ \A p \in Requests : q \notin followers'[p]
    BY DEF Fresh
  <2>1. q # r /\ status[q] = "idle"
    BY <1>2
  <2>. QED BY <1>3, <2>1 DEF BatchInv, Fresh
<1>8. Collected'
  <2> SUFFICES ASSUME NEW c \in Batches
               PROVE  /\ entries'[c] = {} => at'[c] = "free"
                      /\ entrySet'[c] \subseteq entries'[c] /\ (at'[c] # "running" => entrySet'[c] = entries'[c])
                      /\ sent'[c] \subseteq entries'[c] /\ (at'[c] # "running" => sent'[c] = {})
                      /\ at'[c] # "running" => \A q \in entries'[c] : answer'[q] = None
                      /\ ~Immediate => Sized(c)'
    BY DEF Collected
  <2>1. CASE c # b
    BY <1>1, <1>3, <2>1 DEF BatchInv, Collected, Sized
  <2>2. CASE c = b
    <3>1. at'[c] # "free" /\ at'[c] # "running" /\ entries'[c] # {} /\ entrySet'[c] = entries'[c]
      BY <1>3, <1>4, <2>2
    <3>2. sent'[c] = {}
      BY <1>1, <1>4, <2>2 DEF BatchInv, Collected
    <3>3. \A q \in entries'[c] : answer'[q] = None
      BY <1>3, <1>4, <2>2
    <3>4. ~Immediate => Cardinality(entries'[c]) <= Limit /\ (at'[c] = "delay" => Cardinality(entries'[c]) < Limit)
      <4>1. Full(entries'[b]) <=> Cardinality(entries'[b]) >= Limit
        BY DEF Full
      <4>2. at'[b] = "delay" => ~Full(entries'[b])
        BY <1>3
      <4>. QED BY <1>5, <2>2, <4>1, <4>2
    <3>5. ~Immediate => \A p, q \in entries'[c] : Key[p] = Key[q]
      BY <1>3, <1>4, <2>2
    <3>. QED BY <3>1, <3>2, <3>3, <3>4, <3>5 DEF Sized
  <2>. QED BY <2>1, <2>2
<1>9. Mapped'
  <2> SUFFICES ASSUME NEW k \in Keys, current'[k] # None
               PROVE  /\ at'[current'[k]] = "delay" /\ \A l \in Keys : current'[l] = current'[k] => l = k
                      /\ ~Immediate => \A q \in entries'[current'[k]] : Key[q] = k
    BY DEF Mapped
  <2>0. \A l \in Keys \ {Key[r]} : current'[l] = current[l] /\ current[l] # b
    BY <1>1, <1>2 DEF BatchInv, Mapped, RequestBatchAssumption
  <2>1. CASE k = Key[r]
    <3>1. current'[k] = b /\ ~Full(entries'[b])
      BY <1>1, <1>2, <2>1
    <3>. QED BY <1>3, <1>4, <2>0, <2>1, <3>1
  <2>2. CASE k # Key[r]
    <3>1. current'[k] = current[k] /\ current[k] \in Batches
      BY <1>1, <1>2, <2>2
    <3>2. /\ at[current[k]] = "delay" /\ \A l \in Keys : current[l] = current[k] => l = k
          /\ ~Immediate => \A q \in entries[current[k]] : Key[q] = k
      BY <2>2, <3>1 DEF BatchInv, Mapped
    <3>3. current[k] # b
      BY <2>0, <2>2
    <3>4. current'[Key[r]] \in {None, b}
      BY <1>1, <1>2
    <3>. QED BY <1>3, <2>0, <2>2, <3>1, <3>2, <3>3, <3>4
  <2>. QED BY <2>1, <2>2
<1>10. Apart'
  <2>1. ASSUME NEW c \in Batches, NEW d \in Batches, entries'[c] \cap entries'[d] # {} PROVE c = d
    BY <1>3, <1>4, <2>1 DEF BatchInv, Apart
  <2>2. ASSUME NEW q \in Requests, NEW c \in Batches PROVE followers'[q] \cap entries'[c] = {}
    BY <1>3 DEF BatchInv, Apart, Fresh
  <2>. QED BY <2>1, <2>2 DEF BatchInv, Apart
<1>11. \A q \in Requests : Pending(q) => Pending(q)'
  BY <1>3 DEF Pending
<1>12. Pending(r)'
  BY <1>3 DEF Pending
<1>13. Waits'
  <2> SUFFICES ASSUME NEW q \in Requests, status'[q] = "waiting"
               PROVE  \E p \in Requests : (q = p \/ q \in followers'[p]) /\ Pending(p)'
    BY DEF Waits
  <2>1. CASE q = r
    BY <1>12, <2>1
  <2>2. CASE q # r
    <3>1. status[q] = "waiting"
      BY <1>2, <2>2
    <3>. QED BY <1>11, <3>1 DEF BatchInv, Waits
  <2>. QED BY <2>1, <2>2
<1>14. Remembered'
  <2>1. CASE UNCHANGED cache
    <3>1. \A v \in Values : cache[v].entry \in Requests \cup {None}
      BY <1>2 DEF Entry
    <3>. QED BY <1>11, <2>1, <3>1 DEF BatchInv, Remembered
  <2>2. CASE Cached /\ cache[Value[r]] = Missing /\ cache' = [cache EXCEPT ![Value[r]].entry = r]
    <3> SUFFICES ASSUME NEW v \in Values
                 PROVE  /\ cache'[v].exit => cache'[v].entry # None
                        /\ cache'[v].entry # None => Value[cache'[v].entry] = v
                        /\ cache'[v].entry # None /\ ~cache'[v].exit => Pending(cache[v].entry)'
                        /\ ~Cached => cache'[v] = Missing
      BY DEF Remembered
    <3>1. CASE v = Value[r]
      <4>1. cache'[v].entry = r /\ ~cache'[v].exit
        <5>1. cache'[v] = [cache[v] EXCEPT !.entry = r]
          BY <1>2, <2>2, <3>1
        <5>2. cache[v] = [entry |-> None, exit |-> FALSE]
          BY <2>2, <3>1 DEF Missing
        <5>3. cache[v].exit = FALSE /\ DOMAIN cache[v] = {"entry", "exit"}
          BY <5>2
        <5>. QED BY <5>1, <5>3
      <4>2. r # None
        BY DEF RequestBatchAssumption
      <4>. QED BY <1>12, <2>2, <3>1, <4>1, <4>2
    <3>2. CASE v # Value[r]
      <4>1. cache'[v] = cache[v] /\ cache[v].entry \in Requests \cup {None}
        BY <1>2, <2>2, <3>2 DEF Entry
      <4>. QED BY <1>11, <4>1 DEF BatchInv, Remembered
    <3>. QED BY <3>1, <3>2
  <2>. QED BY <2>1, <2>2
<1>. QED BY <1>6, <1>7, <1>8, <1>9, <1>10, <1>13, <1>14 DEF BatchInv

\* What the entry of the cache is that preCheck leaves.
LEMMA AddedEntry ==
  ASSUME RequestBatchAssumption, BatchInv, NEW r \in Requests, Opens(r)
  PROVE  /\ Added(r) \in [Values -> Entry] /\ r # None /\ Value[r] \in Values
         /\ ~Cached => Added(r) = cache
         /\ Cached => Added(r)[Value[r]].entry = r /\ ~Added(r)[Value[r]].exit
         /\ \A v \in Values : ~Cached \/ v # Value[r] => Added(r)[v] = cache[v]
<1>1. cache \in [Values -> Entry] /\ Value[r] \in Values
  BY DEF BatchInv, BatchTypeOK, Values
<1>2. CASE ~Cached
  BY <1>1, <1>2 DEF Added, RequestBatchAssumption
<1>3. CASE Cached
  <2>1. cache[Value[r]] = [entry |-> None, exit |-> FALSE]
    BY <1>3 DEF Opens, Missing
  <2>2. Added(r) = [cache EXCEPT ![Value[r]].entry = r]
    BY <1>3 DEF Added
  <2>3. Added(r)[Value[r]].entry = r /\ ~Added(r)[Value[r]].exit
    <3>1. Added(r)[Value[r]] = [cache[Value[r]] EXCEPT !.entry = r]
      BY <1>1, <2>2
    <3>2. cache[Value[r]].exit = FALSE /\ DOMAIN cache[Value[r]] = {"entry", "exit"}
      BY <2>1
    <3>. QED BY <3>1, <3>2
  <2>4. \A v \in Values : v # Value[r] => Added(r)[v] = cache[v]
    BY <1>1, <2>2
  <2>5. Added(r) \in [Values -> Entry]
    BY <1>1, <2>2 DEF Entry
  <2>. QED BY <1>1, <1>3, <2>3, <2>4, <2>5 DEF RequestBatchAssumption
<1>. QED BY <1>2, <1>3

LEMMA RequestWhileRunningInv ==
  ASSUME RequestBatchAssumption, BatchInv, NEW r \in Requests, RequestWhileRunning(r)
  PROVE  BatchInv'
<1>1. PICK b \in Batches :
        /\ at[b] = "free" /\ at' = [at EXCEPT ![b] = "running"] /\ sent' = [sent EXCEPT ![b] = entries[b]]
        /\ entries' = [entries EXCEPT ![b] = @ \cup {r}] /\ entrySet' = [entrySet EXCEPT ![b] = @ \cup {r}]
  BY DEF RequestWhileRunning
<1>2. /\ Immediate /\ Opens(r) /\ status[r] = "idle" /\ status' = [status EXCEPT ![r] = "waiting"]
      /\ cache' = Added(r) /\ UNCHANGED <<answer, current, followers, bound>>
  BY DEF RequestWhileRunning, Opens
<1>3. /\ status \in [Requests -> {"idle", "waiting", "done", "interrupted", "defect"}]
      /\ at \in [Batches -> {"free", "delay", "due", "running"}] /\ current \in [Keys -> Batches \cup {None}]
      /\ entries \in [Batches -> SUBSET Requests] /\ entrySet \in [Batches -> SUBSET Requests]
      /\ sent \in [Batches -> SUBSET Requests] /\ cache \in [Values -> Entry]
  BY DEF BatchInv, BatchTypeOK
<1>4. /\ entries'[b] = entries[b] \cup {r} /\ entrySet'[b] = entrySet[b] \cup {r}
      /\ at'[b] = "running" /\ sent'[b] = entries[b]
      /\ \A c \in Batches \ {b} : /\ entries'[c] = entries[c] /\ entrySet'[c] = entrySet[c]
                                  /\ at'[c] = at[c] /\ sent'[c] = sent[c]
  BY <1>1, <1>3
<1>5. \A q \in Requests : status'[q] = IF q = r THEN "waiting" ELSE status[q]
  BY <1>2, <1>3
<1>6. BatchTypeOK'
  <2>1. /\ entries' \in [Batches -> SUBSET Requests] /\ entrySet' \in [Batches -> SUBSET Requests]
        /\ sent' \in [Batches -> SUBSET Requests] /\ at' \in [Batches -> {"free", "delay", "due", "running"}]
    BY <1>1, <1>3
  <2>2. status' \in [Requests -> {"idle", "waiting", "done", "interrupted", "defect"}] /\ cache' \in [Values -> Entry]
    BY <1>2, <1>3, AddedEntry
  <2>. QED BY <1>2, <2>1, <2>2 DEF BatchInv, BatchTypeOK
<1>7. (\A q \in Requests : Pending(q) => Pending(q)') /\ Pending(r)'
  BY <1>4 DEF Pending
<1>8. Fresh'
  BY <1>2, <1>4, <1>5 DEF BatchInv, Fresh
<1>9. Collected'
  BY <1>1, <1>2, <1>4 DEF BatchInv, Collected
<1>10. Mapped'
  BY <1>1, <1>2, <1>3, <1>4 DEF BatchInv, Mapped
<1>11. Apart'
  <2>1. \A c \in Batches : r \notin entries[c]
    BY <1>2 DEF BatchInv, Fresh
  <2>2. ASSUME NEW c \in Batches, NEW d \in Batches, entries'[c] \cap entries'[d] # {} PROVE c = d
    BY <1>4, <2>1, <2>2 DEF BatchInv, Apart
  <2>3. ASSUME NEW q \in Requests, NEW c \in Batches PROVE followers'[q] \cap entries'[c] = {}
    BY <1>2, <1>4 DEF BatchInv, Apart, Fresh
  <2>. QED BY <1>2, <2>2, <2>3 DEF BatchInv, Apart
<1>12. Waits'
  BY <1>2, <1>5, <1>7 DEF BatchInv, Waits
<1>13. Remembered'
  <2> SUFFICES ASSUME NEW v \in Values
               PROVE  /\ cache'[v].exit => cache'[v].entry # None
                      /\ cache'[v].entry # None => Value[cache'[v].entry] = v
                      /\ cache'[v].entry # None /\ ~cache'[v].exit => Pending(cache[v].entry)'
                      /\ ~Cached => cache'[v] = Missing
    BY DEF Remembered
  <2>1. CASE Cached /\ v = Value[r]
    BY <1>2, <1>7, <2>1, AddedEntry
  <2>2. CASE ~Cached \/ v # Value[r]
    <3>1. cache'[v] = cache[v] /\ cache[v].entry \in Requests \cup {None}
      BY <1>2, <1>3, <2>2, AddedEntry DEF Entry
    <3>. QED BY <1>7, <3>1 DEF BatchInv, Remembered
  <2>. QED BY <2>1, <2>2
<1>. QED BY <1>6, <1>8, <1>9, <1>10, <1>11, <1>12, <1>13 DEF BatchInv

\* The pooled entries S are answered, and r is left in the batch or answered with them.
LEMMA RequestTooLateInv ==
  ASSUME RequestBatchAssumption, BatchInv, NEW r \in Requests, RequestTooLate(r)
  PROVE  BatchInv'
<1>1. PICK b \in Batches, left \in {{}, {r}} :
       LET S == entrySet[b] \cup ({r} \ left)
           c == Added(r)
       IN /\ at[b] = "free"
          /\ status' = [q \in Requests |-> IF q = r THEN "defect"
                          ELSE IF q \in Linked(S) /\ status[q] = "waiting" THEN "done" ELSE status[q]]
          /\ answer' = [q \in Requests |-> IF q \in Linked(S) /\ answer[q] = None THEN b ELSE answer[q]]
          /\ entries' = [entries EXCEPT ![b] = left] /\ entrySet' = [entrySet EXCEPT ![b] = left]
          /\ cache' \in Evicted([v \in Values |-> IF c[v].entry \in S THEN [c[v] EXCEPT !.exit = TRUE] ELSE c[v]])
  BY DEF RequestTooLate
<1> DEFINE S == entrySet[b] \cup ({r} \ left)
           c == Added(r)
           marked == [v \in Values |-> IF c[v].entry \in S THEN [c[v] EXCEPT !.exit = TRUE] ELSE c[v]]
<1>2. /\ Immediate /\ Opens(r) /\ status[r] = "idle"
      /\ UNCHANGED <<current, at, sent, followers, bound>>
  BY DEF RequestTooLate, Opens
<1>3. /\ status \in [Requests -> {"idle", "waiting", "done", "interrupted", "defect"}]
      /\ answer \in [Requests -> Batches \cup {None}]
      /\ at \in [Batches -> {"free", "delay", "due", "running"}] /\ current \in [Keys -> Batches \cup {None}]
      /\ entries \in [Batches -> SUBSET Requests] /\ entrySet \in [Batches -> SUBSET Requests]
      /\ followers \in [Requests -> SUBSET Requests] /\ cache \in [Values -> Entry]
      /\ c \in [Values -> Entry]
  BY <1>2, AddedEntry DEF BatchInv, BatchTypeOK
<1>4. /\ entries'[b] = left /\ entrySet'[b] = left /\ at[b] = "free" /\ sent[b] = {}
      /\ entrySet[b] = entries[b] /\ (\A q \in entries[b] : answer[q] = None)
      /\ \A d \in Batches \ {b} : entries'[d] = entries[d] /\ entrySet'[d] = entrySet[d]
  BY <1>1, <1>3 DEF BatchInv, Collected
<1>5. /\ answer[r] = None /\ \A d \in Batches : r \notin entries[d] /\ r \notin entrySet[d]
      /\ \A q \in Requests : r \notin followers[q]
  BY <1>2 DEF BatchInv, Fresh, Collected
<1>6. S \subseteq Requests /\ (r \in S <=> left = {}) /\ (r \in left <=> left # {}) /\ left \subseteq {r}
      /\ \A q \in S : q \in entries[b] \/ q = r
  BY <1>1, <1>3, <1>4, <1>5
<1>7. /\ \A q \in Requests : status'[q] = IF q = r THEN "defect"
                                  ELSE IF q \in Linked(S) /\ status[q] = "waiting" THEN "done" ELSE status[q]
      /\ \A q \in Requests : answer'[q] = IF q \in Linked(S) /\ answer[q] = None THEN b ELSE answer[q]
      /\ status' \in [Requests -> {"idle", "waiting", "done", "interrupted", "defect"}]
      /\ answer' \in [Requests -> Batches \cup {None}]
  BY <1>1, <1>3
<1>8. cache' \in [Values -> Entry] /\ \A v \in Values : cache'[v] \in {Missing, marked[v]}
  <2>1. cache' \in Evicted(marked)
    BY <1>1
  <2>2. marked \in [Values -> Entry] /\ Missing \in Entry
    BY <1>3 DEF Entry, Missing
  <2> HIDE DEF marked
  <2>3. (\A v \in Values : cache'[v] \in {Missing, marked[v]}) /\ cache' = [v \in Values |-> cache'[v]]
    BY <2>1, <2>2 DEF Evicted
  <2>. QED BY <2>2, <2>3
<1>9. \A v \in Values : marked[v] = IF c[v].entry \in S THEN [c[v] EXCEPT !.exit = TRUE] ELSE c[v]
  OBVIOUS
<1> HIDE DEF S, c, marked
<1>10. ASSUME NEW q \in Linked(S)
       PROVE  q \in S \/ \E p \in S : q \in followers[p]
  BY DEF Linked
<1>11. BatchTypeOK'
  <2>1. entries' \in [Batches -> SUBSET Requests] /\ entrySet' \in [Batches -> SUBSET Requests]
    BY <1>1, <1>3
  <2>. QED BY <1>2, <1>7, <1>8, <2>1 DEF BatchInv, BatchTypeOK
<1>12. (\A q \in Requests \ S : Pending(q) => Pending(q)') /\ (r \notin S => Pending(r)')
  <2>1. \A q \in entrySet[b] : q \in S
    BY DEF S
  <2>. QED BY <1>4, <1>6, <2>1 DEF Pending
<1>13. Fresh'
  <2> SUFFICES ASSUME NEW q \in Requests, status'[q] = "idle"
               PROVE  /\ answer'[q] = None /\ \A d \in Batches : q \notin entries'[d]
                      /\ \A p \in Requests : q \notin followers'[p]
    BY DEF Fresh
  <2>1. q # r /\ status[q] = "idle"
    BY <1>7
  <2>2. answer[q] = None /\ (\A d \in Batches : q \notin entries[d]) /\ \A p \in Requests : q \notin followers[p]
    BY <2>1 DEF BatchInv, Fresh
  <2>3. q \notin Linked(S)
    BY <1>6, <1>10, <2>1, <2>2
  <2>. QED BY <1>2, <1>4, <1>6, <1>7, <2>1, <2>2, <2>3
<1>14. Collected'
  <2> SUFFICES ASSUME NEW d \in Batches
               PROVE  /\ entries'[d] = {} => at'[d] = "free"
                      /\ entrySet'[d] \subseteq entries'[d] /\ (at'[d] # "running" => entrySet'[d] = entries'[d])
                      /\ sent'[d] \subseteq entries'[d] /\ (at'[d] # "running" => sent'[d] = {})
                      /\ at'[d] # "running" => \A q \in entries'[d] : answer'[q] = None
    BY <1>2 DEF Collected
  <2>1. CASE d # b
    <3>1. ASSUME NEW q \in entries[d] PROVE q \notin Linked(S) /\ q \in Requests
      BY <1>3, <1>5, <1>6, <1>10, <2>1 DEF BatchInv, Apart
    <3>2. at'[d] # "running" => \A q \in entries'[d] : answer'[q] = None
      BY <1>2, <1>4, <1>7, <2>1, <3>1 DEF BatchInv, Collected
    <3>. QED BY <1>2, <1>4, <2>1, <3>2 DEF BatchInv, Collected
  <2>2. CASE d = b
    <3>1. r \in left => r \notin Linked(S)
      BY <1>5, <1>6, <1>10
    <3>2. \A q \in left : answer'[q] = None
      BY <1>5, <1>6, <1>7, <3>1
    <3>. QED BY <1>2, <1>4, <2>2, <3>2
  <2>. QED BY <2>1, <2>2
<1>15. Mapped'
  BY <1>2 DEF BatchInv, Mapped
<1>16. Apart'
  <2>1. ASSUME NEW d \in Batches, NEW e \in Batches, entries'[d] \cap entries'[e] # {} PROVE d = e
    BY <1>4, <1>5, <1>6, <2>1 DEF BatchInv, Apart
  <2>2. ASSUME NEW q \in Requests, NEW d \in Batches PROVE followers'[q] \cap entries'[d] = {}
    BY <1>2, <1>4, <1>5, <1>6 DEF BatchInv, Apart
  <2>. QED BY <1>2, <2>1, <2>2 DEF BatchInv, Apart
<1>17. Waits'
  <2> SUFFICES ASSUME NEW q \in Requests, status'[q] = "waiting"
               PROVE  \E p \in Requests : (q = p \/ q \in followers'[p]) /\ Pending(p)'
    BY DEF Waits
  <2>1. status[q] = "waiting" /\ q \notin Linked(S)
    BY <1>7
  <2>2. PICK p \in Requests : (q = p \/ q \in followers[p]) /\ Pending(p)
    BY <2>1 DEF BatchInv, Waits
  <2>3. p \notin S
    BY <2>1, <2>2 DEF Linked
  <2>. QED BY <1>2, <1>12, <2>2, <2>3
<1>18. Remembered'
  <2> SUFFICES ASSUME NEW v \in Values
               PROVE  /\ cache'[v].exit => cache'[v].entry # None
                      /\ cache'[v].entry # None => Value[cache'[v].entry] = v
                      /\ cache'[v].entry # None /\ ~cache'[v].exit => Pending(cache[v].entry)'
                      /\ ~Cached => cache'[v] = Missing
    BY DEF Remembered
  <2>1. /\ c[v] \in Entry /\ c[v].entry \in Requests \cup {None}
        /\ c[v].exit => c[v].entry # None
        /\ c[v].entry # None => Value[c[v].entry] = v
        /\ c[v].entry # None /\ ~c[v].exit => c[v].entry = r \/ Pending(c[v].entry)
        /\ ~Cached => c[v] = Missing
    <3>1. c[v] \in Entry /\ c[v].entry \in Requests \cup {None}
      BY <1>3 DEF Entry
    <3>2. CASE Cached /\ v = Value[r]
      <4>1. c[v].entry = r /\ ~c[v].exit /\ r # None
        BY <1>2, <3>2, AddedEntry DEF c
      <4>. QED BY <3>1, <3>2, <4>1
    <3>3. CASE ~Cached \/ v # Value[r]
      <4>1. c[v] = cache[v]
        BY <1>2, <3>3, AddedEntry DEF c
      <4>. QED BY <3>1, <4>1 DEF BatchInv, Remembered
    <3>. QED BY <3>2, <3>3
  <2>2. CASE cache'[v] = Missing
    BY <2>2 DEF Missing
  <2>3. CASE cache'[v] = marked[v] /\ c[v].entry \notin S
    <3>1. cache'[v] = c[v]
      BY <1>9, <2>3
    <3>2. c[v].entry # None /\ ~c[v].exit => Pending(cache[v].entry)'
      BY <1>12, <2>1, <2>3, <3>1
    <3>. QED BY <2>1, <3>1, <3>2
  <2>4. CASE cache'[v] = marked[v] /\ c[v].entry \in S
    <3>1. cache'[v] = [c[v] EXCEPT !.exit = TRUE]
      BY <1>9, <2>4
    <3>2. cache'[v].entry = c[v].entry /\ cache'[v].exit
      BY <2>1, <3>1 DEF Entry
    <3>3. c[v].entry # None
      BY <1>6, <2>4 DEF RequestBatchAssumption
    <3>4. Cached
      BY <2>1, <3>3 DEF Missing
    <3>. QED BY <2>1, <3>2, <3>3, <3>4
  <2>. QED BY <1>8, <2>2, <2>3, <2>4
<1>. QED BY <1>11, <1>13, <1>14, <1>15, <1>16, <1>17, <1>18 DEF BatchInv

\* What answering the entries S of a running batch keeps, whether the run goes
\* on or ends.
LEMMA AnswerInv ==
  ASSUME RequestBatchAssumption, BatchInv, NEW b \in Batches, at[b] = "running",
         NEW S \in SUBSET entries[b], Answer(S, b), entrySet' = [entrySet EXCEPT ![b] = @ \ S],
         UNCHANGED <<current, followers, bound>>,
         \A v \in Values : cache'[v] \in {Missing, IF v \in Stored(S) THEN [cache[v] EXCEPT !.exit = TRUE] ELSE cache[v]},
         cache' \in [Values -> Entry],
         \/ UNCHANGED <<entries, at, sent>>
         \/ /\ entries' = [entries EXCEPT ![b] = {}] /\ at' = [at EXCEPT ![b] = "free"]
            /\ sent' = [sent EXCEPT ![b] = {}] /\ entrySet[b] \subseteq S
  PROVE  BatchInv'
<1>1. /\ status \in [Requests -> {"idle", "waiting", "done", "interrupted", "defect"}]
      /\ answer \in [Requests -> Batches \cup {None}]
      /\ current \in [Keys -> Batches \cup {None}]
      /\ at \in [Batches -> {"free", "delay", "due", "running"}]
      /\ entries \in [Batches -> SUBSET Requests] /\ entrySet \in [Batches -> SUBSET Requests]
      /\ sent \in [Batches -> SUBSET Requests] /\ cache \in [Values -> Entry]
      /\ followers \in [Requests -> SUBSET Requests] /\ S \subseteq Requests
  BY DEF BatchInv, BatchTypeOK
<1>2. /\ \A r \in Requests : status'[r] = IF r \in Linked(S) /\ status[r] = "waiting" THEN "done" ELSE status[r]
      /\ \A r \in Requests : answer'[r] = IF r \in Linked(S) /\ answer[r] = None THEN b ELSE answer[r]
      /\ status' \in [Requests -> {"idle", "waiting", "done", "interrupted", "defect"}]
      /\ answer' \in [Requests -> Batches \cup {None}]
  BY <1>1 DEF Answer
<1>3. ASSUME NEW r \in Linked(S)
      PROVE  (r \in S /\ r \in entries[b]) \/ \E q \in S : r \in followers[q]
  BY DEF Linked
<1>4. /\ \A c \in Batches \ {b} : entries'[c] = entries[c] /\ entrySet'[c] = entrySet[c] /\ at'[c] = at[c] /\ sent'[c] = sent[c]
      /\ entrySet'[b] = entrySet[b] \ S
      /\ \/ entries'[b] = entries[b] /\ at'[b] = "running" /\ sent'[b] = sent[b]
         \/ entries'[b] = {} /\ at'[b] = "free" /\ sent'[b] = {} /\ entrySet'[b] = {}
  BY <1>1
<1>5. \A q \in Requests \ S : Pending(q) => Pending(q)'
  BY <1>4 DEF Pending
<1>6. BatchTypeOK'
  <2>1. /\ at' \in [Batches -> {"free", "delay", "due", "running"}]
        /\ entries' \in [Batches -> SUBSET Requests] /\ entrySet' \in [Batches -> SUBSET Requests]
        /\ sent' \in [Batches -> SUBSET Requests]
    BY <1>1
  <2>. QED BY <1>2, <2>1 DEF BatchInv, BatchTypeOK
<1>7. Fresh'
  <2> SUFFICES ASSUME NEW r \in Requests, status'[r] = "idle"
               PROVE  /\ answer'[r] = None /\ \A c \in Batches : r \notin entries'[c]
                      /\ \A q \in Requests : r \notin followers'[q]
    BY DEF Fresh
  <2>1. status[r] = "idle"
    BY <1>2
  <2>2. answer[r] = None /\ (\A c \in Batches : r \notin entries[c]) /\ \A q \in Requests : r \notin followers[q]
    BY <2>1 DEF BatchInv, Fresh
  <2>3. r \notin Linked(S)
    BY <1>1, <1>3, <2>2
  <2>. QED BY <1>2, <1>4, <2>2, <2>3
<1>8. Collected'
  <2> SUFFICES ASSUME NEW c \in Batches
               PROVE  /\ entries'[c] = {} => at'[c] = "free"
                      /\ entrySet'[c] \subseteq entries'[c] /\ (at'[c] # "running" => entrySet'[c] = entries'[c])
                      /\ sent'[c] \subseteq entries'[c] /\ (at'[c] # "running" => sent'[c] = {})
                      /\ at'[c] # "running" => \A q \in entries'[c] : answer'[q] = None
                      /\ ~Immediate => Sized(c)'
    BY DEF Collected
  <2>1. CASE c # b
    <3>1. ASSUME NEW q \in entries[c] PROVE q \notin Linked(S) /\ q \in Requests
      BY <1>1, <1>3, <2>1 DEF BatchInv, Apart
    <3>2. at'[c] # "running" => \A q \in entries'[c] : answer'[q] = None
      BY <1>2, <1>4, <2>1, <3>1 DEF BatchInv, Collected
    <3>. QED BY <1>4, <2>1, <3>2 DEF BatchInv, Collected, Sized
  <2>2. CASE c = b /\ entries'[b] = entries[b] /\ at'[b] = "running" /\ sent'[b] = sent[b]
    BY <1>4, <2>2 DEF BatchInv, Collected, Sized
  <2>3. CASE c = b /\ entries'[b] = {} /\ at'[b] = "free" /\ sent'[b] = {} /\ entrySet'[b] = {}
    <3>1. Cardinality(entries'[c]) <= Limit
      BY <2>3, FS_EmptySet DEF RequestBatchAssumption
    <3>. QED BY <2>3, <3>1 DEF Sized
  <2>. QED BY <1>4, <2>1, <2>2, <2>3
<1>9. Mapped'
  <2> SUFFICES ASSUME NEW k \in Keys, current[k] # None
               PROVE  /\ at'[current[k]] = "delay" /\ \A l \in Keys : current[l] = current[k] => l = k
                      /\ ~Immediate => \A q \in entries'[current[k]] : Key[q] = k
    BY DEF Mapped
  <2>1. /\ current[k] \in Batches /\ at[current[k]] = "delay" /\ \A l \in Keys : current[l] = current[k] => l = k
        /\ ~Immediate => \A q \in entries[current[k]] : Key[q] = k
    BY <1>1 DEF BatchInv, Mapped
  <2>. QED BY <1>4, <2>1
<1>10. Apart'
  <2>1. ASSUME NEW c \in Batches PROVE entries'[c] \subseteq entries[c]
    BY <1>4
  <2>. QED BY <2>1 DEF BatchInv, Apart
<1>11. Waits'
  <2> SUFFICES ASSUME NEW r \in Requests, status'[r] = "waiting"
               PROVE  \E q \in Requests : (r = q \/ r \in followers[q]) /\ Pending(q)'
    BY DEF Waits
  <2>1. status[r] = "waiting" /\ r \notin Linked(S)
    BY <1>2
  <2>2. PICK q \in Requests : (r = q \/ r \in followers[q]) /\ Pending(q)
    BY <2>1 DEF BatchInv, Waits
  <2>3. q \notin S
    BY <2>1, <2>2 DEF Linked
  <2>. QED BY <1>5, <2>2, <2>3
<1>12. Remembered'
  <2> SUFFICES ASSUME NEW v \in Values
               PROVE  /\ cache'[v].exit => cache'[v].entry # None
                      /\ cache'[v].entry # None => Value[cache'[v].entry] = v
                      /\ cache'[v].entry # None /\ ~cache'[v].exit => Pending(cache[v].entry)' /\ cache'[v].entry = cache[v].entry
                      /\ ~Cached => cache'[v] = Missing
    BY DEF Remembered
  <2>1. cache[v] \in Entry /\ cache[v].entry \in Requests \cup {None}
    BY <1>1 DEF Entry
  <2>2. CASE cache'[v] = Missing
    BY <2>2 DEF Missing
  <2>3. CASE cache'[v] = cache[v] /\ v \notin Stored(S)
    BY <1>5, <2>1, <2>3 DEF BatchInv, Remembered, Stored
  <2>4. CASE cache'[v] = [cache[v] EXCEPT !.exit = TRUE] /\ v \in Stored(S)
    <3>1. cache'[v].entry = cache[v].entry /\ cache'[v].exit /\ cache[v].entry \in S
      BY <2>1, <2>4 DEF Entry, Stored
    <3>2. cache[v].entry # None
      BY <1>1, <3>1 DEF RequestBatchAssumption
    <3>3. ~Cached => cache'[v] = Missing
      BY <3>2 DEF BatchInv, Remembered, Missing
    <3>. QED BY <3>1, <3>2, <3>3 DEF BatchInv, Remembered
  <2>. QED BY <2>2, <2>3, <2>4
<1>. QED BY <1>6, <1>7, <1>8, <1>9, <1>10, <1>11, <1>12 DEF BatchInv

LEMMA CompleteInv ==
  ASSUME RequestBatchAssumption, BatchInv, NEW b \in Batches, NEW r \in Requests, Complete(b, r)
  PROVE  BatchInv'
<1>1. /\ at[b] = "running" /\ r \in entries[b] /\ Answer({r}, b)
      /\ entrySet' = [entrySet EXCEPT ![b] = @ \ {r}]
      /\ UNCHANGED <<current, followers, bound, entries, at, sent>>
  BY DEF Complete, BatchInv, Collected
<1>2. cache' = [v \in Values |-> IF v \in Stored({r}) THEN [cache[v] EXCEPT !.exit = TRUE] ELSE cache[v]]
  BY DEF Complete
<1>3. cache' \in [Values -> Entry]
  BY <1>2 DEF BatchInv, BatchTypeOK, Entry
<1>4. \A v \in Values : cache'[v] \in {Missing, IF v \in Stored({r}) THEN [cache[v] EXCEPT !.exit = TRUE] ELSE cache[v]}
  BY <1>2
<1>5. {r} \in SUBSET entries[b]
  BY <1>1
<1>. QED BY <1>1, <1>3, <1>4, <1>5, AnswerInv

LEMMA RunEndsInv == ASSUME RequestBatchAssumption, BatchInv, NEW b \in Batches, RunEnds(b) PROVE BatchInv'
<1> DEFINE S == entrySet[b]
           c == [v \in Values |-> IF v \in Stored(S) THEN [cache[v] EXCEPT !.exit = TRUE] ELSE cache[v]]
<1>1. /\ at[b] = "running" /\ Answer(S, b) /\ cache' \in Evicted(c)
      /\ entries' = [entries EXCEPT ![b] = {}] /\ at' = [at EXCEPT ![b] = "free"]
      /\ sent' = [sent EXCEPT ![b] = {}] /\ entrySet' = [entrySet EXCEPT ![b] = {}]
      /\ UNCHANGED <<current, followers, bound>>
  BY DEF RunEnds, AnswerRest, Tidy
<1>2. entrySet' = [entrySet EXCEPT ![b] = @ \ S] /\ S \in SUBSET entries[b]
  <2>1. entrySet[b] \ S = {}
    OBVIOUS
  <2>. QED BY <1>1, <2>1 DEF BatchInv, Collected
<1>3. c \in [Values -> Entry] /\ Missing \in Entry
  BY DEF BatchInv, BatchTypeOK, Entry, Missing
<1>4. \A v \in Values : cache'[v] \in {Missing, c[v]}
  <2> HIDE DEF c
  <2>. QED BY <1>1 DEF Evicted
<1>5. cache' \in [Values -> Entry]
  <2> HIDE DEF c
  <2>1. cache' = [v \in Values |-> cache'[v]]
    BY <1>1, <1>3 DEF Evicted
  <2>. QED BY <1>3, <1>4, <2>1
<1>6. \A v \in Values : cache'[v] \in {Missing, IF v \in Stored(S) THEN [cache[v] EXCEPT !.exit = TRUE] ELSE cache[v]}
  BY <1>4
<1>7. PICK T : T = S
  OBVIOUS
<1> HIDE DEF S, c
<1>8. entrySet[b] \subseteq T
  BY <1>7 DEF S
<1>. QED BY <1>1, <1>2, <1>5, <1>6, <1>7, <1>8, AnswerInv

\* An entry that is taken out was relied on by nobody.
LEMMA InterruptRequestInv ==
  ASSUME RequestBatchAssumption, BatchInv, Cached => ~Orphans, NEW r \in Requests, InterruptRequest(r)
  PROVE  BatchInv'
<1>1. /\ status \in [Requests -> {"idle", "waiting", "done", "interrupted", "defect"}]
      /\ answer \in [Requests -> Batches \cup {None}]
      /\ current \in [Keys -> Batches \cup {None}]
      /\ at \in [Batches -> {"free", "delay", "due", "running"}]
      /\ entries \in [Batches -> SUBSET Requests] /\ entrySet \in [Batches -> SUBSET Requests]
      /\ sent \in [Batches -> SUBSET Requests] /\ cache \in [Values -> Entry]
      /\ followers \in [Requests -> SUBSET Requests] /\ Key[r] \in Keys /\ Value[r] \in Values
  BY DEF BatchInv, BatchTypeOK, Keys, Values
<1>2. /\ status[r] = "waiting" /\ status' = [status EXCEPT ![r] = "interrupted"] /\ RemoveEntry(r)
      /\ ~Cached \/ r \in bound \/ cache[Value[r]].entry # r \/ ~Unsent(r)
      /\ UNCHANGED <<answer, sent, cache, followers, bound>>
  BY DEF InterruptRequest, caching
<1>3. CASE r \in bound \/ current[Key[r]] = None \/ r \notin entries[current[Key[r]]]
  <2>1. UNCHANGED <<entries, entrySet, current, at>>
    <3> DEFINE from == Removable(r)
               emptied == {b \in from : entries[b] \subseteq {r}}
    <3>1. \A b \in from : b \in Batches /\ entries[b] # {} /\ r \notin entries[b] /\ r \notin entrySet[b]
      BY <1>1, <1>3 DEF Removable, BatchInv, Mapped, Collected
    <3>2. emptied = {}
      BY <3>1
    <3>3. /\ entries' = [b \in Batches |-> IF b \in from THEN entries[b] \ {r} ELSE entries[b]]
          /\ entrySet' = [b \in Batches |-> IF b \in from THEN entrySet[b] \ {r} ELSE entrySet[b]]
          /\ current' = [k \in Keys |-> IF current[k] \in emptied THEN None ELSE current[k]]
          /\ at' = [b \in Batches |-> IF b \in emptied THEN "free" ELSE at[b]]
      BY <1>2 DEF RemoveEntry
    <3> HIDE DEF from, emptied
    <3>4. \A b \in from : entries[b] \ {r} = entries[b] /\ entrySet[b] \ {r} = entrySet[b]
      BY <3>1
    <3>5. entries' = entries /\ entrySet' = entrySet
      BY <1>1, <3>3, <3>4
    <3>6. current' = current /\ at' = at
      BY <1>1, <3>2, <3>3
    <3>. QED BY <3>5, <3>6
  <2>2. \A q \in Requests : status'[q] = IF q = r THEN "interrupted" ELSE status[q]
    BY <1>1, <1>2
  <2>3. BatchTypeOK'
    BY <1>1, <1>2, <2>1 DEF BatchInv, BatchTypeOK
  <2>4. Fresh' /\ Collected' /\ Mapped' /\ Apart'
    BY <1>2, <2>1, <2>2 DEF BatchInv, Fresh, Collected, Sized, Mapped, Apart
  <2>5. Waits' /\ Remembered'
    BY <1>2, <2>1, <2>2 DEF BatchInv, Waits, Pending, Remembered
  <2>. QED BY <2>3, <2>4, <2>5 DEF BatchInv
<1>4. CASE r \notin bound /\ current[Key[r]] # None /\ r \in entries[current[Key[r]]]
  <2>1. PICK b \in Batches : b = current[Key[r]]
    BY <1>1, <1>4
  <2>2. /\ at[b] = "delay" /\ r \in entries[b] /\ entrySet[b] = entries[b] /\ entries[b] \subseteq Requests
        /\ \A k \in Keys : current[k] = b => k = Key[r]
        /\ \A c \in Batches \ {b} : r \notin entries[c]
    <3>1. at[b] = "delay" /\ r \in entries[b] /\ entrySet[b] = entries[b] /\ entries[b] \subseteq Requests
      BY <1>1, <1>4, <2>1 DEF BatchInv, Mapped, Collected
    <3>2. \A k \in Keys : current[k] = b => k = Key[r]
      BY <1>1, <1>4, <2>1 DEF BatchInv, Mapped
    <3>3. \A c \in Batches \ {b} : r \notin entries[c]
      BY <3>1 DEF BatchInv, Apart
    <3>. QED BY <3>1, <3>2, <3>3
  <2>3. /\ entries'[b] = entries[b] \ {r} /\ entrySet'[b] = entrySet[b] \ {r}
        /\ \A c \in Batches \ {b} : entries'[c] = entries[c] /\ entrySet'[c] = entrySet[c] /\ at'[c] = at[c]
        /\ at'[b] = IF entries'[b] = {} THEN "free" ELSE "delay"
        /\ \A k \in Keys : current'[k] = IF current[k] = b /\ entries'[b] = {} THEN None ELSE current[k]
        /\ entries' \in [Batches -> SUBSET Requests] /\ entrySet' \in [Batches -> SUBSET Requests]
        /\ current' \in [Keys -> Batches \cup {None}] /\ at' \in [Batches -> {"free", "delay", "due", "running"}]
    <3> DEFINE emptied == {c \in {b} : entries[c] \subseteq {r}}
    <3>1. Removable(r) = {b}
      BY <1>4, <2>1 DEF Removable, RequestBatchAssumption
    <3>2. /\ entries' = [c \in Batches |-> IF c \in {b} THEN entries[c] \ {r} ELSE entries[c]]
          /\ entrySet' = [c \in Batches |-> IF c \in {b} THEN entrySet[c] \ {r} ELSE entrySet[c]]
          /\ current' = [k \in Keys |-> IF current[k] \in emptied THEN None ELSE current[k]]
          /\ at' = [c \in Batches |-> IF c \in emptied THEN "free" ELSE at[c]]
      BY <1>2, <3>1 DEF RemoveEntry
    <3>3. entries'[b] = entries[b] \ {r} /\ (b \in emptied <=> entries'[b] = {}) /\ \A c \in emptied : c = b
      BY <3>2
    <3> HIDE DEF emptied
    <3>4. /\ entries' \in [Batches -> SUBSET Requests] /\ entrySet' \in [Batches -> SUBSET Requests]
      BY <1>1, <3>2
    <3>5. current' \in [Keys -> Batches \cup {None}] /\ at' \in [Batches -> {"free", "delay", "due", "running"}]
      BY <1>1, <3>2
    <3>6. \A c \in Batches \ {b} : entries'[c] = entries[c] /\ entrySet'[c] = entrySet[c] /\ at'[c] = at[c]
      BY <3>2, <3>3
    <3>7. \A k \in Keys : current'[k] = IF current[k] = b /\ entries'[b] = {} THEN None ELSE current[k]
      BY <3>2, <3>3
    <3>. QED BY <2>2, <3>2, <3>3, <3>4, <3>5, <3>6, <3>7
  <2>4. \A q \in Requests : status'[q] = IF q = r THEN "interrupted" ELSE status[q]
    BY <1>1, <1>2
  <2>5. \A q \in Requests \ {r} : Pending(q) => Pending(q)'
    BY <2>3 DEF Pending
  <2>6. BatchTypeOK'
    BY <1>1, <1>2, <2>3 DEF BatchInv, BatchTypeOK
  <2>7. Fresh'
    BY <1>2, <2>3, <2>4 DEF BatchInv, Fresh
  <2>8. Collected'
    <3> SUFFICES ASSUME NEW c \in Batches
                 PROVE  /\ entries'[c] = {} => at'[c] = "free"
                        /\ entrySet'[c] \subseteq entries'[c] /\ (at'[c] # "running" => entrySet'[c] = entries'[c])
                        /\ sent'[c] \subseteq entries'[c] /\ (at'[c] # "running" => sent'[c] = {})
                        /\ at'[c] # "running" => \A q \in entries'[c] : answer'[q] = None
                        /\ ~Immediate => Sized(c)'
      BY DEF Collected
    <3>1. CASE c # b
      BY <1>2, <2>3, <3>1 DEF BatchInv, Collected, Sized
    <3>2. CASE c = b
      <4>1. ASSUME ~Immediate
            PROVE  Cardinality(entries'[c]) \in Nat /\ Cardinality(entries'[c]) < Limit /\ Limit \in Nat
        <5>1. Cardinality(entries[b]) \in Nat /\ IsFiniteSet(entries[b]) /\ Cardinality(entries[b]) < Limit
          BY <2>2, <4>1, FiniteEntries DEF BatchInv, Collected, Sized
        <5>2. Cardinality(entries'[c]) = Cardinality(entries[b]) - 1 /\ Cardinality(entries'[c]) \in Nat
          BY <2>2, <2>3, <3>2, <5>1, FS_RemoveElement, FiniteEntries
        <5>3. Limit \in Nat
          BY DEF RequestBatchAssumption
        <5>. QED BY <5>1, <5>2, <5>3
      <4>2. sent'[c] = {}
        BY <1>2, <2>2, <3>2 DEF BatchInv, Collected
      <4>3. /\ at'[c] = "free" <=> entries'[c] = {}
            /\ entrySet'[c] = entries'[c] /\ at'[c] # "running"
        BY <2>2, <2>3, <3>2
      <4>4. \A q \in entries'[c] : answer'[q] = None
        BY <1>2, <2>2, <2>3, <3>2 DEF BatchInv, Collected
      <4>5. ~Immediate => \A p, q \in entries'[c] : Key[p] = Key[q]
        BY <2>3, <3>2 DEF BatchInv, Collected, Sized
      <4>. QED BY <4>1, <4>2, <4>3, <4>4, <4>5 DEF Sized
    <3>. QED BY <3>1, <3>2
  <2>9. Mapped'
    BY <2>2, <2>3 DEF BatchInv, Mapped
  <2>10. Apart'
    <3>1. \A c \in Batches : entries'[c] \subseteq entries[c]
      BY <2>3
    <3>. QED BY <1>2, <3>1 DEF BatchInv, Apart
  <2>11. Waits'
    <3>1. followers[r] = {}
      BY <1>4 DEF BatchInv, Apart
    <3>. QED BY <1>2, <2>4, <2>5, <3>1 DEF BatchInv, Waits
  <2>12. Remembered'
    <3>1. \A v \in Values : cache[v].entry # r
      <4>1. Unsent(r)
        BY <2>2 DEF Unsent
      <4>2. ~Cached \/ cache[Value[r]].entry # r
        BY <1>2, <1>4, <4>1
      <4>. QED BY <4>2 DEF BatchInv, Remembered, Missing, RequestBatchAssumption
    <3>2. \A v \in Values : cache[v].entry \in Requests \cup {None}
      BY <1>1 DEF Entry
    <3>. QED BY <1>2, <2>5, <3>1, <3>2 DEF BatchInv, Remembered
  <2>. QED BY <2>6, <2>7, <2>8, <2>9, <2>10, <2>11, <2>12 DEF BatchInv
<1>. QED BY <1>3, <1>4

LEMMA RequestInv == ASSUME RequestBatchAssumption, BatchInv, NEW r \in Requests, Request(r) PROVE BatchInv'
<1> DEFINE c == cache[Value[r]]
<1>1. status[r] = "idle" /\ Value[r] \in Values
  BY DEF Request, Values
<1>2. CASE Collect(r) /\ status' = [status EXCEPT ![r] = "waiting"] /\ UNCHANGED <<answer, caching>>
  BY <1>1, <1>2, CollectInv DEF caching
<1>3. CASE /\ Cached /\ c = Missing /\ Collect(r) /\ status' = [status EXCEPT ![r] = "waiting"]
           /\ cache' = [cache EXCEPT ![Value[r]].entry = r] /\ UNCHANGED <<answer, followers, bound>>
  BY <1>1, <1>3, CollectInv
<1>4. /\ status \in [Requests -> {"idle", "waiting", "done", "interrupted", "defect"}]
      /\ answer \in [Requests -> Batches \cup {None}] /\ cache \in [Values -> Entry]
      /\ followers \in [Requests -> SUBSET Requests] /\ bound \in SUBSET Requests
      /\ c \in Entry
  BY <1>1 DEF BatchInv, BatchTypeOK
<1>5. CASE /\ Cached /\ c.exit /\ status' = [status EXCEPT ![r] = "done"]
           /\ answer' = [answer EXCEPT ![r] = answer[c.entry]] /\ UNCHANGED <<batches, caching>>
  <2>1. UNCHANGED <<current, at, entries, entrySet, sent, cache, followers, bound>>
    BY <1>5 DEF batches, caching
  <2>2. c.entry \in Requests
    BY <1>1, <1>4, <1>5 DEF BatchInv, Remembered, Entry
  <2>3. /\ \A q \in Requests : status'[q] = IF q = r THEN "done" ELSE status[q]
        /\ \A q \in Requests : q # r => answer'[q] = answer[q]
        /\ status' \in [Requests -> {"idle", "waiting", "done", "interrupted", "defect"}]
        /\ answer' \in [Requests -> Batches \cup {None}]
    BY <1>4, <1>5, <2>2
  <2>4. BatchTypeOK' /\ Waits' /\ Remembered' /\ Mapped' /\ Apart' /\ Fresh'
    <3>1. BatchTypeOK'
      BY <2>1, <2>3 DEF BatchInv, BatchTypeOK
    <3>2. Waits' /\ Remembered'
      BY <2>1, <2>3 DEF BatchInv, Waits, Remembered, Pending
    <3>3. Mapped' /\ Apart' /\ Fresh'
      BY <2>1, <2>3 DEF BatchInv, Mapped, Apart, Fresh
    <3>. QED BY <3>1, <3>2, <3>3
  <2>5. Collected'
    <3>1. \A b \in Batches : r \notin entries[b] /\ entries[b] \subseteq Requests
      BY <1>1 DEF BatchInv, Fresh, BatchTypeOK
    <3>. QED BY <2>1, <2>3, <3>1 DEF BatchInv, Collected, Sized
  <2>. QED BY <2>4, <2>5 DEF BatchInv
<1>6. CASE /\ Cached /\ c # Missing /\ ~c.exit /\ status' = [status EXCEPT ![r] = "waiting"]
           /\ followers' = [followers EXCEPT ![c.entry] = @ \cup {r}] /\ bound' = bound \cup {c.entry}
           /\ UNCHANGED <<answer, batches, cache>>
  <2>1. UNCHANGED <<answer, current, at, entries, entrySet, sent, cache>>
    BY <1>6 DEF batches
  <2>2. PICK e \in Requests : e = c.entry /\ Pending(e)
    <3>1. c.entry # None
      BY <1>4, <1>6 DEF Entry, Missing
    <3>2. c.entry \in Requests /\ Pending(c.entry)
      BY <1>1, <1>4, <1>6, <3>1 DEF BatchInv, Remembered, Entry
    <3>. QED BY <3>2
  <2>3. /\ \A q \in Requests : status'[q] = IF q = r THEN "waiting" ELSE status[q]
        /\ status' \in [Requests -> {"idle", "waiting", "done", "interrupted", "defect"}]
        /\ \A q \in Requests : followers'[q] = IF q = e THEN followers[q] \cup {r} ELSE followers[q]
        /\ followers' \in [Requests -> SUBSET Requests] /\ bound' = bound \cup {e} /\ bound' \in SUBSET Requests
    BY <1>4, <1>6, <2>2
  <2>4. BatchTypeOK'
    BY <2>1, <2>3 DEF BatchInv, BatchTypeOK
  <2>5. \A b \in Batches : r \notin entries[b]
    BY <1>1 DEF BatchInv, Fresh
  <2>6. Fresh' /\ Collected' /\ Mapped'
    BY <2>1, <2>3 DEF BatchInv, Fresh, Collected, Sized, Mapped
  <2>7. Apart'
    BY <2>1, <2>3, <2>5 DEF BatchInv, Apart
  <2>8. Waits'
    <3> SUFFICES ASSUME NEW q \in Requests, status'[q] = "waiting"
                 PROVE  \E p \in Requests : (q = p \/ q \in followers'[p]) /\ Pending(p)'
      BY DEF Waits
    <3>1. \A p \in Requests : Pending(p) => Pending(p)'
      BY <2>1 DEF Pending
    <3>2. CASE q = r
      BY <2>2, <2>3, <3>1, <3>2
    <3>3. CASE q # r
      <4>1. PICK p \in Requests : (q = p \/ q \in followers[p]) /\ Pending(p)
        BY <2>3, <3>3 DEF BatchInv, Waits
      <4>. QED BY <2>3, <3>1, <4>1
    <3>. QED BY <3>2, <3>3
  <2>9. Remembered'
    BY <2>1 DEF BatchInv, Remembered, Pending
  <2>. QED BY <2>4, <2>6, <2>7, <2>8, <2>9 DEF BatchInv
<1>. QED BY <1>2, <1>3, <1>5, <1>6 DEF Request

LEMMA BatchMovesInv ==
  ASSUME RequestBatchAssumption, BatchInv, NEW b \in Batches, DelayEnds(b) \/ Start(b)
  PROVE  BatchInv'
<1>1. /\ UNCHANGED <<status, answer, entries, entrySet, cache, followers, bound>>
      /\ \/ /\ at[b] = "delay" /\ at' = [at EXCEPT ![b] = "due"] /\ UNCHANGED sent
            /\ current' = [k \in Keys |-> IF current[k] = b THEN None ELSE current[k]]
         \/ /\ at[b] = "due" /\ at' = [at EXCEPT ![b] = "running"]
            /\ sent' = [sent EXCEPT ![b] = entries[b]] /\ UNCHANGED current
  BY DEF DelayEnds, Start, caching
<1>2. /\ current \in [Keys -> Batches \cup {None}]
      /\ at \in [Batches -> {"free", "delay", "due", "running"}]
      /\ entries \in [Batches -> SUBSET Requests] /\ sent \in [Batches -> SUBSET Requests]
  BY DEF BatchInv, BatchTypeOK
<1>3. /\ \A c \in Batches \ {b} : at'[c] = at[c] /\ sent'[c] = sent[c]
      /\ \/ at[b] = "delay" /\ at'[b] = "due" /\ sent'[b] = sent[b]
         \/ at[b] = "due" /\ at'[b] = "running" /\ sent'[b] \subseteq entries[b]
  BY <1>1, <1>2
<1>4. BatchTypeOK'
  <2>1. at' \in [Batches -> {"free", "delay", "due", "running"}]
    BY <1>1, <1>2
  <2>2. current' \in [Keys -> Batches \cup {None}] /\ sent' \in [Batches -> SUBSET Requests]
    BY <1>1, <1>2
  <2>. QED BY <1>1, <2>1, <2>2 DEF BatchInv, BatchTypeOK
<1>5. Fresh' /\ Apart' /\ Waits' /\ Remembered'
  BY <1>1 DEF BatchInv, Fresh, Apart, Waits, Remembered, Pending
<1>6. Collected'
  BY <1>1, <1>2, <1>3 DEF BatchInv, Collected, Sized
<1>7. Mapped'
  BY <1>1, <1>2, <1>3 DEF BatchInv, Mapped, RequestBatchAssumption
<1>. QED BY <1>4, <1>5, <1>6, <1>7 DEF BatchInv

LEMMA BatchNextInv ==
  ASSUME RequestBatchAssumption, Cached => ~Orphans, BatchInv, [BatchNext]_batchVars
  PROVE  BatchInv'
<1>1. CASE UNCHANGED batchVars
  <2>1. UNCHANGED <<status, answer, current, at, entries, entrySet, sent, cache, followers, bound>>
    BY <1>1 DEF batchVars, batches, caching
  <2>. QED BY <2>1 DEF BatchInv, BatchTypeOK, Fresh, Collected, Sized, Mapped, Apart, Waits, Remembered, Pending
<1>2. CASE \E r \in Requests : Request(r) \/ InterruptRequest(r)
  BY <1>2, RequestInv, InterruptRequestInv
<1>5. CASE \E r \in Requests : RequestWhileRunning(r) \/ RequestTooLate(r)
  BY <1>5, RequestWhileRunningInv, RequestTooLateInv
<1>3. CASE \E b \in Batches : BatchRuns(b)
  BY <1>3, BatchMovesInv, RunEndsInv DEF BatchRuns
<1>4. CASE \E b \in Batches, r \in Requests : Complete(b, r)
  BY <1>4, CompleteInv
<1>. QED BY <1>1, <1>2, <1>3, <1>4, <1>5 DEF BatchNext, RequestsOver

LEMMA BatchInvSafe == ASSUME RequestBatchAssumption, BatchInv PROVE RequestsSafe
<1>1. ASSUME ~Immediate, NEW b \in Batches, at[b] = "due"
      PROVE  /\ entries[b] # {} /\ Cardinality(entries[b]) <= Limit
             /\ Cardinality({Key[r] : r \in entries[b]}) = 1
             /\ \A r \in entries[b] : answer[r] = None
  <2>1. PICK r \in entries[b] : TRUE
    BY <1>1 DEF BatchInv, Collected
  <2>2. {Key[q] : q \in entries[b]} = {Key[r]}
    BY <1>1, <2>1 DEF BatchInv, Collected, Sized
  <2>3. Cardinality({Key[q] : q \in entries[b]}) = 1
    BY <2>2, FS_Singleton
  <2>. QED BY <1>1, <2>1, <2>3 DEF BatchInv, Collected, Sized
<1>4. ASSUME ~Immediate, NEW b \in Batches, at[b] = "running" PROVE sent[b] # {}
  BY <1>4 DEF BatchInv, Collected, Sized
<1>2. ASSUME NEW r \in Requests PROVE Cardinality({b \in Batches : r \in entries[b]}) <= 1
  <2>1. CASE \A b \in Batches : r \notin entries[b]
    <3>1. {b \in Batches : r \in entries[b]} = {}
      BY <2>1
    <3>. QED BY <3>1, FS_EmptySet
  <2>2. CASE \E b \in Batches : r \in entries[b]
    <3>1. PICK b \in Batches : r \in entries[b]
      BY <2>2
    <3>2. {c \in Batches : r \in entries[c]} = {b}
      BY <3>1 DEF BatchInv, Apart
    <3>3. Cardinality({c \in Batches : r \in entries[c]}) = 1
      BY <3>2, FS_Singleton
    <3>. QED BY <3>3
  <2>. QED BY <2>1, <2>2
<1>3. ASSUME NEW r \in Requests, status[r] = "waiting"
      PROVE  \E q \in Requests : r \in Linked({q}) /\ \E b \in Batches : q \in entrySet[b]
  <2>1. PICK q \in Requests : (r = q \/ r \in followers[q]) /\ Pending(q)
    BY <1>3 DEF BatchInv, Waits
  <2>2. r \in Linked({q})
    BY <2>1 DEF Linked
  <2>. QED BY <2>1, <2>2 DEF Pending
<1>. QED BY <1>1, <1>2, <1>3, <1>4 DEF RequestsSafe, GoodBatches, InOneBatch

\* No entry is in two batches, and who waits relies on an entry that is still to be
\* completed, if no entry of the cache is taken out while others may rely on it; and
\* unless delays complete at once, runAll gets a batch that is not empty, of one key,
\* of no more than its limit and without answers (RequestResolver.ts:166-173,
\* 1122-1137, request.ts:84-205).
THEOREM RequestsAreBatched ==
  ASSUME RequestBatchAssumption, Cached => ~Orphans PROVE BatchSpec => []RequestsSafe
<1>1. BatchInit => BatchInv
  BY BatchInitInv
<1>2. BatchInv /\ [BatchNext]_batchVars => BatchInv'
  BY BatchNextInv
<1>3. BatchInv => RequestsSafe
  BY BatchInvSafe
<1>. QED BY <1>1, <1>2, <1>3, PTL DEF BatchSpec

(*****************************************************************************)
(* Stored results.                                                         *)
(*****************************************************************************)
Maybe == Exits \cup {Nothing}

PersistedTypeOK ==
  /\ stored \in [Persisted -> Maybe \cup {Unreadable}]
  /\ removing \subseteq Calls \X Persisted
  /\ turn \in [Calls -> {"begin", "resolve", "save", "end", "failed"}]
  /\ given \in [Calls -> [Persisted -> Maybe \cup {<<"defect">>}]]
  /\ leftover \in [Calls -> SUBSET Persisted] /\ toPersist \in [Calls -> [Persisted -> Maybe]]

\* What there is has a time to live.
Kept == \A e \in Persisted : Readable(stored[e]) => Stores(e, stored[e])
\* What is yet to be removed is not readable, if removals are over before a save.
Doomed == ~Slow => \A b \in Calls, e \in Persisted : <<b, e>> \in removing => ~Readable(stored[e])
\* Nobody has the results of a call that has not begun.
Unbegun == \A b \in Calls : turn[b] = "begin" => \A e \in Persisted :
  /\ <<b, e>> \notin resolved /\ given[b][e] = Nothing
  /\ stored[e] # ResolvedBy(b) /\ \A c \in Calls : toPersist[c][e] # ResolvedBy(b)
\* Until it saves, a call is to store what it resolved and the rest as it was found.
Resolving == \A b \in Calls : turn[b] \in {"resolve", "save"} => \A e \in Persisted :
  /\ e \notin leftover[b] => toPersist[b][e] = Nothing
  /\ given[b][e] = ResolvedBy(b) => <<b, e>> \in resolved /\ e \in leftover[b]
  /\ given[b][e] \notin {Nothing, ResolvedBy(b)} => Stores(e, given[b][e])
  /\ ~Fails /\ e \in leftover[b] =>
       toPersist[b][e] = IF <<b, e>> \in resolved THEN ResolvedBy(b) ELSE given[b][e]

PersistedInv == PersistedTypeOK /\ Kept /\ Doomed /\ Unbegun /\ Resolving

LEMMA ExitFacts ==
  ASSUME PersistedRequestsAssumption, NEW b \in Calls
  PROVE  /\ ResolvedBy(b) \in Exits /\ FailureOf(b) \in Exits /\ Old \in Exits
         /\ Old # ResolvedBy(b) /\ \A c \in Calls : FailureOf(c) # ResolvedBy(b)
         /\ \A c \in Calls : ResolvedBy(c) = ResolvedBy(b) => c = b
         /\ Nothing \notin Exits /\ Unreadable \notin Exits /\ Nothing # Unreadable
         /\ \A x \in Exits : Readable(x)
         /\ \A x : Readable(x) <=> x # Nothing /\ x # Unreadable
         /\ \A e, x : Stores(e, x) => x # Nothing
<1>1. ResolvedBy(b) \in Exits /\ FailureOf(b) \in Exits /\ Old \in Exits
  BY DEF Exits
<1>2. Nothing \notin Exits /\ Unreadable \notin Exits /\ Nothing # Unreadable
  BY DEF PersistedRequestsAssumption
<1>3. /\ Old # ResolvedBy(b) /\ \A c \in Calls : FailureOf(c) # ResolvedBy(b)
      /\ \A c \in Calls : ResolvedBy(c) = ResolvedBy(b) => c = b
  BY DEF PersistedRequestsAssumption, Old, ResolvedBy, FailureOf
<1>. QED BY <1>1, <1>2, <1>3 DEF Readable, Stores

LEMMA PersistedInitInv == ASSUME PersistedRequestsAssumption, PersistedInit PROVE PersistedInv
<1>1. Old \in Exits /\ Nothing \notin Exits /\ Unreadable \notin Exits
  BY DEF Exits, PersistedRequestsAssumption
<1>2. \A e \in Persisted : stored[e] \in {Nothing, Unreadable, Old}
  BY DEF PersistedInit
<1>3. PersistedTypeOK
  BY <1>1 DEF PersistedInit, PersistedTypeOK, Maybe, Unanswered
<1>4. Kept /\ Doomed
  BY <1>2 DEF PersistedInit, Kept, Doomed, Readable
<1>5. Unbegun
  <2> SUFFICES ASSUME NEW b \in Calls, NEW e \in Persisted
               PROVE  /\ <<b, e>> \notin resolved /\ given[b][e] = Nothing
                      /\ stored[e] # ResolvedBy(b) /\ \A c \in Calls : toPersist[c][e] # ResolvedBy(b)
    BY DEF Unbegun
  <2>1. ResolvedBy(b) \notin {Nothing, Unreadable, Old}
    BY ExitFacts
  <2>. QED BY <1>2, <2>1 DEF PersistedInit, Unanswered
<1>6. Resolving
  BY DEF PersistedInit, Resolving
<1>. QED BY <1>3, <1>4, <1>5, <1>6 DEF PersistedInv

LEMMA LoadInv ==
  ASSUME PersistedRequestsAssumption, PersistedInv, NEW b \in Calls, Load(b) PROVE PersistedInv'
<1> DEFINE found == {e \in Persisted : Readable(stored[e])}
<1>1. PICK stale \in SUBSET found :
        /\ leftover' = [leftover EXCEPT ![b] = (Persisted \ found) \cup stale]
        /\ given' = [given EXCEPT ![b] = [e \in Persisted |-> IF e \in found THEN stored[e] ELSE Nothing]]
        /\ toPersist' = [toPersist EXCEPT ![b] = [e \in Persisted |-> IF e \in stale THEN stored[e] ELSE Nothing]]
        /\ turn' = [turn EXCEPT ![b] = IF leftover'[b] = {} THEN "end" ELSE "resolve"]
  BY DEF Load
<1>2. /\ turn[b] = "begin" /\ stored' = stored /\ resolved' = resolved
      /\ removing' = removing \cup {<<b, e>> : e \in {d \in Persisted : stored[d] = Unreadable}}
  BY DEF Load
<1>3. /\ stored \in [Persisted -> Maybe \cup {Unreadable}] /\ removing \subseteq Calls \X Persisted
      /\ turn \in [Calls -> {"begin", "resolve", "save", "end", "failed"}]
      /\ given \in [Calls -> [Persisted -> Maybe \cup {<<"defect">>}]]
      /\ leftover \in [Calls -> SUBSET Persisted] /\ toPersist \in [Calls -> [Persisted -> Maybe]]
  BY DEF PersistedInv, PersistedTypeOK
<1>4. \A e \in found : e \in Persisted /\ stored[e] \in Exits
  BY <1>3, ExitFacts DEF Maybe
<1>5. /\ leftover'[b] = (Persisted \ found) \cup stale /\ turn'[b] \in {"end", "resolve"}
      /\ \A e \in Persisted : given'[b][e] = IF e \in found THEN stored[e] ELSE Nothing
      /\ \A e \in Persisted : toPersist'[b][e] = IF e \in stale THEN stored[e] ELSE Nothing
      /\ \A c \in Calls \ {b} : /\ leftover'[c] = leftover[c] /\ given'[c] = given[c]
                                /\ toPersist'[c] = toPersist[c] /\ turn'[c] = turn[c]
  BY <1>1, <1>3
<1>6. PersistedTypeOK'
  <2>1. removing' \subseteq Calls \X Persisted
    BY <1>2, <1>3
  <2>2. given'[b] \in [Persisted -> Maybe \cup {<<"defect">>}] /\ toPersist'[b] \in [Persisted -> Maybe]
    BY <1>1, <1>3, <1>4 DEF Maybe
  <2>3. /\ given' \in [Calls -> [Persisted -> Maybe \cup {<<"defect">>}]]
        /\ toPersist' \in [Calls -> [Persisted -> Maybe]]
    BY <1>1, <1>3, <2>2
  <2>4. leftover' \in [Calls -> SUBSET Persisted] /\ turn' \in [Calls -> {"begin", "resolve", "save", "end", "failed"}]
    BY <1>1, <1>3
  <2>. QED BY <1>2, <1>3, <2>1, <2>3, <2>4 DEF PersistedTypeOK
<1>7. Kept'
  BY <1>2 DEF PersistedInv, Kept
<1>8. Doomed'
  BY <1>2 DEF PersistedInv, Doomed, Readable
<1>9. Unbegun'
  <2> SUFFICES ASSUME NEW c \in Calls, turn'[c] = "begin", NEW e \in Persisted
               PROVE  /\ <<c, e>> \notin resolved' /\ given'[c][e] = Nothing
                      /\ stored'[e] # ResolvedBy(c) /\ \A d \in Calls : toPersist'[d][e] # ResolvedBy(c)
    BY DEF Unbegun
  <2>1. c # b /\ turn[c] = "begin"
    BY <1>5
  <2>2. ResolvedBy(c) # Nothing
    BY ExitFacts
  <2>. QED BY <1>2, <1>5, <2>1, <2>2 DEF PersistedInv, Unbegun
<1>10. Resolving'
  <2> SUFFICES ASSUME NEW c \in Calls, turn'[c] \in {"resolve", "save"}, NEW e \in Persisted
               PROVE  /\ e \notin leftover'[c] => toPersist'[c][e] = Nothing
                      /\ given'[c][e] = ResolvedBy(c) => <<c, e>> \in resolved' /\ e \in leftover'[c]
                      /\ given'[c][e] \notin {Nothing, ResolvedBy(c)} => Stores(e, given'[c][e])
                      /\ ~Fails /\ e \in leftover'[c] =>
                           toPersist'[c][e] = IF <<c, e>> \in resolved' THEN ResolvedBy(c) ELSE given'[c][e]
    BY DEF Resolving, Stores
  <2>1. CASE c # b
    BY <1>2, <1>5, <2>1 DEF PersistedInv, Resolving
  <2>2. CASE c = b
    <3>1. <<b, e>> \notin resolved /\ stored[e] # ResolvedBy(b) /\ ResolvedBy(b) # Nothing
      BY <1>2, ExitFacts DEF PersistedInv, Unbegun
    <3>2. e \in found => Stores(e, stored[e])
      BY DEF PersistedInv, Kept
    <3>. QED BY <1>2, <1>5, <2>2, <3>1, <3>2
  <2>. QED BY <2>1, <2>2
<1>. QED BY <1>6, <1>7, <1>8, <1>9, <1>10 DEF PersistedInv

LEMMA ResolveInv ==
  ASSUME PersistedRequestsAssumption, PersistedInv, NEW b \in Calls, NEW f \in Persisted, Resolve(b, f)
  PROVE  PersistedInv'
<1>1. /\ turn[b] = "resolve" /\ f \in leftover[b] /\ resolved' = resolved \cup {<<b, f>>}
      /\ toPersist' = [toPersist EXCEPT ![b][f] = ResolvedBy(b)]
      /\ given' = [given EXCEPT ![b][f] = IF @ = Nothing THEN ResolvedBy(b) ELSE @]
      /\ UNCHANGED <<stored, removing, turn, leftover>>
  BY DEF Resolve
<1>2. /\ given \in [Calls -> [Persisted -> Maybe \cup {<<"defect">>}]]
      /\ toPersist \in [Calls -> [Persisted -> Maybe]]
  BY DEF PersistedInv, PersistedTypeOK
<1>3. /\ \A c \in Calls, e \in Persisted :
           toPersist'[c][e] = IF c = b /\ e = f THEN ResolvedBy(b) ELSE toPersist[c][e]
      /\ \A c \in Calls, e \in Persisted :
           given'[c][e] = IF c = b /\ e = f /\ given[b][f] = Nothing THEN ResolvedBy(b) ELSE given[c][e]
  BY <1>1, <1>2
<1>4. PersistedTypeOK'
  <2>1. ResolvedBy(b) \in Maybe
    BY ExitFacts DEF Maybe
  <2>2. toPersist' \in [Calls -> [Persisted -> Maybe]]
    BY <1>1, <1>2, <2>1
  <2>3. given' \in [Calls -> [Persisted -> Maybe \cup {<<"defect">>}]]
    BY <1>1, <1>2, <2>1
  <2>. QED BY <1>1, <2>2, <2>3 DEF PersistedInv, PersistedTypeOK
<1>5. Kept' /\ Doomed'
  BY <1>1 DEF PersistedInv, Kept, Doomed
<1>6. Unbegun'
  <2> SUFFICES ASSUME NEW c \in Calls, turn[c] = "begin", NEW e \in Persisted
               PROVE  /\ <<c, e>> \notin resolved' /\ given'[c][e] = Nothing
                      /\ stored[e] # ResolvedBy(c) /\ \A d \in Calls : toPersist'[d][e] # ResolvedBy(c)
    BY <1>1 DEF Unbegun
  <2>1. c # b /\ ResolvedBy(b) # ResolvedBy(c)
    BY <1>1, ExitFacts
  <2>. QED BY <1>1, <1>3, <2>1 DEF PersistedInv, Unbegun
<1>7. Resolving'
  <2> SUFFICES ASSUME NEW c \in Calls, turn[c] \in {"resolve", "save"}, NEW e \in Persisted
               PROVE  /\ e \notin leftover[c] => toPersist'[c][e] = Nothing
                      /\ given'[c][e] = ResolvedBy(c) => <<c, e>> \in resolved' /\ e \in leftover[c]
                      /\ given'[c][e] \notin {Nothing, ResolvedBy(c)} => Stores(e, given'[c][e])
                      /\ ~Fails /\ e \in leftover[c] =>
                           toPersist'[c][e] = IF <<c, e>> \in resolved' THEN ResolvedBy(c) ELSE given'[c][e]
    BY <1>1 DEF Resolving, Stores
  <2>1. CASE c # b \/ e # f
    <3>1. <<c, e>> \in resolved' <=> <<c, e>> \in resolved
      BY <1>1, <2>1
    <3>. QED BY <1>3, <2>1, <3>1 DEF PersistedInv, Resolving
  <2>2. CASE c = b /\ e = f
    <3>1. <<c, e>> \in resolved' /\ e \in leftover[c] /\ toPersist'[c][e] = ResolvedBy(c)
      BY <1>1, <1>3, <2>2
    <3>2. given'[c][e] = given[c][e] \/ given'[c][e] = ResolvedBy(c)
      BY <1>3, <2>2
    <3>. QED BY <3>1, <3>2 DEF PersistedInv, Resolving
  <2>. QED BY <2>1, <2>2
<1>. QED BY <1>4, <1>5, <1>6, <1>7 DEF PersistedInv

LEMMA ResolverEndsInv ==
  ASSUME PersistedRequestsAssumption, PersistedInv, NEW b \in Calls, Succeed(b) \/ FailResolver(b)
  PROVE  PersistedInv'
<1>1. /\ turn[b] = "resolve" /\ turn' = [turn EXCEPT ![b] = "save"]
      /\ UNCHANGED <<stored, removing, given, leftover, resolved>>
      /\ \/ UNCHANGED toPersist
         \/ /\ Fails
            /\ toPersist' = [toPersist EXCEPT ![b] =
                 [e \in Persisted |-> IF toPersist[b][e] = Nothing THEN Nothing ELSE FailureOf(b)]]
  BY DEF Succeed, FailResolver
<1>2. /\ turn \in [Calls -> {"begin", "resolve", "save", "end", "failed"}]
      /\ toPersist \in [Calls -> [Persisted -> Maybe]]
  BY DEF PersistedInv, PersistedTypeOK
<1>3. \A c \in Calls : turn'[c] = IF c = b THEN "save" ELSE turn[c]
  BY <1>1, <1>2
<1>4. /\ \A c \in Calls, e \in Persisted :
           \/ toPersist'[c][e] = toPersist[c][e]
           \/ Fails /\ c = b /\ toPersist[b][e] # Nothing /\ toPersist'[b][e] = FailureOf(b)
      /\ ~Fails => toPersist' = toPersist
  <2>1. CASE UNCHANGED toPersist
    BY <2>1
  <2>2. CASE Fails /\ toPersist' = [toPersist EXCEPT ![b] =
                 [e \in Persisted |-> IF toPersist[b][e] = Nothing THEN Nothing ELSE FailureOf(b)]]
    <3>1. toPersist'[b] = [e \in Persisted |-> IF toPersist[b][e] = Nothing THEN Nothing ELSE FailureOf(b)]
      BY <1>2, <2>2
    <3>2. \A c \in Calls \ {b} : toPersist'[c] = toPersist[c]
      BY <1>2, <2>2
    <3>3. \A e \in Persisted : toPersist'[b][e] = IF toPersist[b][e] = Nothing THEN Nothing ELSE FailureOf(b)
      BY <3>1
    <3>. QED BY <2>2, <3>2, <3>3
  <2>. QED BY <1>1, <2>1, <2>2
<1>5. PersistedTypeOK'
  <2>1. FailureOf(b) \in Maybe /\ Nothing \in Maybe
    BY ExitFacts DEF Maybe
  <2>2. toPersist' \in [Calls -> [Persisted -> Maybe]]
    BY <1>1, <1>2, <2>1
  <2>. QED BY <1>1, <1>2, <2>2 DEF PersistedInv, PersistedTypeOK
<1>6. Kept' /\ Doomed'
  BY <1>1 DEF PersistedInv, Kept, Doomed
<1>7. Unbegun'
  <2> SUFFICES ASSUME NEW c \in Calls, turn'[c] = "begin", NEW e \in Persisted
               PROVE  /\ <<c, e>> \notin resolved /\ given[c][e] = Nothing
                      /\ stored[e] # ResolvedBy(c) /\ \A d \in Calls : toPersist'[d][e] # ResolvedBy(c)
    BY <1>1 DEF Unbegun
  <2>1. turn[c] = "begin" /\ FailureOf(b) # ResolvedBy(c)
    BY <1>3, ExitFacts
  <2>. QED BY <1>4, <2>1 DEF PersistedInv, Unbegun
<1>8. Resolving'
  <2> SUFFICES ASSUME NEW c \in Calls, turn'[c] \in {"resolve", "save"}, NEW e \in Persisted
               PROVE  /\ e \notin leftover[c] => toPersist'[c][e] = Nothing
                      /\ given[c][e] = ResolvedBy(c) => <<c, e>> \in resolved /\ e \in leftover[c]
                      /\ given[c][e] \notin {Nothing, ResolvedBy(c)} => Stores(e, given[c][e])
                      /\ ~Fails /\ e \in leftover[c] =>
                           toPersist'[c][e] = IF <<c, e>> \in resolved THEN ResolvedBy(c) ELSE given[c][e]
    BY <1>1 DEF Resolving, Stores
  <2>1. turn[c] \in {"resolve", "save"}
    BY <1>1, <1>3
  <2>. QED BY <1>4, <2>1 DEF PersistedInv, Resolving
<1>. QED BY <1>5, <1>6, <1>7, <1>8 DEF PersistedInv

\* A call that ends, of which S is saved.
LEMMA CallEndsInv ==
  ASSUME PersistedRequestsAssumption, PersistedInv, NEW b \in Calls, NEW x \in Exits \cup {<<"defect">>},
         turn' = [turn EXCEPT ![b] = "end"] \/ turn' = [turn EXCEPT ![b] = "failed"], Unmet(b, x),
         UNCHANGED <<removing, leftover, toPersist, resolved>>,
         NEW S \in SUBSET ToStore(b), SaveAll(S, b), S = {} \/ Slow \/ removing = {}
  PROVE  PersistedInv' /\ \A e \in Persisted : Readable(stored[e]) => Readable(stored'[e])
<1>1. /\ stored \in [Persisted -> Maybe \cup {Unreadable}]
      /\ turn \in [Calls -> {"begin", "resolve", "save", "end", "failed"}]
      /\ given \in [Calls -> [Persisted -> Maybe \cup {<<"defect">>}]]
      /\ toPersist \in [Calls -> [Persisted -> Maybe]]
  BY DEF PersistedInv, PersistedTypeOK
<1>2. \A e \in Persisted : stored'[e] = IF e \in S THEN toPersist[b][e] ELSE stored[e]
  BY DEF SaveAll
<1>3. \A e \in S : e \in Persisted /\ Stores(e, toPersist[b][e]) /\ toPersist[b][e] \in Exits
  BY <1>1, ExitFacts DEF ToStore, Maybe
<1>4. \A c \in Calls : (turn'[c] \in {"end", "failed"} /\ c = b) \/ (turn'[c] = turn[c] /\ c # b)
  BY <1>1
<1>5. \A c \in Calls \ {b} : given'[c] = given[c]
  BY <1>1 DEF Unmet
<1>6. PersistedTypeOK'
  <2>1. stored' \in [Persisted -> Maybe \cup {Unreadable}]
    BY <1>1, <1>3 DEF SaveAll
  <2>2. given' \in [Calls -> [Persisted -> Maybe \cup {<<"defect">>}]]
    BY <1>1 DEF Unmet, Maybe
  <2>3. turn' \in [Calls -> {"begin", "resolve", "save", "end", "failed"}]
    BY <1>1
  <2>. QED BY <2>1, <2>2, <2>3 DEF PersistedInv, PersistedTypeOK
<1>7. Kept'
  BY <1>2, <1>3 DEF PersistedInv, Kept
<1>8. Doomed'
  <2>1. ASSUME ~Slow PROVE removing = {} \/ \A e \in Persisted : stored'[e] = stored[e]
    BY <1>2, <2>1
  <2>. QED BY <2>1 DEF PersistedInv, Doomed
<1>9. Unbegun'
  BY <1>2, <1>4, <1>5 DEF PersistedInv, Unbegun
<1>10. Resolving'
  <2> SUFFICES ASSUME NEW c \in Calls, turn'[c] \in {"resolve", "save"}, NEW e \in Persisted
               PROVE  /\ e \notin leftover[c] => toPersist[c][e] = Nothing
                      /\ given'[c][e] = ResolvedBy(c) => <<c, e>> \in resolved /\ e \in leftover[c]
                      /\ given'[c][e] \notin {Nothing, ResolvedBy(c)} => Stores(e, given'[c][e])
                      /\ ~Fails /\ e \in leftover[c] =>
                           toPersist[c][e] = IF <<c, e>> \in resolved THEN ResolvedBy(c) ELSE given'[c][e]
    BY DEF Resolving, Stores
  <2>1. c # b /\ turn[c] \in {"resolve", "save"}
    BY <1>4
  <2>. QED BY <1>5, <2>1 DEF PersistedInv, Resolving
<1>11. \A e \in Persisted : Readable(stored[e]) => Readable(stored'[e])
  BY <1>2, <1>3, ExitFacts
<1>. QED BY <1>6, <1>7, <1>8, <1>9, <1>10, <1>11 DEF PersistedInv

\* What is removed or whose time is over.
LEMMA GoneInv ==
  ASSUME PersistedRequestsAssumption, PersistedInv, NEW f \in Persisted,
         stored' = [stored EXCEPT ![f] = Nothing], removing' \subseteq removing,
         UNCHANGED <<turn, given, leftover, toPersist, resolved>>
  PROVE  PersistedInv'
<1>1. stored \in [Persisted -> Maybe \cup {Unreadable}] /\ Nothing \in Maybe
  BY DEF PersistedInv, PersistedTypeOK, Maybe
<1>2. \A e \in Persisted : stored'[e] = IF e = f THEN Nothing ELSE stored[e]
  BY <1>1
<1>3. \A b \in Calls : ResolvedBy(b) # Nothing
  BY ExitFacts
<1>4. PersistedTypeOK'
  BY <1>1 DEF PersistedInv, PersistedTypeOK
<1>5. Kept' /\ Doomed'
  BY <1>2 DEF PersistedInv, Kept, Doomed, Readable
<1>6. Unbegun'
  BY <1>2, <1>3 DEF PersistedInv, Unbegun
<1>7. Resolving'
  BY DEF PersistedInv, Resolving, Stores
<1>. QED BY <1>4, <1>5, <1>6, <1>7 DEF PersistedInv

LEMMA PersistedNextInv ==
  ASSUME PersistedRequestsAssumption, PersistedInv, [PersistedNext]_persistedVars PROVE PersistedInv'
<1>1. ASSUME NEW b \in Calls, RunStep(b) PROVE PersistedInv'
  <2>1. CASE FailLoad(b)
    <3>1. SaveAll({}, b)
      <4>1. stored' = stored /\ stored = [e \in Persisted |-> stored[e]]
        BY <2>1 DEF FailLoad, PersistedInv, PersistedTypeOK
      <4>. QED BY <4>1 DEF SaveAll
    <3>2. FailureOf(b) \in Exits
      BY ExitFacts
    <3>. QED BY <2>1, <3>1, <3>2, CallEndsInv DEF FailLoad
  <2>2. CASE Save(b)
    BY <2>2, CallEndsInv DEF Save
  <2>3. CASE FailSave(b)
    <3>1. PICK S \in SUBSET ToStore(b) : SaveAll(S, b)
      BY <2>3 DEF FailSave
    <3>2. FailureOf(b) \in Exits
      BY ExitFacts
    <3>. QED BY <2>3, <3>1, <3>2, CallEndsInv DEF FailSave
  <2>. QED BY <1>1, <2>1, <2>2, <2>3, LoadInv, ResolveInv, ResolverEndsInv DEF RunStep
<1>2. ASSUME NEW b \in Calls, NEW e \in Persisted, Remove(b, e) PROVE PersistedInv'
  BY <1>2, GoneInv DEF Remove
<1>3. ASSUME NEW e \in Persisted, ResultExpires(e) PROVE PersistedInv'
  BY <1>3, GoneInv DEF ResultExpires
<1>4. CASE UNCHANGED persistedVars
  BY <1>4 DEF persistedVars, PersistedInv, PersistedTypeOK, Kept, Doomed, Unbegun, Resolving, Stores
<1>. QED BY <1>1, <1>2, <1>3, <1>4 DEF PersistedNext, PersistedOver

\* Which step it is that saves.
LEMMA SavesOnce ==
  ASSUME PersistedRequestsAssumption, PersistedInv, [PersistedNext]_persistedVars, NEW b \in Calls, Saves(b)
  PROVE  \A e \in Persisted : stored'[e] = IF e \in ToStore(b) THEN toPersist[b][e] ELSE stored[e]
<1>1. turn \in [Calls -> {"begin", "resolve", "save", "end", "failed"}] /\ turn[b] = "save" /\ turn'[b] = "end"
  BY DEF Saves, PersistedInv, PersistedTypeOK
<1>2. ASSUME NEW c \in Calls, RunStep(c) PROVE Save(b)
  <2>1. CASE c # b
    <3>1. \/ turn' = [turn EXCEPT ![c] = IF leftover'[c] = {} THEN "end" ELSE "resolve"]
          \/ turn' = [turn EXCEPT ![c] = "failed"] \/ turn' = [turn EXCEPT ![c] = "save"]
          \/ turn' = [turn EXCEPT ![c] = "end"] \/ turn' = turn
      BY <1>2 DEF RunStep, Load, FailLoad, Resolve, Succeed, FailResolver, Save, FailSave
    <3>. QED BY <1>1, <2>1, <3>1
  <2>2. CASE c = b
    BY <1>1, <1>2, <2>2 DEF RunStep, Load, FailLoad, Resolve, Succeed, FailResolver, FailSave
  <2>. QED BY <2>1, <2>2
<1>3. Save(b)
  BY <1>1, <1>2 DEF PersistedNext, PersistedOver, Remove, ResultExpires, persistedVars
<1>. QED BY <1>3 DEF Save, SaveAll

\* Unless resolvers fail, what was missing is stored as it was answered, what needed
\* no answer is left alone, and what is resolved again is stored afresh, or as it was
\* if the resolver left it out, by any number of calls at once
\* (RequestResolver.ts:1206-1246).
THEOREM ResultsAreStored ==
  ASSUME PersistedRequestsAssumption, ~Fails PROVE PersistedSpec => StoredAsAnswered /\ Refreshed
<1>1. PersistedInit => PersistedInv
  BY PersistedInitInv
<1>2. PersistedInv /\ [PersistedNext]_persistedVars => PersistedInv'
  BY PersistedNextInv
<1>3. PersistedInv /\ [PersistedNext]_persistedVars => \A b \in Calls : Saves(b) => \A e \in Persisted :
        /\ given[b][e] = ResolvedBy(b) /\ Stores(e, ResolvedBy(b)) => stored'[e] = given[b][e]
        /\ e \notin leftover[b] => stored'[e] = stored[e]
  <2> SUFFICES ASSUME PersistedInv, [PersistedNext]_persistedVars, NEW b \in Calls, Saves(b), NEW e \in Persisted
               PROVE  /\ given[b][e] = ResolvedBy(b) /\ Stores(e, ResolvedBy(b)) => stored'[e] = given[b][e]
                      /\ e \notin leftover[b] => stored'[e] = stored[e]
    OBVIOUS
  <2>1. turn[b] = "save" /\ (Stores(e, toPersist[b][e]) => toPersist[b][e] # Nothing)
    BY ExitFacts DEF Saves
  <2>2. stored'[e] = IF Stores(e, toPersist[b][e]) THEN toPersist[b][e] ELSE stored[e]
    BY SavesOnce DEF ToStore
  <2>. QED BY <2>1, <2>2 DEF PersistedInv, Resolving
<1>4. PersistedInv /\ [PersistedNext]_persistedVars => \A b \in Calls : Saves(b) => \A e \in leftover[b] :
        given[b][e] \notin {Nothing, ResolvedBy(b)} =>
          stored'[e] = IF <<b, e>> \notin resolved THEN given[b][e]
                       ELSE IF Stores(e, ResolvedBy(b)) THEN ResolvedBy(b) ELSE stored[e]
  <2> SUFFICES ASSUME PersistedInv, [PersistedNext]_persistedVars, NEW b \in Calls, Saves(b), NEW e \in leftover[b],
                      given[b][e] \notin {Nothing, ResolvedBy(b)}
               PROVE  stored'[e] = IF <<b, e>> \notin resolved THEN given[b][e]
                                   ELSE IF Stores(e, ResolvedBy(b)) THEN ResolvedBy(b) ELSE stored[e]
    OBVIOUS
  <2>1. turn[b] = "save" /\ e \in Persisted
    BY DEF Saves, PersistedInv, PersistedTypeOK
  <2>2. stored'[e] = IF Stores(e, toPersist[b][e]) THEN toPersist[b][e] ELSE stored[e]
    BY <2>1, SavesOnce DEF ToStore
  <2>. QED BY <2>1, <2>2 DEF PersistedInv, Resolving
<1>. QED BY <1>1, <1>2, <1>3, <1>4, PTL DEF PersistedSpec, StoredAsAnswered, Refreshed

\* A result that can be read stays until its time is over, whether calls fail or not
\* and whatever they save, if removals do not outlive a save (RequestResolver.ts:1207-1245,
\* Persistence.ts:192-196).
THEOREM ResultsAreKept ==
  ASSUME PersistedRequestsAssumption, ~Slow PROVE PersistedSpec => ResultsStay
<1>1. PersistedInit => PersistedInv
  BY PersistedInitInv
<1>2. PersistedInv /\ [PersistedNext]_persistedVars => PersistedInv'
  BY PersistedNextInv
<1>3. PersistedInv /\ [PersistedNext]_persistedVars => \A e \in Persisted :
        Readable(stored[e]) /\ ~Readable(stored'[e]) => UNCHANGED <<removing, turn>>
  <2> SUFFICES ASSUME PersistedInv, [PersistedNext]_persistedVars, NEW f \in Persisted,
                      Readable(stored[f]), ~Readable(stored'[f])
               PROVE  UNCHANGED <<removing, turn>>
    OBVIOUS
  <2>1. ASSUME NEW b \in Calls, RunStep(b) PROVE FALSE
    <3>1. ASSUME FailLoad(b) \/ Load(b) \/ (\E e \in Persisted : Resolve(b, e)) \/ Succeed(b) \/ FailResolver(b)
          PROVE  stored' = stored
      BY <3>1 DEF Load, FailLoad, Resolve, Succeed, FailResolver
    <3>2. CASE Save(b)
      BY <3>2, CallEndsInv DEF Save
    <3>3. CASE FailSave(b)
      <4>1. PICK S \in SUBSET ToStore(b) : SaveAll(S, b)
        BY <3>3 DEF FailSave
      <4>2. FailureOf(b) \in Exits
        BY ExitFacts
      <4>. QED BY <3>3, <4>1, <4>2, CallEndsInv DEF FailSave
    <3>. QED BY <2>1, <3>1, <3>2, <3>3 DEF RunStep
  <2>2. ASSUME NEW b \in Calls, NEW e \in Persisted, Remove(b, e) PROVE FALSE
    <3>1. stored' = [stored EXCEPT ![e] = Nothing] /\ ~Readable(stored[e])
      BY <2>2 DEF Remove, PersistedInv, Doomed
    <3>2. f # e /\ stored \in [Persisted -> Maybe \cup {Unreadable}]
      BY <3>1 DEF PersistedInv, PersistedTypeOK
    <3>. QED BY <3>1, <3>2
  <2>3. ASSUME NEW e \in Persisted, ResultExpires(e) PROVE UNCHANGED <<removing, turn>>
    BY <2>3 DEF ResultExpires
  <2>. QED BY <2>1, <2>2, <2>3 DEF PersistedNext, PersistedOver, persistedVars
<1>. QED BY <1>1, <1>2, <1>3, PTL DEF PersistedSpec, ResultsStay
=============================================================================

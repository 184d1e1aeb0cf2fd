----------------------------- MODULE LayerMemo -----------------------------
(***************************************************************************)
(* One layer built through memo maps (Layer.ts): fibers that build it at the   *)
(* same time share an instance, which lives while it is observed. A forked map   *)
(* reuses what the maps it descends from have.                               *)
(***************************************************************************)
EXTENDS Naturals, Sequences, FiniteSets

CONSTANTS Builders, Maps,
          MapOf, Ancestry, \* the map a user builds with; a map and then its ancestors
          Yields,         \* the runtime yields between getOrElseMemoize and its effect
          Rebuild,        \* a layer is built while its last instance is released
          MaxMemoEntries, MaxObservers \* bounds: entries, observers nobody takes back

\* What the constants have to satisfy.
LayerMemoAssumption ==
  /\ IsFiniteSet(Builders)
  /\ MapOf \in [Builders -> Maps] /\ Ancestry \in [Maps -> Seq(Maps)]
  /\ \A m \in Maps : /\ Ancestry[m] # <<>> /\ Head(Ancestry[m]) = m
                     /\ Tail(Ancestry[m]) # <<>> => Tail(Ancestry[m]) = Ancestry[Ancestry[m][2]]
  /\ {Yields, Rebuild} \subseteq BOOLEAN /\ {MaxMemoEntries, MaxObservers} \subseteq Nat

VARIABLES memo,       \* every MemoMapEntry there was: [map, observers, exit, resource, scope]
          memoized,   \* the entry each map has, 0 for none
          stage, uses \* users, and the entry each works with

layerVars == <<memo, memoized, stage, uses>>

MemoIds == DOMAIN memo
LayerInit == /\ memo = <<>> /\ memoized = [m \in Maps |-> 0]
             /\ stage = [u \in Builders |-> "idle"] /\ uses = [u \in Builders |-> 0]

Moves(u, to) == stage' = [stage EXCEPT ![u] = to]
Now(e, f, v) == memo' = [memo EXCEPT ![e][f] = v]

\* Mutant: only the parent is asked, not its parent.
FoundNear(m) == LET near == Ancestry[m][IF Len(Ancestry[m]) > 1 THEN 2 ELSE 1]
                IN IF memoized[m] # 0 THEN memoized[m] ELSE memoized[near]
\* MemoMapImpl.get: the map's own entry, else that of the nearest ancestor that has one.
Found(m) == LET holders == {i \in DOMAIN Ancestry[m] : memoized[Ancestry[m][i]] # 0}
                nearest == CHOOSE i \in holders : \A j \in holders : i <= j
            IN IF holders = {} THEN 0 ELSE memoized[Ancestry[m][nearest]]

\* memoMapReuse: the observer is counted before its finalizer is there.
Reuse(u) ==
  /\ stage[u] = "idle" /\ Moves(u, "counted")
  /\ LET e == Found(MapOf[u])
     IN /\ e # 0 /\ uses' = [uses EXCEPT ![u] = e] /\ Now(e, "observers", memo[e].observers + 1)
  /\ UNCHANGED memoized

Releasing == \E e \in MemoIds : memo[e].scope = "closing"
\* memoMapBuild: a new entry.
Create(u) ==
  /\ stage[u] = "idle" /\ Found(MapOf[u]) = 0 /\ Len(memo) < MaxMemoEntries /\ (Rebuild \/ ~Releasing)
  /\ memo' = Append(memo, [map |-> MapOf[u], observers |-> 1, exit |-> "none", resource |-> "none", scope |-> "open"])
  /\ memoized' = [memoized EXCEPT ![MapOf[u]] = Len(memo')]
  /\ uses' = [uses EXCEPT ![u] = Len(memo')] /\ Moves(u, "created")

\* The finalizer is added; the deferred is awaited, or the layer is built.
Register(u) == /\ stage[u] \in {"counted", "created"}
               /\ Moves(u, IF stage[u] = "counted" THEN "awaiting" ELSE "building")
               /\ UNCHANGED <<memo, memoized, uses>>

AcquireLayer(u) == /\ stage[u] = "building" /\ memo[uses[u]].resource = "none"
                   /\ Now(uses[u], "resource", "live") /\ UNCHANGED <<memoized, stage, uses>>

\* Mutant: whoever waits is told of a success only.
TellSuccess(u, exit) == Now(uses[u], "exit", IF exit = "ok" THEN exit ELSE "none")
\* onExit: the entry's effect, and the deferred.
Tell(u, exit) == Now(uses[u], "exit", exit)

Built(u, exit) == /\ stage[u] = "building" /\ (exit = "ok" => memo[uses[u]].resource = "live")
                  /\ Tell(u, exit) /\ Moves(u, IF exit = "ok" THEN "ok" ELSE "ending")
                  /\ UNCHANGED <<memoized, uses>>

Answered(u) == /\ stage[u] = "awaiting" /\ memo[uses[u]].exit # "none"
               /\ Moves(u, IF memo[uses[u]].exit = "ok" THEN "ok" ELSE "ending")
               /\ UNCHANGED <<memo, memoized, uses>>

\* Interruption ends a build for everybody who waits for it. Before the finalizer
\* and the onExit are there it leaves the entry as it is.
InterruptBuild(u) == \/ Built(u, "interrupted")
                     \/ stage[u] = "awaiting" /\ Moves(u, "ending") /\ UNCHANGED <<memo, memoized, uses>>
                     \/ /\ Yields /\ stage[u] \in {"counted", "created"} /\ Moves(u, "idle")
                        /\ memo[uses[u]].observers <= MaxObservers
                        /\ uses' = [uses EXCEPT ![u] = 0] /\ UNCHANGED <<memo, memoized>>

\* The scope of a user is closed.
CloseLayer(u) == stage[u] = "ok" /\ Moves(u, "ending") /\ UNCHANGED <<memo, memoized, uses>>

\* Mutant: the instance goes with the user who built it.
ReleaseFirst(u) ==
  LET e == uses[u]
  IN /\ stage[u] = "ending" /\ Moves(u, "closing")
     /\ memo' = [memo EXCEPT ![e].observers = @ - 1, ![e].scope = "closing"]
     /\ memoized' = [m \in Maps |-> IF memoized[m] = e THEN 0 ELSE memoized[m]] /\ UNCHANGED uses
\* The finalizer: the last observer removes the entry and closes its scope.
ReleaseLayer(u) ==
  LET e == uses[u]
      last == memo[e].observers = 1
  IN /\ stage[u] = "ending" /\ Moves(u, "closing")
     /\ memo' = [memo EXCEPT ![e].observers = @ - 1, ![e].scope = IF last THEN "closing" ELSE @]
     /\ memoized' = [m \in Maps |-> IF last /\ memoized[m] = e THEN 0 ELSE memoized[m]]
     /\ UNCHANGED uses

\* Mutant: the instance is forgotten, not released.
Forget(e) == memo' = [memo EXCEPT ![e].scope = "closed"]
Dispose(e) == memo' = [memo EXCEPT ![e].scope = "closed",
                            ![e].resource = IF @ = "live" THEN "gone" ELSE @]
ScopeClosed(e) == memo[e].scope = "closing" /\ Dispose(e) /\ UNCHANGED <<memoized, stage, uses>>

\* The one that closed the scope goes on when it is closed.
Ended(u) == /\ stage[u] = "closing" /\ memo[uses[u]].scope # "closing"
            /\ Moves(u, "idle") /\ uses' = [uses EXCEPT ![u] = 0] /\ UNCHANGED <<memo, memoized>>

Builds(u) == \/ Register(u) \/ AcquireLayer(u) \/ Built(u, "ok") \/ Built(u, "failed")
             \/ Answered(u) \/ ReleaseLayer(u) \/ Ended(u)
LayerStep == \/ \E u \in Builders : Reuse(u) \/ Create(u) \/ Builds(u) \/ InterruptBuild(u) \/ CloseLayer(u)
             \/ \E e \in MemoIds : ScopeClosed(e)
\* No more entries are to be had.
LayerOver == /\ Len(memo) = MaxMemoEntries /\ \A u \in Builders : stage[u] = "idle"
             /\ (\A e \in MemoIds : memo[e].scope # "closing") /\ UNCHANGED layerVars
LayerNext == LayerStep \/ LayerOver

LayerSpec == LayerInit /\ [][LayerNext]_layerVars
LayerFairSpec == /\ LayerSpec /\ \A u \in Builders : WF_layerVars(Builds(u))
                 /\ WF_layerVars(\E e \in MemoIds : ScopeClosed(e))

--------------------------------------------------------------------------
(* Properties.                                                             *)

\* Who has the layer has a live instance, whoever else gives it up or fails
\* (Layer.ts:238-247, 389-408).
LiveInUse == \A u \in Builders : stage[u] = "ok" => memo[uses[u]].resource = "live"

\* "The `MemoMap` prevents duplicate construction of the same layer instance"
\* (Layer.ts:190-191).
NoDuplicate == \A m \in Maps :
  Cardinality({e \in MemoIds : memo[e].map = m /\ memo[e].resource = "live"}) <= 1

\* "Resources created by the layer are released when the supplied scope is
\* closed" (Layer.ts:695-696): without users nothing is left, not even an entry.
LayerLeaksNothing == (\A u \in Builders : stage[u] = "idle") /\ ~Releasing =>
  (\A m \in Maps : memoized[m] = 0) /\ \A e \in MemoIds : memo[e].resource # "live"

\* "child builds should see parent memoized layers" (Layer.ts:486-488): a map has
\* no instance of its own beside one that an ancestor, however far, had before.
NoneBelow == \A d, e \in MemoIds : memo[d].scope = "open" /\ memo[e].scope = "open" /\ d < e =>
  \A i \in 2 .. Len(Ancestry[memo[e].map]) : Ancestry[memo[e].map][i] # memo[d].map

\* What a memo map keeps. Between two builds an instance may still be released if
\* Rebuild, and an interrupted lookup leaves its entry behind if Yields.
LayerSafe == /\ LiveInUse
             /\ NoneBelow
             /\ ~Rebuild => NoDuplicate
             /\ ~Yields => LayerLeaksNothing

\* Every build has an answer: interrupting the one who builds does not leave the
\* others waiting (Layer.ts:403-408).
BuildsEnd == \A u \in Builders : stage[u] \in {"awaiting", "building"} ~> stage[u] \notin {"awaiting", "building"}
===========================================================================

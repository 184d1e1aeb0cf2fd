------------------------------- MODULE RcMap -------------------------------
(***************************************************************************)
(* RcMap.ts of the pinned Effect source: resources by key, shared by        *)
(* reference count, kept for a while when idle. Users are scopes that get a *)
(* key and are closed. Entries are the State.Entry objects made so far; map *)
(* holds the current one of each key. Time is a small integer.              *)
(*                                                                          *)
(* Hazards names what an instance runs into:                                *)
(*   "reget"  a key is looked up again while an entry of it that was        *)
(*            invalidated is in use, or its idle fiber still sleeps         *)
(*   "yield"  the scheduler runs somebody else between the last decision of *)
(*            an idle fiber and the finalizer that forgets it (399-410)     *)
(* What a lookup returns is left out: a failed one is shared like any other.*)
(***************************************************************************)
EXTENDS Integers, FiniteSets

CONSTANTS Users, Keys, Capacity, Hazards,
          Ttls,             \* values of idleTimeToLive: 0, finite or Infinity
          Infinity, MaxEntries, MaxTime, MaxInvalidates

\* What the constants have to satisfy.
RcMapAssumption == /\ IsFiniteSet(Users)
                   /\ Ttls \subseteq Nat /\ Infinity \in Nat
                   /\ Infinity > MaxTime /\ Capacity \in Nat
                   /\ Hazards \subseteq {"reget", "yield"}

VARIABLES map,        \* key -> entry, 0 when the key is absent
          entry,      \* the entries so far
          user,       \* the entry each user retains, 0 for none
          state,      \* "Open", "Closing" (the scope is closed) or "Closed"
          ttl, now, invalidates

vars == <<map, entry, user, state, ttl, now, invalidates>>

Entries == DOMAIN entry

Init == /\ map = [k \in Keys |-> 0] /\ entry = <<>>
        /\ user = [u \in Users |-> 0]
        /\ state = "Open" /\ ttl \in Ttls /\ now = 0 /\ invalidates = 0

\* Mutant: an entry that was idle before is taken to have its fiber still.
AloneAtFirst(i) == entry[i].expiresAt = 0
\* The fiber of an entry: none, asleep, or past its decision not to close.
Alone(i) == entry[i].fiber = "none"
Stale(k) == \E i \in Entries : /\ entry[i].key = k /\ entry[i].invalidated
                               /\ entry[i].refCount > 0 \/ ~Alone(i)

\* Mutant: a hit does not count.
Hit(i) == [entry EXCEPT ![i].refCount = IF Alone(i) THEN @ + 1 ELSE @]
\* One more reference; an idle fiber goes on sleeping.
Retain(i) == [entry EXCEPT ![i].refCount = @ + 1]

\* Mutant: closing leaves out what is idle.
ClosedEntries == {i \in Entries : entry[i].refCount > 0}
\* The finalizer of make closes what the map holds.
Mapped == {map[k] : k \in Keys} \ {0}

\* Mutant: the fiber does not look at the count when it wakes.
Expires(i) == state # "Closed"
\* The idle fiber goes through with it.
Unused(i) == state # "Closed" /\ entry[i].refCount = 0

--------------------------------------------------------------------------
\* get: the whole of it is uninterruptible up to the wait for the lookup.
Get(u, k) ==
  /\ user[u] = 0 /\ state # "Closed"
  /\ \/ /\ map[k] # 0
        /\ entry' = Retain(map[k])
        /\ user' = [user EXCEPT ![u] = map[k]] /\ UNCHANGED map
     \/ /\ map[k] = 0 /\ Cardinality(Mapped) < Capacity
        /\ Cardinality(Entries) < MaxEntries
        /\ Stale(k) => "reget" \in Hazards
        /\ LET i == Cardinality(Entries) + 1
           IN /\ entry' = [e \in 1 .. i |-> IF e < i THEN entry[e] ELSE
                    [key |-> k, refCount |-> 1, fiber |-> "none", expiresAt |-> 0,
                     open |-> TRUE, invalidated |-> FALSE]]
              /\ map' = [map EXCEPT ![k] = i]
              /\ user' = [user EXCEPT ![u] = i]
  /\ UNCHANGED <<state, ttl, now, invalidates>>

\* release, the finalizer of a user: it asks whether the KEY is in the map.
Release(u) ==
  /\ user[u] # 0
  /\ user' = [user EXCEPT ![u] = 0]
  /\ LET i == user[u]
         k == entry[i].key
         left == [entry EXCEPT ![i].refCount = @ - 1]
         drop == state = "Closed" \/ map[k] = 0 \/ ttl = 0
     IN \/ left[i].refCount > 0 /\ entry' = left /\ UNCHANGED map
        \/ /\ left[i].refCount = 0 /\ drop
           /\ entry' = [left EXCEPT ![i].open = FALSE]
           /\ map' = IF state = "Closed" THEN map ELSE [map EXCEPT ![k] = 0]
        \/ /\ left[i].refCount = 0 /\ ~drop /\ ttl = Infinity
           /\ entry' = left /\ UNCHANGED map
        \/ /\ left[i].refCount = 0 /\ ~drop /\ ttl # Infinity
           /\ entry' = [left EXCEPT ![i].expiresAt = now + ttl,
                 \* a fiber run in a closed scope is interrupted at once
                 ![i].fiber = IF ~Alone(i) THEN @
                              ELSE IF state = "Open" THEN "asleep" ELSE "none"]
           /\ UNCHANGED map
  /\ UNCHANGED <<state, ttl, now, invalidates>>

\* The idle fiber of an entry wakes and its time is over. Nothing runs between
\* this and its ensuring, unless the scheduler yields.
Expire(i) ==
  /\ entry[i].fiber = "asleep" /\ entry[i].expiresAt <= now
  /\ IF Unused(i)
     THEN /\ map' = [map EXCEPT ![entry[i].key] = 0]
          /\ entry' = [entry EXCEPT ![i].open = FALSE, ![i].fiber = "none"]
     ELSE /\ entry' = [entry EXCEPT ![i].fiber =
                         IF "yield" \in Hazards THEN "ending" ELSE "none"]
          /\ UNCHANGED map
  /\ UNCHANGED <<user, state, ttl, now, invalidates>>

\* Effect.ensuring: entry.fiber = undefined.
Ensuring(i) ==
  /\ entry[i].fiber = "ending"
  /\ entry' = [entry EXCEPT ![i].fiber = "none"]
  /\ UNCHANGED <<map, user, state, ttl, now, invalidates>>

\* invalidate: an entry in use is left to its users, with its idle fiber.
Invalidate(k) ==
  /\ state # "Closed" /\ map[k] # 0 /\ invalidates < MaxInvalidates
  /\ invalidates' = invalidates + 1
  /\ map' = [map EXCEPT ![k] = 0]
  /\ entry' = IF entry[map[k]].refCount > 0
              THEN [entry EXCEPT ![map[k]].invalidated = TRUE]
              ELSE [entry EXCEPT ![map[k]].invalidated = TRUE,
                                 ![map[k]].open = FALSE, ![map[k]].fiber = "none"]
  /\ UNCHANGED <<user, state, ttl, now>>

Touch(k) ==
  /\ state # "Closed" /\ map[k] # 0 /\ ttl # 0
  /\ entry' = [entry EXCEPT ![map[k]].expiresAt = now + ttl]
  /\ UNCHANGED <<map, user, state, ttl, now, invalidates>>

\* The scope closes: its finalizers interrupt the idle fibers one by one ...
CloseScope ==
  /\ state = "Open" /\ state' = "Closing"
  /\ entry' = [i \in Entries |-> [entry[i] EXCEPT !.fiber = "none"]]
  /\ UNCHANGED <<map, user, ttl, now, invalidates>>

\* ... and the finalizer of make, added first, comes last.
CloseMap ==
  /\ state = "Closing" /\ state' = "Closed"
  /\ entry' = [i \in Entries |-> [entry[i] EXCEPT !.open = @ /\ i \notin Mapped]]
  /\ map' = [k \in Keys |-> 0]
  /\ UNCHANGED <<user, ttl, now, invalidates>>

Tick == /\ now < MaxTime /\ now' = now + 1
        /\ UNCHANGED <<map, entry, user, state, ttl, invalidates>>

IdleStep == \E i \in Entries : Expire(i) \/ Ensuring(i)

Next == \/ \E u \in Users : Release(u) \/ \E k \in Keys : Get(u, k)
        \/ \E k \in Keys : Invalidate(k) \/ Touch(k)
        \/ IdleStep \/ CloseScope \/ CloseMap \/ Tick

Spec == Init /\ [][Next]_vars
FairSpec == Spec /\ WF_vars(IdleStep) /\ WF_vars(Tick) /\ WF_vars(CloseMap)

--------------------------------------------------------------------------
(* Properties.                                                             *)

\* The count of an entry is the number of scopes that retain it
\* (RcMap.ts:342, 355, 378).
RefsExact ==
  \A i \in Entries : entry[i].refCount = Cardinality({u \in Users : user[u] = i})

\* A resource is not closed under its users: neither by an idle fiber that was
\* asleep when they came, nor by invalidate (RcMap.ts:376-415, 505-514).
NoUseAfterRelease ==
  state # "Closed" => \A u \in Users : user[u] # 0 => entry[user[u]].open

\* "Resources are ... automatically released when no longer in use"
\* (RcMap.ts:32-33): all of them once the map is closed and everybody has left.
NothingLeaks ==
  state = "Closed" /\ (\A u \in Users : user[u] = 0)
    => \A i \in Entries : ~entry[i].open

\* "acquired once per key and shared while in use" (RcMap.ts:197): users of a
\* key share, unless one of them has it from before an invalidation.
Shared ==
  \A u, v \in Users :
    LET i == user[u]
        j == user[v]
    IN i # 0 /\ j # 0 /\ i # j /\ entry[i].key = entry[j].key
         => entry[i].invalidated \/ entry[j].invalidated

\* What a map keeps between any two steps. The finalizer of a user and the idle
\* fiber go by the key: once the key has a new entry beside an old one they can
\* take the new one out of the map, and nobody closes it (RcMap.ts:376-412).
MapSafe ==
  /\ RefsExact
  /\ NoUseAfterRelease
  /\ "reget" \notin Hazards => NothingLeaks /\ Shared

Idling(i) == /\ i \in Entries /\ entry[i].open /\ entry[i].refCount = 0
             /\ entry[i].expiresAt <= MaxTime

\* "When the reference count reaches zero, the resource will be released after
\* this duration" (RcMap.ts:204): or it is used again.
IdleEnds == \A i \in 1 .. MaxEntries : (Idling(i) /\ ttl < Infinity) ~> ~Idling(i)
==========================================================================

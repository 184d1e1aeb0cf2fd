------------------------------- MODULE RcRef -------------------------------
(***************************************************************************)
(* internal/rcRef.ts of the pinned Effect source: one resource, acquired by *)
(* the first get and shared by reference count. Users are scopes that get   *)
(* the resource and are closed. Entries are the successive State.Acquired   *)
(* objects; state says which one, if any, the reference points to.          *)
(*                                                                          *)
(* Hazards names what the clients of an instance run into:                  *)
(*   "overlap"   a get starts while another is acquiring                    *)
(*   "partial"   acquire registers a finalizer and then fails, or is        *)
(*               interrupted after its uninterruptible part has             *)
(*   "closing"   the reference is closed while a get is acquiring           *)
(***************************************************************************)
EXTENDS Integers, FiniteSets

CONSTANTS Users, Nobody, Hazards,
          Ttls,                     \* of "none", "finite", "infinite"
          MaxEntries, MaxGets, MaxInvalidates

\* What the constants have to satisfy.
RcRefAssumption == /\ Nobody \notin Users /\ IsFiniteSet(Users)
                   /\ Hazards \subseteq {"overlap", "partial", "closing"}
                   /\ Ttls \subseteq {"none", "finite", "infinite"}

VARIABLES state,      \* an entry, Empty or Closed
          entry,      \* the State.Acquired objects so far
          user,       \* where each user is: [at, of]
          closed,     \* whether the scope of the reference is closed
          permit,     \* who holds the semaphore
          ttl,        \* the idleTimeToLive of the reference
          gets, invalidates

vars == <<state, entry, user, closed, permit, ttl, gets, invalidates>>

Empty == 0
Closed == -1
Entries == DOMAIN entry
Outside == [at |-> "outside", of |-> 0]

Init == /\ state = Empty /\ entry = <<>> /\ closed = FALSE /\ permit = Nobody
        /\ user = [u \in Users |-> Outside]
        /\ ttl \in Ttls
        /\ gets = 0 /\ invalidates = 0

Acquired == state \in Entries
Acquiring == \E u \in Users : user[u].at \in {"queued", "acquiring"}

Place(u, at, of) == user' = [user EXCEPT ![u] = [at |-> at, of |-> of]]
\* Mutant: whoever leaves last clears the state.
AlwaysEmpty == Empty
\* What the last user of an entry leaves the state at.
AfterLast == IF ttl = "none" THEN Empty ELSE state

\* Mutant: the test for a finite time to live is inverted.
WaitsForever == ttl = "infinite" /\ ~closed
\* An idle fiber is started; one run in a closed scope is interrupted at once.
WaitsIdle == ttl = "finite" /\ ~closed

\* Mutant: invalidate closes the resource of its users.
Revoked(i) == [entry EXCEPT ![i].invalidated = TRUE, ![i].fiber = FALSE, ![i].open = FALSE]
\* Mutant: invalidate stops the idle fiber of a resource and does no more.
Forgotten(i) == [entry EXCEPT ![i].invalidated = TRUE, ![i].fiber = FALSE]
\* invalidate closes the resource, or leaves that to its last user.
Invalidated(i) == [entry EXCEPT ![i].invalidated = TRUE, ![i].fiber = FALSE,
                                ![i].open = @ /\ entry[i].refCount > 0]

\* Mutant: a resource that has an idle fiber is taken out without a count.
Shares(i) == [entry EXCEPT ![i].refCount = IF entry[i].fiber THEN 0 ELSE @ + 1, ![i].fiber = FALSE]
\* One more user; the idle fiber is interrupted.
Share(i) == [entry EXCEPT ![i].refCount = @ + 1, ![i].fiber = FALSE]

--------------------------------------------------------------------------
\* get: getState looks at the state; a resource that is idle is kept alive.
Get(u) ==
  /\ user[u] = Outside /\ gets < MaxGets /\ gets' = gets + 1
  /\ Acquiring => "overlap" \in Hazards
  /\ \/ /\ state = Closed
        /\ UNCHANGED <<entry, user>>
     \/ /\ Acquired
        /\ entry' = Share(state)
        /\ Place(u, "inside", state)
     \/ /\ state = Empty
        /\ Place(u, "queued", 0)
        /\ UNCHANGED entry
  /\ UNCHANGED <<state, closed, permit, ttl, invalidates>>

\* semaphore.withPermits(1): gets that saw Empty acquire one after the other.
TakePermit(u) ==
  /\ user[u].at = "queued" /\ permit = Nobody
  /\ permit' = u /\ Place(u, "acquiring", 0)
  /\ UNCHANGED <<state, entry, closed, ttl, gets, invalidates>>

\* acquire succeeds: its entry becomes the state, whatever the state is.
Acquire(u) ==
  /\ user[u].at = "acquiring" /\ Cardinality(Entries) < MaxEntries
  /\ LET i == Cardinality(Entries) + 1
     IN /\ entry' = [e \in 1 .. i |-> IF e < i THEN entry[e] ELSE
             [open |-> TRUE, refCount |-> 1, fiber |-> FALSE, invalidated |-> FALSE]]
        /\ state' = i /\ Place(u, "inside", i)
  /\ permit' = Nobody
  /\ UNCHANGED <<closed, ttl, gets, invalidates>>

\* acquire fails: nothing closes the scope that was made for it.
AcquireFails(u) ==
  /\ user[u].at = "acquiring" /\ Cardinality(Entries) < MaxEntries
  /\ \/ UNCHANGED entry
     \/ /\ "partial" \in Hazards
        /\ entry' = [e \in 1 .. Cardinality(Entries) + 1 |-> IF e \in Entries THEN entry[e] ELSE
             [open |-> TRUE, refCount |-> 0, fiber |-> FALSE, invalidated |-> FALSE]]
  /\ permit' = Nobody /\ user' = [user EXCEPT ![u] = Outside]
  /\ UNCHANGED <<state, closed, ttl, gets, invalidates>>

\* The user's scope closes: the finalizer that get added to it.
Release(u) ==
  /\ user[u].at = "inside"
  /\ user' = [user EXCEPT ![u] = Outside]
  /\ LET i == user[u].of
         left == [entry EXCEPT ![i].refCount = @ - 1]
     IN \/ left[i].refCount > 0 /\ entry' = left /\ UNCHANGED state
        \/ /\ left[i].refCount = 0
           /\ ttl = "none" \/ entry[i].invalidated
           /\ entry' = [left EXCEPT ![i].open = FALSE]
           /\ state' = AfterLast
        \/ /\ left[i].refCount = 0
           /\ ttl # "none" /\ ~entry[i].invalidated
           /\ entry' = [left EXCEPT ![i].fiber = WaitsIdle]
           /\ state' = AfterLast
  /\ UNCHANGED <<closed, permit, ttl, gets, invalidates>>

\* The idle fiber wakes: it asks the state, and closes its own scope.
Idle(i) ==
  /\ entry[i].fiber
  /\ IF Acquired /\ entry[state].refCount = 0
     THEN /\ entry' = [entry EXCEPT ![i].open = FALSE, ![i].fiber = FALSE]
          /\ state' = Empty
     ELSE entry' = [entry EXCEPT ![i].fiber = FALSE] /\ UNCHANGED state
  /\ UNCHANGED <<user, closed, permit, ttl, gets, invalidates>>

Invalidate ==
  /\ Acquired /\ invalidates < MaxInvalidates
  /\ invalidates' = invalidates + 1
  /\ entry' = Invalidated(state)
  /\ state' = Empty
  /\ UNCHANGED <<user, closed, permit, ttl, gets>>

\* The scope of the reference closes: make's finalizer and the idle fibers.
Close ==
  /\ ~closed /\ closed' = TRUE
  /\ Acquiring => "closing" \in Hazards
  /\ entry' = [i \in Entries |-> [entry[i] EXCEPT !.fiber = FALSE,
                                                  !.open = @ /\ i # state]]
  /\ state' = Closed
  /\ UNCHANGED <<user, permit, ttl, gets, invalidates>>

Step(u) == TakePermit(u) \/ Acquire(u) \/ AcquireFails(u) \/ Release(u)
IdleStep == \E i \in Entries : Idle(i)

Next == \/ \E u \in Users : Get(u) \/ Step(u)
        \/ IdleStep \/ Invalidate \/ Close

Spec == Init /\ [][Next]_vars
\* Scopes are closed in the end, clocks go on.
FairSpec == Spec /\ WF_vars(IdleStep) /\ \A u \in Users : WF_vars(Step(u))

--------------------------------------------------------------------------
(* Properties.                                                             *)

\* The count of an entry is the number of its users, so that it reaches zero
\* exactly when the last of them leaves (rcRef.ts:103, 120, 140).
RefsExact ==
  \A i \in Entries : entry[i].refCount = Cardinality({u \in Users : user[u].of = i})

\* No user is left with a closed resource while the reference is open: not by
\* an idle fiber that was started before the user came, nor by invalidate
\* (rcRef.ts:140-166, 172-189; RcRef.ts:230-232).
NoUseAfterRelease ==
  ~closed =>
    \A u \in Users : user[u].at = "inside" => entry[user[u].of].open

\* Once everybody has left and the reference is closed, every resource has
\* been released (rcRef.ts:85-91, 139-166).
NothingLeaks ==
  closed /\ (\A u \in Users : user[u] = Outside)
    => \A i \in Entries : ~entry[i].open

\* "shared by subsequent gets while it remains cached" (RcRef.ts:116-117): of
\* the resources that nobody invalidated, one is in use.
Shared ==
  \A u, v \in Users :
    LET i == user[u].of
        j == user[v].of
    IN user[u].at = "inside" /\ user[v].at = "inside" /\ i # j
         => entry[i].invalidated \/ entry[j].invalidated

\* What a reference keeps. A resource leaks after a partial acquire, and, when
\* an idle resource is kept, after gets that overlap or outlive the reference;
\* overlapping gets acquire a resource each, and without a time to live the
\* last user of an invalidated resource clears the state of the next one
\* (rcRef.ts:85-91, 95-133, 135-170, 172-189).
RefSafe ==
  /\ RefsExact
  /\ NoUseAfterRelease
  /\ "partial" \notin Hazards /\ (ttl = "none" \/ Hazards \cap {"overlap", "closing"} = {})
       => NothingLeaks
  /\ "overlap" \notin Hazards /\ ttl # "none" => Shared

Idling(i) == i \in Entries /\ entry[i].open /\ entry[i].refCount = 0

\* An idle resource is used again or released after its time to live
\* (RcRef.ts:152-155: "released after this duration").
IdleEnds == \A i \in 1 .. MaxEntries : (Idling(i) /\ ttl = "finite") ~> ~Idling(i)
==========================================================================

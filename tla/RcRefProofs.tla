---------------------------- MODULE RcRefProofs ----------------------------
(***************************************************************************)
(* What a reference keeps, for any number of users, acquisitions and       *)
(* invalidations and for clients that run into any of the hazards.         *)
(***************************************************************************)
EXTENDS RcRef, FiniteSetTheorems, TLAPS

Places == [at : {"outside", "queued", "acquiring", "inside"}, of : Nat]
Resources == [open : BOOLEAN, refCount : Nat, fiber : BOOLEAN, invalidated : BOOLEAN]

TypeOK ==
  /\ ttl \in {"none", "finite", "infinite"} /\ closed \in BOOLEAN
  /\ user \in [Users -> Places]
  /\ \A u \in Users : IF user[u].at = "inside" THEN user[u].of \in Entries
                                               ELSE user[u].of = 0
  /\ \E n \in Nat : Entries = 1 .. n
  /\ \A i \in Entries : entry[i] \in Resources
  /\ state \in {Empty, Closed} \cup Entries

(* What the state points to can be shared, and an idle fiber runs only for *)
(* a resource without users.                                               *)
Cached ==
  /\ state \in Entries => ~entry[state].invalidated /\ (closed \/ entry[state].open)
  /\ \A i \in Entries : entry[i].fiber => entry[i].refCount = 0 /\ ttl # "none"
  /\ state = Closed => closed

At(u, places) == user[u].at \in places
Acquires(u) == At(u, {"queued", "acquiring"})

(* Without overlapping gets, nobody acquires beside a resource in use.     *)
OneAtATime ==
  "overlap" \notin Hazards =>
    /\ \A u, v \in Users : Acquires(u) /\ Acquires(v) => u = v
    /\ \A u \in Users : Acquires(u) => state \notin Entries
    /\ \A i \in Entries : entry[i].fiber => state = i
    /\ ttl # "none" =>
         \A u \in Users :
           At(u, {"inside"}) /\ ~entry[user[u].of].invalidated
             => \/ state = user[u].of
                \/ state = Closed /\ \A v \in Users : ~Acquires(v)

(* Where nothing can leak, an open resource is used or cached.             *)
CannotLeak == /\ "partial" \notin Hazards
              /\ ttl = "none" \/ Hazards \cap {"overlap", "closing"} = {}
Kept ==
  CannotLeak =>
    /\ \A i \in Entries :
         entry[i].open => \/ entry[i].refCount > 0 /\ (ttl = "none" \/ entry[i].invalidated)
                          \/ state = i /\ ttl # "none"
    /\ ttl # "none" /\ closed => state = Closed /\ \A u \in Users : ~Acquires(u)

SharedIfAlone == "overlap" \notin Hazards /\ ttl # "none" => Shared

IInv == /\ TypeOK /\ RefsExact /\ Cached /\ NoUseAfterRelease
        /\ OneAtATime /\ SharedIfAlone /\ Kept

--------------------------------------------------------------------------
(* Counting the users of a resource.                                       *)
UsersOf(i) == {u \in Users : user[u].of = i}

LEMMA FiniteUsersOf == ASSUME RcRefAssumption, NEW i PROVE IsFiniteSet(UsersOf(i))
BY FS_Subset DEF RcRefAssumption, UsersOf

(* Who uses a resource is counted.                                         *)
LEMMA Counted ==
    ASSUME RcRefAssumption, RefsExact, NEW u \in Users, user[u].of \in Entries
    PROVE  entry[user[u].of].refCount # 0
<1> DEFINE i == user[u].of
<1>1. u \in UsersOf(i)
  BY DEF UsersOf
<1>2. Cardinality(UsersOf(i)) # 0
  BY <1>1, FiniteUsersOf, FS_EmptySet
<1>. QED BY <1>2 DEF RefsExact, UsersOf

(* Cardinality(Entries) + 1 is a fresh name.                               *)
LEMMA Fresh ==
    ASSUME TypeOK
    PROVE  /\ Cardinality(Entries) \in Nat
           /\ Entries = 1 .. Cardinality(Entries)
<1>1. PICK n \in Nat : Entries = 1 .. n
  BY DEF TypeOK
<1>2. Cardinality(1 .. n) = n
  BY FS_Interval
<1>. QED BY <1>1, <1>2

(* A user comes to a resource.                                             *)
LEMMA Joins ==
    ASSUME RcRefAssumption, TypeOK, NEW u \in Users, user[u].of = 0,
           NEW i \in Nat \ {0}, NEW at, Place(u, at, i)
    PROVE  /\ Cardinality(UsersOf(i))' = Cardinality(UsersOf(i)) + 1
           /\ \A j \in Nat \ {0, i} : UsersOf(j)' = UsersOf(j)
<1>1. UsersOf(i)' = UsersOf(i) \cup {u} /\ u \notin UsersOf(i)
  BY DEF UsersOf, Place, TypeOK
<1>2. \A j \in Nat \ {0, i} : UsersOf(j)' = UsersOf(j)
  BY DEF UsersOf, Place, TypeOK
<1>. QED BY <1>1, <1>2, FiniteUsersOf, FS_AddElement

(* A user leaves a resource.                                               *)
LEMMA Leaves ==
    ASSUME RcRefAssumption, TypeOK, NEW u \in Users, NEW i \in Nat \ {0},
           user[u].of = i, user' = [user EXCEPT ![u] = Outside]
    PROVE  /\ Cardinality(UsersOf(i))' = Cardinality(UsersOf(i)) - 1
           /\ \A j \in Nat \ {0, i} : UsersOf(j)' = UsersOf(j)
<1>1. UsersOf(i)' = UsersOf(i) \ {u} /\ u \in UsersOf(i)
  BY DEF UsersOf, Outside, TypeOK
<1>2. \A j \in Nat \ {0, i} : UsersOf(j)' = UsersOf(j)
  BY DEF UsersOf, Outside, TypeOK
<1>. QED BY ZenonT(30), <1>1, <1>2, FiniteUsersOf, FS_RemoveElement

(* A user moves outside every resource.                                    *)
LEMMA Moves ==
    ASSUME TypeOK, NEW u \in Users, user[u].of = 0, NEW at, Place(u, at, 0)
    PROVE  \A j \in Nat \ {0} : UsersOf(j)' = UsersOf(j)
BY DEF UsersOf, Place, TypeOK

--------------------------------------------------------------------------
LEMMA InitIInv == RcRefAssumption /\ Init => IInv
<1> SUFFICES ASSUME RcRefAssumption, Init PROVE IInv
  OBVIOUS
<1>1. Entries = {} /\ Entries = 1 .. 0
  BY DEF Init, Entries
<1>2. TypeOK
  BY <1>1 DEF TypeOK, Init, RcRefAssumption, Outside, Places, Empty
<1>. QED BY <1>1, <1>2 DEF IInv, Init, RefsExact, Cached, NoUseAfterRelease,
     OneAtATime, SharedIfAlone, Shared, Kept, Acquires, At, Outside, Empty, Closed

(* A step that changes nothing the invariant is about.                     *)
LEMMA Quiet ==
    ASSUME IInv, UNCHANGED <<state, entry, user, closed, ttl>>
    PROVE  IInv'
<1>1. Entries' = Entries /\ \A u \in Users : Acquires(u)' <=> Acquires(u)
  BY DEF Entries, Acquires, At
<1>2. TypeOK' /\ Cached' /\ Kept'
  BY <1>1 DEF IInv, TypeOK, Cached, Kept, CannotLeak
<1>3. NoUseAfterRelease' /\ SharedIfAlone'
  BY DEF IInv, NoUseAfterRelease, SharedIfAlone, Shared
<1>4. OneAtATime'
  BY <1>1 DEF IInv, OneAtATime, At
<1>5. RefsExact'
  BY <1>1 DEF IInv, RefsExact
<1>. QED BY <1>2, <1>3, <1>4, <1>5 DEF IInv

LEMMA GetIInv ==
    ASSUME RcRefAssumption, IInv, NEW u \in Users, Get(u)
    PROVE  IInv'
<1> USE DEF IInv
<1>1. CASE Acquired /\ entry' = Share(state) /\ Place(u, "inside", state)
  <2>0. PICK s \in Nat \ {0} : s = state /\ s \in Entries
    BY <1>1 DEF Acquired, TypeOK
  <2>1. /\ UNCHANGED <<state, closed, ttl>> /\ Place(u, "inside", s)
        /\ user' = [user EXCEPT ![u] = [at |-> "inside", of |-> s]]
        /\ user[u].of = 0 /\ user[u].at = "outside"
    BY <1>1, <2>0 DEF Get, Place, Outside, TypeOK
  <2>2. /\ Entries' = Entries
        /\ \A i \in Entries \ {s} : entry'[i] = entry[i]
        /\ entry'[s] \in Resources
        /\ entry'[s].refCount = entry[s].refCount + 1 /\ ~entry'[s].fiber
        /\ entry'[s].open = entry[s].open
        /\ entry'[s].invalidated = entry[s].invalidated
    <3>1. entry' = [entry EXCEPT ![s].refCount = entry[s].refCount + 1, ![s].fiber = FALSE]
      BY <1>1, <2>0 DEF Share
    <3>2. Entries' = Entries /\ \A i \in Entries \ {s} : entry'[i] = entry[i]
      BY <3>1 DEF Entries
    <3>3. entry[s] \in Resources
      BY <2>0 DEF TypeOK
    <3>4. entry'[s] = [entry[s] EXCEPT !.refCount = entry[s].refCount + 1, !.fiber = FALSE]
      BY <2>0, <3>1 DEF Entries
    <3>5. entry[s].refCount + 1 \in Nat
      BY <3>3 DEF Resources
    <3>6. entry'[s] \in Resources
      BY <3>3, <3>4, <3>5 DEF Resources
    <3>7. /\ entry'[s].refCount = entry[s].refCount + 1 /\ ~entry'[s].fiber
          /\ entry'[s].open = entry[s].open
          /\ entry'[s].invalidated = entry[s].invalidated
      BY <3>3, <3>4 DEF Resources
    <3>. QED BY <3>2, <3>6, <3>7
  <2>3. TypeOK'
    BY <2>0, <2>1, <2>2 DEF TypeOK, Places
  <2>4. RefsExact'
    <3>1. \A i \in Nat \ {0, s} : UsersOf(i)' = UsersOf(i)
      BY <2>1, Joins
    <3>2. Cardinality(UsersOf(s))' = Cardinality(UsersOf(s)) + 1
      BY <2>1, Joins
    <3>3. \A i \in Entries : i \in Nat \ {0}
      BY DEF TypeOK
    <3>4. \A i \in Entries : entry[i].refCount = Cardinality(UsersOf(i))
      BY DEF RefsExact, UsersOf
    <3>5. ASSUME NEW i \in Entries \ {s} PROVE entry'[i].refCount = Cardinality(UsersOf(i))'
      BY <2>2, <3>1, <3>3, <3>4
    <3>6. entry'[s].refCount = Cardinality(UsersOf(s))'
      BY <2>0, <2>2, <3>2, <3>4
    <3>7. \A i \in Entries' : entry'[i].refCount = Cardinality(UsersOf(i))'
      BY <2>2, <3>5, <3>6
    <3>. QED BY <3>7 DEF RefsExact, UsersOf
  <2>5. Cached'
    BY <2>0, <2>1, <2>2 DEF Cached
  <2>6. NoUseAfterRelease'
    BY <2>0, <2>1, <2>2 DEF NoUseAfterRelease, Cached, TypeOK
  <2>7. OneAtATime'
    BY <2>0, <2>1, <2>2 DEF OneAtATime, TypeOK, Acquires, At
  <2>8. SharedIfAlone'
    BY <2>0, <2>1, <2>2 DEF OneAtATime, SharedIfAlone, Shared, TypeOK, At, Closed
  <2>9. Kept'
    BY <2>0, <2>1, <2>2 DEF Kept, CannotLeak, TypeOK, Resources, Acquires, At
  <2>. QED BY <2>3, <2>4, <2>5, <2>6, <2>7, <2>8, <2>9
<1>2. CASE state = Empty /\ Place(u, "queued", 0) /\ UNCHANGED entry
  <2>1. /\ UNCHANGED <<state, entry, closed, ttl>> /\ Place(u, "queued", 0)
        /\ user' = [user EXCEPT ![u] = [at |-> "queued", of |-> 0]]
        /\ user[u].of = 0 /\ user[u].at = "outside"
        /\ Acquiring => "overlap" \in Hazards
        /\ state \notin Entries
    BY <1>2 DEF Get, Place, Outside, Entries, TypeOK, Empty
  <2>2. TypeOK'
    BY <2>1 DEF TypeOK, Places, Entries
  <2>3. RefsExact'
    <3>1. \A i \in Entries : UsersOf(i)' = UsersOf(i)
      BY <2>1, Moves DEF TypeOK
    <3>. QED BY <2>1, <3>1 DEF RefsExact, UsersOf, Entries
  <2>4. Cached' /\ NoUseAfterRelease'
    BY <2>1 DEF Cached, NoUseAfterRelease, TypeOK, Entries
  <2>5. OneAtATime'
    BY <1>2, <2>1 DEF OneAtATime, TypeOK, Acquires, At, Acquiring, Entries, Empty, Closed
  <2>6. SharedIfAlone'
    BY <2>1 DEF SharedIfAlone, Shared, TypeOK, Entries
  <2>7. Kept'
    BY <1>2, <2>1 DEF Kept, CannotLeak, Entries, TypeOK, Acquires, At, Empty, Closed
  <2>. QED BY <2>2, <2>3, <2>4, <2>5, <2>6, <2>7
<1>3. CASE state = Closed /\ UNCHANGED <<entry, user>>
  BY <1>3, Quiet DEF Get
<1>. QED BY <1>1, <1>2, <1>3 DEF Get

LEMMA TakePermitIInv ==
    ASSUME RcRefAssumption, IInv, NEW u \in Users, TakePermit(u)
    PROVE  IInv'
<1> USE DEF IInv
<1>1. /\ UNCHANGED <<state, entry, closed, ttl>> /\ Place(u, "acquiring", 0)
      /\ user' = [user EXCEPT ![u] = [at |-> "acquiring", of |-> 0]]
      /\ user[u].of = 0 /\ user[u].at = "queued"
  BY DEF TakePermit, Place, TypeOK
<1>2. TypeOK'
  BY <1>1 DEF TypeOK, Places, Entries
<1>3. RefsExact'
  <2>1. \A i \in Entries : UsersOf(i)' = UsersOf(i)
    BY <1>1, Moves DEF TypeOK
  <2>. QED BY <1>1, <2>1 DEF RefsExact, UsersOf, Entries
<1>4. Cached' /\ NoUseAfterRelease'
  BY <1>1 DEF Cached, NoUseAfterRelease, TypeOK, Entries
<1>5. \A v \in Users : Acquires(v)' <=> Acquires(v)
  BY <1>1 DEF TypeOK, Acquires, At
<1>6. OneAtATime'
  BY <1>1, <1>5 DEF OneAtATime, TypeOK, At, Entries
<1>7. SharedIfAlone'
  BY <1>1 DEF SharedIfAlone, Shared, TypeOK, Entries
<1>8. Kept'
  BY <1>1, <1>5 DEF Kept, CannotLeak, Entries
<1>. QED BY <1>2, <1>3, <1>4, <1>6, <1>7, <1>8

LEMMA AcquireIInv ==
    ASSUME RcRefAssumption, IInv, NEW u \in Users, Acquire(u)
    PROVE  IInv'
<1> USE DEF IInv
<1>0. PICK n \in Nat \ {0} : n = Cardinality(Entries) + 1
  BY Fresh
<1>1. /\ n \notin Entries /\ Entries' = Entries \cup {n}
      /\ Entries' = 1 .. n
    BY <1>0, Fresh DEF Acquire, Entries
<1>2. /\ UNCHANGED <<closed, ttl>> /\ state' = n
      /\ user' = [user EXCEPT ![u] = [at |-> "inside", of |-> n]]
      /\ user[u].of = 0 /\ user[u].at = "acquiring" /\ Place(u, "inside", n)
      /\ \A i \in Entries : entry'[i] = entry[i]
      /\ entry'[n] = [open |-> TRUE, refCount |-> 1, fiber |-> FALSE, invalidated |-> FALSE]
  <2>1. \A i \in Entries : i < n /\ i \in 1 .. n
    BY <1>0, Fresh
  <2>. QED BY <1>0, <1>1, <2>1 DEF Acquire, Place, TypeOK
<1>3. TypeOK'
  <2>1. \A i \in Entries' : entry'[i] \in Resources
    <3>1. entry'[n] \in Resources
      BY <1>2 DEF Resources
    <3>. QED BY <1>1, <1>2, <3>1 DEF TypeOK
  <2>2. user' \in [Users -> Places]
    BY <1>1, <1>2 DEF TypeOK, Places
  <2>. QED BY <1>1, <1>2, <2>1, <2>2 DEF TypeOK
<1>4. RefsExact'
  <2>1. \A i \in Nat \ {0, n} : UsersOf(i)' = UsersOf(i)
    BY <1>1, <1>2, Joins
  <2>2. Cardinality(UsersOf(n))' = Cardinality(UsersOf(n)) + 1
    BY <1>1, <1>2, Joins
  <2>3. UsersOf(n) = {}
    BY <1>1 DEF UsersOf, TypeOK
  <2>4. Cardinality(UsersOf(n))' = 1
    BY <2>2, <2>3, FS_EmptySet
  <2>5. \A i \in Entries : i \in Nat \ {0, n}
    BY <1>1 DEF TypeOK
  <2>6. entry'[n].refCount = Cardinality(UsersOf(n))'
    BY <1>2, <2>4
  <2>7. \A i \in Entries : entry'[i].refCount = Cardinality(UsersOf(i))'
    BY <1>2, <2>1, <2>5 DEF RefsExact, UsersOf
  <2>. QED BY <1>1, <2>6, <2>7 DEF RefsExact, UsersOf
<1>5. Cached'
  BY <1>1, <1>2 DEF Cached, Closed
<1>6. NoUseAfterRelease'
  BY <1>1, <1>2 DEF NoUseAfterRelease, TypeOK
<1>7. OneAtATime'
  BY <1>1, <1>2 DEF OneAtATime, TypeOK, Acquires, At
<1>8. SharedIfAlone'
  BY <1>1, <1>2 DEF SharedIfAlone, Shared, OneAtATime, TypeOK, Acquires, At
<1>9. Kept'
  BY <1>1, <1>2 DEF Kept, CannotLeak, OneAtATime, TypeOK, Acquires, At
<1>. QED BY <1>3, <1>4, <1>5, <1>6, <1>7, <1>8, <1>9

(* Whoever failed to acquire is outside; an entry nobody uses may be added. *)
LEMMA AcquireFailsIInv ==
    ASSUME RcRefAssumption, IInv, NEW u \in Users, AcquireFails(u)
    PROVE  IInv'
<1> USE DEF IInv
<1>1. /\ UNCHANGED <<state, closed, ttl>> /\ Place(u, "outside", 0)
      /\ user' = [user EXCEPT ![u] = [at |-> "outside", of |-> 0]]
      /\ user[u].of = 0 /\ user[u].at = "acquiring"
  BY DEF AcquireFails, Place, Outside, TypeOK
<1>2. user' \in [Users -> Places]
  BY <1>1 DEF TypeOK, Places
<1>3. \A i \in Nat \ {0} : UsersOf(i)' = UsersOf(i)
  BY <1>1, Moves
<1>4. CASE UNCHANGED entry
  <2>1. TypeOK' /\ Entries' = Entries
    BY <1>1, <1>2, <1>4 DEF TypeOK, Entries
  <2>2. RefsExact'
    BY <1>3, <1>4, <2>1 DEF TypeOK, RefsExact, UsersOf
  <2>3. Cached' /\ NoUseAfterRelease'
    BY <1>1, <1>4, <2>1 DEF Cached, NoUseAfterRelease, TypeOK
  <2>4. OneAtATime'
    BY <1>1, <1>4, <2>1 DEF OneAtATime, TypeOK, Acquires, At
  <2>5. SharedIfAlone'
    BY <1>1, <1>4 DEF SharedIfAlone, Shared, TypeOK
  <2>6. Kept'
    BY <1>1, <1>4, <2>1 DEF Kept, CannotLeak, TypeOK, Acquires, At
  <2>. QED BY <2>1, <2>2, <2>3, <2>4, <2>5, <2>6
<1>5. ASSUME "partial" \in Hazards,
             entry' = [e \in 1 .. Cardinality(Entries) + 1 |-> IF e \in Entries THEN entry[e] ELSE
               [open |-> TRUE, refCount |-> 0, fiber |-> FALSE, invalidated |-> FALSE]]
      PROVE  IInv'
  <2>0. PICK n \in Nat \ {0} : n = Cardinality(Entries) + 1
    BY Fresh
  <2>1. /\ n \notin Entries /\ Entries' = Entries \cup {n} /\ Entries' = 1 .. n
        /\ \A i \in Entries : entry'[i] = entry[i]
        /\ entry'[n] = [open |-> TRUE, refCount |-> 0, fiber |-> FALSE, invalidated |-> FALSE]
    <3>1. n \notin Entries /\ 1 .. n = Entries \cup {n}
      BY <2>0, Fresh
    <3>. QED BY <1>5, <2>0, <3>1 DEF Entries
  <2>2. \A i \in Entries' : entry'[i] \in Resources
    <3>1. entry'[n] \in Resources
      BY <2>1 DEF Resources
    <3>. QED BY <2>1, <3>1 DEF TypeOK
  <2>3. TypeOK'
    BY <1>1, <1>2, <2>1, <2>2 DEF TypeOK
  <2>4. RefsExact'
    <3>1. UsersOf(n) = {}
      BY <2>1 DEF UsersOf, TypeOK
    <3>2. entry'[n].refCount = Cardinality(UsersOf(n))'
      BY <1>3, <2>1, <3>1, FS_EmptySet
    <3>3. \A i \in Entries : entry'[i].refCount = Cardinality(UsersOf(i))'
      BY <1>3, <2>1 DEF RefsExact, UsersOf, TypeOK
    <3>. QED BY <2>1, <3>2, <3>3 DEF RefsExact, UsersOf
  <2>5. Cached' /\ NoUseAfterRelease'
    BY <1>1, <2>1 DEF Cached, NoUseAfterRelease, TypeOK
  <2>6. OneAtATime'
    BY <1>1, <2>1 DEF OneAtATime, TypeOK, Acquires, At
  <2>7. SharedIfAlone'
    BY <1>1, <2>1 DEF SharedIfAlone, Shared, TypeOK
  <2>8. Kept'
    BY <1>5 DEF Kept, CannotLeak
  <2>. QED BY <2>3, <2>4, <2>5, <2>6, <2>7, <2>8
<1>. QED BY <1>4, <1>5 DEF AcquireFails

--------------------------------------------------------------------------
(* A step that replaces what is known of resource s by r.                  *)
Replaces(s, r) == entry' = [entry EXCEPT ![s] = r]

LEMMA ReplacesType ==
    ASSUME TypeOK, NEW s \in Entries, NEW r \in Resources, Replaces(s, r)
    PROVE  /\ Entries' = Entries /\ \E n \in Nat : Entries' = 1 .. n
           /\ entry'[s] = r
           /\ \A i \in Entries \ {s} : entry'[i] = entry[i]
           /\ \A i \in Entries' : entry'[i] \in Resources
BY DEF Replaces, TypeOK, Entries

(* The last user leaves, or one that is not the last.                      *)
LEMMA ReleaseIInv ==
    ASSUME RcRefAssumption, IInv, NEW u \in Users, Release(u)
    PROVE  IInv'
<1> USE DEF IInv
<1>0. PICK s \in Nat \ {0} : s = user[u].of /\ s \in Entries
  BY DEF Release, TypeOK
<1> DEFINE c == entry[s].refCount - 1
           left == [entry EXCEPT ![s].refCount = @ - 1]
<1>1. /\ UNCHANGED <<closed, ttl>>
      /\ user' = [user EXCEPT ![u] = Outside] /\ user[u].at = "inside"
      /\ user' = [user EXCEPT ![u] = [at |-> "outside", of |-> 0]]
      /\ entry[s] \in Resources /\ c \in Nat /\ entry[s].refCount > 0
  <2>1. entry[s] \in Resources /\ entry[s].refCount # 0
    BY <1>0, Counted DEF TypeOK
  <2>2. c \in Nat
    BY <2>1 DEF Resources
  <2>. QED BY <2>1, <2>2 DEF Release, Outside, Resources
<1>2. left[s].refCount = c
  BY <1>0, <1>1 DEF Resources, Entries
<1>3. \/ c > 0 /\ entry' = left /\ UNCHANGED state
      \/ /\ c = 0 /\ (ttl = "none" \/ entry[s].invalidated)
         /\ entry' = [left EXCEPT ![s].open = FALSE] /\ state' = AfterLast
      \/ /\ c = 0 /\ ttl # "none" /\ ~entry[s].invalidated
         /\ entry' = [left EXCEPT ![s].fiber = WaitsIdle] /\ state' = AfterLast
  BY <1>0, <1>2 DEF Release
<1> HIDE DEF left
<1>4. \E r \in Resources :
        /\ Replaces(s, r) /\ r.refCount = c /\ r.invalidated = entry[s].invalidated
        /\ \/ c > 0 /\ r.open = entry[s].open /\ r.fiber = entry[s].fiber /\ UNCHANGED state
           \/ /\ c = 0 /\ (ttl = "none" \/ r.invalidated)
              /\ ~r.open /\ r.fiber = entry[s].fiber /\ state' = AfterLast
           \/ /\ c = 0 /\ ttl # "none" /\ ~r.invalidated
              /\ r.open = entry[s].open /\ (r.fiber => ~closed) /\ UNCHANGED state
  <2> DEFINE one == [entry[s] EXCEPT !.refCount = c]
             shut == [entry[s] EXCEPT !.refCount = c, !.open = FALSE]
             wait == [entry[s] EXCEPT !.refCount = c, !.fiber = WaitsIdle]
  <2>1. CASE c > 0 /\ entry' = left /\ UNCHANGED state
    <3>1. one \in Resources
      BY <1>1 DEF Resources
    <3>2. /\ one.refCount = c /\ one.invalidated = entry[s].invalidated
          /\ one.open = entry[s].open /\ one.fiber = entry[s].fiber
      BY <1>1 DEF Resources
    <3>3. Replaces(s, one)
      BY <2>1 DEF Replaces, left
    <3>. QED BY <2>1, <3>1, <3>2, <3>3
  <2>2. CASE /\ c = 0 /\ (ttl = "none" \/ entry[s].invalidated)
             /\ entry' = [left EXCEPT ![s].open = FALSE] /\ state' = AfterLast
    <3>1. shut \in Resources
      BY <1>1 DEF Resources
    <3>2. /\ shut.refCount = c /\ shut.invalidated = entry[s].invalidated
          /\ ~shut.open /\ shut.fiber = entry[s].fiber
      BY <1>1 DEF Resources
    <3>3. Replaces(s, shut)
      BY <1>0, <2>2 DEF Replaces, left, Entries
    <3>. QED BY <2>2, <3>1, <3>2, <3>3
  <2>3. CASE /\ c = 0 /\ ttl # "none" /\ ~entry[s].invalidated
             /\ entry' = [left EXCEPT ![s].fiber = WaitsIdle] /\ state' = AfterLast
    <3>1. wait \in Resources
      <4>1. WaitsIdle \in BOOLEAN
        BY DEF WaitsIdle
      <4>. QED BY <1>1, <4>1 DEF Resources
    <3>2. /\ wait.refCount = c /\ wait.invalidated = entry[s].invalidated
          /\ wait.open = entry[s].open /\ (wait.fiber => ~closed)
      BY <1>1 DEF Resources, WaitsIdle
    <3>3. Replaces(s, wait)
      BY <1>0, <2>3 DEF Replaces, left, Entries
    <3>4. UNCHANGED state
      BY <2>3 DEF AfterLast
    <3>. QED BY <2>3, <3>1, <3>2, <3>3, <3>4
  <2>. QED BY <1>3, <2>1, <2>2, <2>3
<1>5. PICK r \in Resources :
        /\ Replaces(s, r) /\ r.refCount = c /\ r.invalidated = entry[s].invalidated
        /\ \/ c > 0 /\ r.open = entry[s].open /\ r.fiber = entry[s].fiber /\ UNCHANGED state
           \/ /\ c = 0 /\ (ttl = "none" \/ r.invalidated)
              /\ ~r.open /\ r.fiber = entry[s].fiber /\ state' = AfterLast
           \/ /\ c = 0 /\ ttl # "none" /\ ~r.invalidated
              /\ r.open = entry[s].open /\ (r.fiber => ~closed) /\ UNCHANGED state
  BY <1>4
<1> HIDE DEF c
<1>6. /\ Entries' = Entries /\ \E n \in Nat : Entries' = 1 .. n
      /\ entry'[s] = r
      /\ \A i \in Entries \ {s} : entry'[i] = entry[i]
      /\ \A i \in Entries' : entry'[i] \in Resources
  BY <1>0, <1>5, ReplacesType
<1>7. state' = state \/ (ttl = "none" /\ state' = Empty)
  BY <1>5 DEF AfterLast
<1>8. TypeOK'
  <2>1. user' \in [Users -> Places]
    BY <1>1 DEF TypeOK, Places
  <2>. QED BY <1>1, <1>6, <1>7, <2>1 DEF TypeOK
<1>9. RefsExact'
  <2>1. \A i \in Nat \ {0, s} : UsersOf(i)' = UsersOf(i)
    BY <1>0, <1>1, Leaves
  <2>2. Cardinality(UsersOf(s))' = Cardinality(UsersOf(s)) - 1
    BY <1>0, <1>1, Leaves
  <2>3. \A i \in Entries : i \in Nat \ {0}
    BY DEF TypeOK
  <2>4. entry'[s].refCount = Cardinality(UsersOf(s))'
    BY <1>0, <1>5, <1>6, <2>2 DEF RefsExact, UsersOf, c
  <2>5. \A i \in Entries \ {s} : entry'[i].refCount = Cardinality(UsersOf(i))'
    BY <1>6, <2>1, <2>3 DEF RefsExact, UsersOf
  <2>. QED BY <1>6, <2>4, <2>5 DEF RefsExact, UsersOf
<1>10. ASSUME c = 0, NEW v \in Users PROVE user'[v].of # s
  <2>1. s \in Entries' /\ entry'[s].refCount = 0
    BY <1>0, <1>5, <1>6, <1>10
  <2>2. Cardinality(UsersOf(s)') = 0
    BY <1>9, <2>1 DEF RefsExact, UsersOf
  <2>3. IsFiniteSet(UsersOf(s)')
    BY FS_Subset DEF UsersOf, RcRefAssumption
  <2>4. UsersOf(s)' = {}
    BY <2>2, <2>3, FS_EmptySet
  <2>. QED BY <2>4 DEF UsersOf
<1>11. Cached'
  <2>1. \A i \in Entries' : entry'[i].fiber => entry'[i].refCount = 0 /\ ttl' # "none"
    BY <1>0, <1>1, <1>5, <1>6 DEF Cached
  <2>2. state' \in Entries' => ~entry'[state'].invalidated /\ (closed' \/ entry'[state'].open)
    BY <1>0, <1>1, <1>5, <1>6, <1>7 DEF Cached, AfterLast, TypeOK, Empty
  <2>3. state' = Closed => closed'
    BY <1>1, <1>7 DEF Cached, Empty, Closed
  <2>. QED BY <2>1, <2>2, <2>3 DEF Cached
<1>12. NoUseAfterRelease'
  BY <1>0, <1>1, <1>5, <1>6, <1>10 DEF NoUseAfterRelease, TypeOK
<1>13. OneAtATime'
  <2> SUFFICES ASSUME "overlap" \notin Hazards PROVE OneAtATime'
    BY DEF OneAtATime
  <2>1. \A v \in Users : Acquires(v)' => Acquires(v)
    BY <1>1 DEF TypeOK, Acquires, At
  <2>2. \A i \in Entries' : entry'[i].fiber => state' = i
    <3> SUFFICES ASSUME NEW i \in Entries, entry'[i].fiber PROVE state' = i
      BY <1>6
    <3>1. ttl # "none" /\ state' = state
      BY <1>1, <1>6, <1>7, <1>11 DEF Cached
    <3>2. CASE entry[i].fiber
      BY <3>1, <3>2 DEF OneAtATime
    <3>3. CASE ~entry[i].fiber
      <4>1. i = s /\ c = 0 /\ ~entry[s].invalidated /\ ~closed
        BY <1>0, <1>5, <1>6, <3>1, <3>3
      <4>. QED BY <1>0, <1>1, <3>1, <4>1 DEF OneAtATime, At, Cached
    <3>. QED BY <3>2, <3>3
  <2>3. ttl' # "none" =>
          \A v \in Users :
            At(v, {"inside"})' /\ ~entry'[user'[v].of].invalidated
              => \/ state' = user'[v].of
                 \/ state' = Closed /\ \A w \in Users : ~Acquires(w)'
    BY <1>0, <1>1, <1>5, <1>6, <1>7, <2>1 DEF OneAtATime, TypeOK, At
  <2>4. \A v \in Users : Acquires(v)' => state' \notin Entries'
    BY <1>6, <1>7, <2>1 DEF OneAtATime, TypeOK, Empty
  <2>. QED BY <2>1, <2>2, <2>3, <2>4 DEF OneAtATime
<1>14. SharedIfAlone'
  BY <1>0, <1>1, <1>5, <1>6 DEF SharedIfAlone, Shared, TypeOK
<1>15. Kept'
  <2> SUFFICES ASSUME CannotLeak PROVE Kept'
    BY <1>1 DEF Kept, CannotLeak
  <2>1. \A v \in Users : Acquires(v)' => Acquires(v)
    BY <1>1 DEF TypeOK, Acquires, At
  <2>2. \A i \in Entries' :
          entry'[i].open => \/ entry'[i].refCount > 0 /\ (ttl = "none" \/ entry'[i].invalidated)
                            \/ state' = i /\ ttl # "none"
    BY <1>0, <1>5, <1>6, <1>7 DEF Kept
  <2>. QED BY <1>1, <1>7, <2>1, <2>2 DEF Kept
<1>. QED BY <1>8, <1>9, <1>11, <1>12, <1>13, <1>14, <1>15

LEMMA IdleIInv ==
    ASSUME RcRefAssumption, IInv, NEW i \in Entries, Idle(i)
    PROVE  IInv'
<1> USE DEF IInv
<1>1. /\ UNCHANGED <<user, closed, ttl>> /\ ttl # "none"
      /\ entry[i] \in Resources /\ entry[i].fiber
      /\ \A u \in Users : user[u].of # i
  BY Counted DEF Idle, TypeOK, Cached
<1>2. \E r \in Resources :
        /\ Replaces(i, r) /\ ~r.fiber /\ r.refCount = entry[i].refCount
        /\ r.invalidated = entry[i].invalidated
        /\ \/ /\ ~r.open /\ state' = Empty
              /\ state \in Entries /\ entry[state].refCount = 0
           \/ r.open = entry[i].open /\ UNCHANGED state
  <2>1. CASE Acquired /\ entry[state].refCount = 0
    <3> DEFINE r == [entry[i] EXCEPT !.open = FALSE, !.fiber = FALSE]
    <3>1. r \in Resources
      BY <1>1 DEF Resources
    <3>2. /\ ~r.fiber /\ r.refCount = entry[i].refCount
          /\ r.invalidated = entry[i].invalidated /\ ~r.open
      BY <1>1 DEF Resources
    <3>3. Replaces(i, r) /\ state' = Empty
      BY <2>1 DEF Idle, Replaces
    <3>. QED BY <2>1, <3>1, <3>2, <3>3 DEF Acquired
  <2>2. CASE ~(Acquired /\ entry[state].refCount = 0)
    <3> DEFINE r == [entry[i] EXCEPT !.fiber = FALSE]
    <3>1. r \in Resources
      BY <1>1 DEF Resources
    <3>2. /\ ~r.fiber /\ r.refCount = entry[i].refCount
          /\ r.invalidated = entry[i].invalidated /\ r.open = entry[i].open
      BY <1>1 DEF Resources
    <3>3. Replaces(i, r) /\ UNCHANGED state
      BY <2>2 DEF Idle, Replaces
    <3>. QED BY <3>1, <3>2, <3>3
  <2>. QED BY <2>1, <2>2
<1>3. PICK r \in Resources :
        /\ Replaces(i, r) /\ ~r.fiber /\ r.refCount = entry[i].refCount
        /\ r.invalidated = entry[i].invalidated
        /\ \/ /\ ~r.open /\ state' = Empty
              /\ state \in Entries /\ entry[state].refCount = 0
           \/ r.open = entry[i].open /\ UNCHANGED state
  BY <1>2
<1>4. /\ Entries' = Entries /\ \E n \in Nat : Entries' = 1 .. n
      /\ entry'[i] = r
      /\ \A j \in Entries \ {i} : entry'[j] = entry[j]
      /\ \A j \in Entries' : entry'[j] \in Resources
  BY <1>3, ReplacesType
<1>5. TypeOK'
  BY <1>1, <1>3, <1>4 DEF TypeOK
<1>6. RefsExact'
  BY <1>1, <1>3, <1>4 DEF RefsExact
<1>7. Cached'
  BY <1>1, <1>3, <1>4 DEF Cached, Empty, Closed, TypeOK
<1>8. NoUseAfterRelease'
  BY <1>1, <1>3, <1>4 DEF NoUseAfterRelease, TypeOK
<1>9. \A u \in Users : state \in Entries /\ entry[state].refCount = 0 => user[u].of # state
  BY Counted
<1>10. OneAtATime'
  <2> SUFFICES ASSUME "overlap" \notin Hazards PROVE OneAtATime'
    BY DEF OneAtATime
  <2>1. \A v \in Users : Acquires(v)' <=> Acquires(v)
    BY <1>1 DEF Acquires, At
  <2>2. state' \in Entries' => state' = state
    BY <1>3, <1>4 DEF TypeOK, Empty
  <2>3. \A j \in Entries' : entry'[j].fiber => state' = j
    BY <1>1, <1>3, <1>4 DEF OneAtATime
  <2>4. \A v \in Users :
          At(v, {"inside"})' /\ ~entry'[user'[v].of].invalidated
            => \/ state' = user'[v].of
               \/ state' = Closed /\ \A w \in Users : ~Acquires(w)'
    BY <1>1, <1>3, <1>4, <1>9, <2>1 DEF OneAtATime, TypeOK, At, Closed
  <2>. QED BY <1>4, <2>1, <2>2, <2>3, <2>4 DEF OneAtATime
<1>11. SharedIfAlone'
  BY <1>1, <1>3, <1>4 DEF SharedIfAlone, Shared, TypeOK
<1>12. Kept'
  <2> SUFFICES ASSUME CannotLeak PROVE Kept'
    BY <1>1 DEF Kept, CannotLeak
  <2>1. state = i
    BY <1>1 DEF CannotLeak, OneAtATime
  <2>2. \A v \in Users : Acquires(v)' <=> Acquires(v)
    BY <1>1 DEF Acquires, At
  <2>3. ~closed
    BY <1>1, <2>1 DEF Kept, TypeOK, Closed
  <2>. QED BY <1>1, <1>3, <1>4, <2>1, <2>2, <2>3 DEF Kept
<1>. QED BY <1>5, <1>6, <1>7, <1>8, <1>10, <1>11, <1>12

LEMMA InvalidateIInv == ASSUME RcRefAssumption, IInv, Invalidate PROVE IInv'
<1> USE DEF IInv
<1>0. PICK s \in Entries : s = state /\ s # Closed /\ s # Empty
  BY DEF Invalidate, Acquired, TypeOK, Closed, Empty
<1>1. /\ UNCHANGED <<user, closed, ttl>> /\ state' = Empty
      /\ entry[s] \in Resources
  BY DEF Invalidate, TypeOK
<1> DEFINE r == [entry[s] EXCEPT !.invalidated = TRUE, !.fiber = FALSE,
                                 !.open = @ /\ entry[s].refCount > 0]
<1>2. /\ r \in Resources /\ r.refCount = entry[s].refCount /\ r.invalidated /\ ~r.fiber
      /\ r.open <=> (entry[s].open /\ entry[s].refCount > 0)
  <2>1. (entry[s].open /\ entry[s].refCount > 0) \in BOOLEAN
    OBVIOUS
  <2>2. r \in Resources
    BY <1>1, <2>1 DEF Resources
  <2>3. /\ r.refCount = entry[s].refCount /\ r.invalidated /\ ~r.fiber
        /\ r.open <=> (entry[s].open /\ entry[s].refCount > 0)
    BY <1>1 DEF Resources
  <2>. QED BY <2>2, <2>3
<1>3. Replaces(s, r)
  BY <1>0 DEF Invalidate, Invalidated, Replaces, Entries
<1> HIDE DEF r
<1>4. /\ Entries' = Entries /\ \E n \in Nat : Entries' = 1 .. n
      /\ entry'[s] = r
      /\ \A j \in Entries \ {s} : entry'[j] = entry[j]
      /\ \A j \in Entries' : entry'[j] \in Resources
  BY <1>2, <1>3, ReplacesType
<1>5. TypeOK'
  BY <1>1, <1>4 DEF TypeOK
<1>6. RefsExact'
  BY <1>1, <1>2, <1>4 DEF RefsExact
<1>7. Cached'
  BY <1>1, <1>2, <1>4 DEF Cached, Empty, Closed, TypeOK
<1>8. NoUseAfterRelease'
  <2>1. \A u \in Users : user[u].of = s => entry[s].refCount > 0
    BY Counted, <1>1 DEF Resources
  <2>. QED BY <1>1, <1>2, <1>4, <2>1 DEF NoUseAfterRelease, TypeOK
<1>9. OneAtATime'
  <2> SUFFICES ASSUME "overlap" \notin Hazards PROVE OneAtATime'
    BY DEF OneAtATime
  <2>1. \A v \in Users : Acquires(v)' <=> Acquires(v)
    BY <1>1 DEF Acquires, At
  <2>2. state' \notin Entries'
    BY <1>1, <1>4 DEF TypeOK, Empty
  <2>3. \A j \in Entries' : ~entry'[j].fiber
    BY <1>0, <1>2, <1>4 DEF OneAtATime
  <2>4. ttl # "none" => \A v \in Users :
          ~(At(v, {"inside"})' /\ ~entry'[user'[v].of].invalidated)
    BY <1>0, <1>1, <1>2, <1>4 DEF OneAtATime, TypeOK, At
  <2>. QED BY <1>1, <2>1, <2>2, <2>3, <2>4 DEF OneAtATime
<1>10. SharedIfAlone'
  BY <1>1, <1>2, <1>4 DEF SharedIfAlone, Shared, TypeOK
<1>11. Kept'
  <2> SUFFICES ASSUME CannotLeak PROVE Kept'
    BY <1>1 DEF Kept, CannotLeak
  <2>1. ttl # "none" => ~closed
    BY <1>0 DEF Kept
  <2>2. \A i \in Entries' :
          entry'[i].open => entry'[i].refCount > 0 /\ (ttl = "none" \/ entry'[i].invalidated)
    BY <1>0, <1>2, <1>4 DEF Kept
  <2>. QED BY <1>1, <2>1, <2>2 DEF Kept
<1>. QED BY <1>5, <1>6, <1>7, <1>8, <1>9, <1>10, <1>11

LEMMA CloseIInv == ASSUME RcRefAssumption, IInv, Close PROVE IInv'
<1> USE DEF IInv
<1>1. /\ UNCHANGED <<user, ttl>> /\ state' = Closed /\ closed' /\ ~closed
      /\ (\E u \in Users : Acquires(u)) => "closing" \in Hazards
      /\ closed' = TRUE
  BY DEF Close, Acquiring, Acquires, At
<1>2. /\ Entries' = Entries
      /\ \A i \in Entries : /\ entry'[i] \in Resources
                            /\ entry'[i].refCount = entry[i].refCount /\ ~entry'[i].fiber
                            /\ entry'[i].invalidated = entry[i].invalidated
                            /\ entry'[i].open <=> (entry[i].open /\ i # state)
  <2>1. entry' = [i \in Entries |-> [entry[i] EXCEPT !.fiber = FALSE, !.open = @ /\ i # state]]
    BY DEF Close
  <2>2. ASSUME NEW i \in Entries
        PROVE  /\ entry'[i] \in Resources
               /\ entry'[i].refCount = entry[i].refCount /\ ~entry'[i].fiber
               /\ entry'[i].invalidated = entry[i].invalidated
               /\ entry'[i].open <=> (entry[i].open /\ i # state)
    <3>1. entry[i] \in Resources
      BY DEF TypeOK
    <3>2. (entry[i].open /\ i # state) \in BOOLEAN
      OBVIOUS
    <3>3. entry'[i] = [entry[i] EXCEPT !.fiber = FALSE, !.open = @ /\ i # state]
      BY <2>1
    <3>4. entry'[i] \in Resources
      BY <3>1, <3>2, <3>3 DEF Resources
    <3>. QED BY <3>1, <3>3, <3>4 DEF Resources
  <2>. QED BY <2>1, <2>2 DEF Entries
<1>3. TypeOK'
  BY <1>1, <1>2 DEF TypeOK
<1>4. RefsExact'
  BY <1>1, <1>2 DEF RefsExact
<1>5. Cached' /\ NoUseAfterRelease'
  BY <1>1, <1>2 DEF Cached, NoUseAfterRelease, TypeOK, Closed
<1>6. \A v \in Users : Acquires(v)' <=> Acquires(v)
  BY <1>1 DEF Acquires, At
<1>7. state' \notin Entries'
  BY <1>1, <1>2 DEF TypeOK, Closed
<1>8. OneAtATime'
  <2> SUFFICES ASSUME "overlap" \notin Hazards PROVE OneAtATime'
    BY DEF OneAtATime
  <2>1. \A j \in Entries' : ~entry'[j].fiber
    BY <1>2
  <2>2. ASSUME ttl # "none", NEW v \in Users, At(v, {"inside"}), ~entry'[user[v].of].invalidated
        PROVE  \A w \in Users : ~Acquires(w)
    <3>1. user[v].of \in Entries /\ ~entry[user[v].of].invalidated
      BY <1>2, <2>2 DEF TypeOK, At
    <3>2. state \in Entries \/ state = Closed
      BY <2>2, <3>1 DEF OneAtATime
    <3>. QED BY <1>1, <3>2 DEF OneAtATime, Cached
  <2>3. \A v \in Users : At(v, {"inside"})' <=> At(v, {"inside"})
    BY <1>1 DEF At
  <2>. QED BY <1>1, <1>6, <1>7, <2>1, <2>2, <2>3 DEF OneAtATime
<1>9. SharedIfAlone'
  BY <1>1, <1>2 DEF SharedIfAlone, Shared, TypeOK
<1>10. Kept'
  <2> SUFFICES ASSUME CannotLeak PROVE Kept'
    BY <1>1 DEF Kept, CannotLeak
  <2>. QED BY <1>1, <1>2, <1>6 DEF Kept, CannotLeak
<1>. QED BY <1>3, <1>4, <1>5, <1>8, <1>9, <1>10

--------------------------------------------------------------------------
LEMMA NextIInv == RcRefAssumption /\ IInv /\ [Next]_vars => IInv'
<1> SUFFICES ASSUME RcRefAssumption, IInv, [Next]_vars PROVE IInv'
  OBVIOUS
<1>1. CASE UNCHANGED vars
  BY <1>1, Quiet DEF vars
<1>2. ASSUME NEW u \in Users, Get(u) \/ Step(u) PROVE IInv'
  BY <1>2, GetIInv, TakePermitIInv, AcquireIInv, AcquireFailsIInv, ReleaseIInv DEF Step
<1>. QED BY <1>1, <1>2, IdleIInv, InvalidateIInv, CloseIInv DEF Next, IdleStep

LEMMA IInvSafe == RcRefAssumption /\ IInv => RefSafe
<1> SUFFICES ASSUME RcRefAssumption, IInv PROVE RefSafe
  OBVIOUS
<1>1. ASSUME CannotLeak, closed, \A u \in Users : user[u] = Outside, NEW i \in Entries
      PROVE  ~entry[i].open
  <2>1. UsersOf(i) = {}
    BY <1>1 DEF UsersOf, Outside, IInv, TypeOK
  <2>2. entry[i].refCount = 0
    BY <2>1, FS_EmptySet DEF IInv, RefsExact, UsersOf
  <2>3. state # i \/ ttl = "none"
    BY <1>1 DEF IInv, Kept, TypeOK, Closed
  <2>. QED BY <1>1, <2>2, <2>3 DEF IInv, Kept
<1>. QED BY <1>1 DEF RefSafe, IInv, SharedIfAlone, CannotLeak, NothingLeaks

(* A reference counts its users, never closes a resource in use, leaves    *)
(* nothing open once it is closed, and shares one resource, wherever the   *)
(* clients do not run into what breaks it (rcRef.ts:85-189).               *)
THEOREM ReferencesSafe == ASSUME RcRefAssumption PROVE Spec => []RefSafe
<1>1. Init => IInv
  BY InitIInv
<1>2. IInv /\ [Next]_vars => IInv'
  BY NextIInv
<1>3. IInv => RefSafe
  BY IInvSafe
<1>. QED BY <1>1, <1>2, <1>3, PTL DEF Spec
============================================================================

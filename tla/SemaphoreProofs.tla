-------------------------- MODULE SemaphoreProofs --------------------------
(***************************************************************************)
(* A semaphore loses no wake-up, holds no more permits than it counts and   *)
(* is a PermitPool: for any number of fibers, requests, sizes and calls.    *)
(***************************************************************************)
EXTENDS Semaphore, FiniteSetTheorems, SequenceTheorems, TLAPS

(* A nonempty set of subsets of a finite set has a minimal member: what    *)
(* induction over finite sets comes down to.                               *)
LEMMA MinimalSubset ==
  ASSUME NEW S, IsFiniteSet(S), NEW B \in SUBSET (SUBSET S), B # {}
  PROVE  \E T \in B : \A U \in B : U \subseteq T => U = T
<1>1. IsWellFoundedOn(StrictSubsetOrdering(S), SUBSET S)
  BY FS_StrictSubsetOrderingWellFounded, FS_FiniteSubsetsOfFinite
<1>2. PICK T \in B : \A U \in B : <<U, T>> \notin StrictSubsetOrdering(S)
  BY <1>1, WFMin
<1>3. QED BY <1>2 DEF StrictSubsetOrdering

Chosen(s) == CHOOSE x \in s : TRUE

(* g adds up h over the subsets of S.                                      *)
AddsUp(g, h, S) ==
  g = [s \in SUBSET S |-> IF s = {} THEN 0 ELSE h[Chosen(s)] + g[s \ {Chosen(s)}]]

LEMMA AddsUpUnique ==
  ASSUME NEW S, IsFiniteSet(S), NEW h, NEW T \in SUBSET S, NEW U \in SUBSET S,
         NEW g, NEW k, AddsUp(g, h, T), AddsUp(k, h, U)
  PROVE  \A s \in SUBSET (T \cap U) : g[s] = k[s]
<1> DEFINE B == {s \in SUBSET (T \cap U) : g[s] # k[s]}
<1>1. SUFFICES ASSUME B # {} PROVE FALSE
  OBVIOUS
<1>2. PICK s \in B : \A u \in B : u \subseteq s => u = s
  <2>1. B \in SUBSET (SUBSET S)
    OBVIOUS
  <2> HIDE DEF B
  <2>2. QED BY <1>1, <2>1, MinimalSubset
<1>3. s # {}
  BY <1>2 DEF AddsUp
<1>4. Chosen(s) \in s
  BY <1>3 DEF Chosen
<1>5. g[s \ {Chosen(s)}] = k[s \ {Chosen(s)}]
  BY <1>2, <1>4
<1>6. g[s] = h[Chosen(s)] + g[s \ {Chosen(s)}]
  BY <1>2, <1>3 DEF AddsUp
<1>7. k[s] = h[Chosen(s)] + k[s \ {Chosen(s)}]
  BY <1>2, <1>3 DEF AddsUp
<1>8. QED BY <1>2, <1>5, <1>6, <1>7

LEMMA AddsUpExists ==
  ASSUME NEW S, IsFiniteSet(S), NEW h
  PROVE  \E g : AddsUp(g, h, S)
<1> DEFINE B == {T \in SUBSET S : ~\E g : AddsUp(g, h, T)}
<1>1. SUFFICES ASSUME B # {} PROVE FALSE
  OBVIOUS
<1>2. PICK T \in B : \A U \in B : U \subseteq T => U = T
  <2>1. B \in SUBSET (SUBSET S)
    OBVIOUS
  <2> HIDE DEF B
  <2>2. QED BY <1>1, <2>1, MinimalSubset
<1> DEFINE G(U) == CHOOSE g : AddsUp(g, h, U)
<1>3. \A U \in SUBSET T : U # T => AddsUp(G(U), h, U)
  BY <1>2
<1> DEFINE x == Chosen(T)
           top == IF T = {} THEN 0 ELSE h[x] + G(T \ {x})[T \ {x}]
           g == [s \in SUBSET T |-> IF s = T THEN top ELSE G(s)[s]]
<1>4. ASSUME NEW s \in SUBSET T, s # T, s # {}
      PROVE  G(s)[s] = h[Chosen(s)] + g[s \ {Chosen(s)}]
  <2> DEFINE u == s \ {Chosen(s)}
  <2>1. Chosen(s) \in s
    BY <1>4 DEF Chosen
  <2>2. u \in SUBSET T /\ u # T /\ u \in SUBSET S /\ s \in SUBSET S /\ u \in SUBSET (s \cap u)
    BY <2>1, <1>4, <1>2
  <2>3. AddsUp(G(s), h, s) /\ AddsUp(G(u), h, u)
    BY <1>3, <1>4, <2>2
  <2>4. G(s)[u] = G(u)[u]
    BY <2>2, <2>3, AddsUpUnique
  <2>5. G(s)[s] = h[Chosen(s)] + G(s)[u]
    BY <2>3, <1>4 DEF AddsUp
  <2>6. g[u] = G(u)[u]
    BY <2>2
  <2>7. QED BY <2>4, <2>5, <2>6
<1>5. ASSUME NEW s \in SUBSET T, s # T, s = {}
      PROVE  G(s)[s] = 0
  <2>1. AddsUp(G(s), h, s) /\ s \in SUBSET s
    BY <1>3, <1>5
  <2> HIDE DEF G
  <2>2. QED BY <2>1, <1>5 DEF AddsUp
<1>6. T # {} => x \in T /\ g[T \ {x}] = G(T \ {x})[T \ {x}]
  BY DEF Chosen
<1>7. AddsUp(g, h, T)
  <2>1. \A s \in SUBSET T :
          g[s] = IF s = {} THEN 0 ELSE h[Chosen(s)] + g[s \ {Chosen(s)}]
    <3>1. ASSUME NEW s \in SUBSET T, s # T
          PROVE  g[s] = IF s = {} THEN 0 ELSE h[Chosen(s)] + g[s \ {Chosen(s)}]
      <4>1. g[s] = G(s)[s]
        BY <3>1
      <4> HIDE DEF g, G
      <4>2. CASE s = {}
        BY <4>1, <4>2, <3>1, <1>5
      <4>3. CASE s # {}
        BY <4>1, <4>3, <3>1, <1>4
      <4>4. QED BY <4>2, <4>3
    <3>2. g[T] = IF T = {} THEN 0 ELSE h[x] + g[T \ {x}]
      <4>1. g[T] = top
        OBVIOUS
      <4> HIDE DEF g, G
      <4>2. QED BY <4>1, <1>6
    <3> HIDE DEF g
    <3>3. QED BY <3>1, <3>2
  <2> HIDE DEF top
  <2>2. g = [s \in SUBSET T |-> g[s]]
    OBVIOUS
  <2> HIDE DEF g
  <2>3. QED BY <2>1, <2>2 DEF AddsUp
<1>8. QED BY <1>2, <1>7

Total(h, S) == MapThenSumSet(LAMBDA f : h[f], S)

LEMMA TotalIsSum ==
  ASSUME NEW S, IsFiniteSet(S), NEW h
  PROVE  \E g : AddsUp(g, h, S) /\ Total(h, S) = g[S]
<1> DEFINE g == CHOOSE g : AddsUp(g, h, S)
<1>1. AddsUp(g, h, S)
  BY AddsUpExists
<1>2. Total(h, S) = g[S]
  BY DEF Total, MapThenSumSet, MapThenFoldSet, AddsUp, Chosen
<1>3. QED BY <1>1, <1>2

(* What is known of a total.                                               *)
LEMMA TotalFacts ==
  ASSUME NEW S, IsFiniteSet(S), NEW h \in [S -> Nat]
  PROVE  /\ Total(h, S) \in Nat
         /\ (\A x \in S : h[x] = 0) => Total(h, S) = 0
<1>1. PICK g : AddsUp(g, h, S) /\ Total(h, S) = g[S]
  BY TotalIsSum
<1> DEFINE B == {s \in SUBSET S : ~(g[s] \in Nat /\ ((\A x \in S : h[x] = 0) => g[s] = 0))}
<1>2. SUFFICES ASSUME B # {} PROVE FALSE
  BY <1>1
<1>3. PICK s \in B : \A u \in B : u \subseteq s => u = s
  <2>1. B \in SUBSET (SUBSET S)
    OBVIOUS
  <2> HIDE DEF B
  <2>2. QED BY <1>2, <2>1, MinimalSubset
<1>4. s # {}
  BY <1>1, <1>3 DEF AddsUp
<1>5. Chosen(s) \in s
  BY <1>4 DEF Chosen
<1>6. g[s] = h[Chosen(s)] + g[s \ {Chosen(s)}]
  BY <1>1, <1>3, <1>4 DEF AddsUp
<1>7. s \ {Chosen(s)} \notin B
  BY <1>3, <1>5
<1>8. h[Chosen(s)] \in Nat
  BY <1>3, <1>5
<1>9. QED BY <1>3, <1>5, <1>6, <1>7, <1>8

LEMMA TotalChanges ==
  ASSUME NEW S, IsFiniteSet(S), NEW h \in [S -> Nat], NEW a \in S, NEW n \in Nat
  PROVE  Total([h EXCEPT ![a] = n], S) = Total(h, S) + n - h[a]
<1> DEFINE k == [h EXCEPT ![a] = n]
<1>1. PICK g : AddsUp(g, h, S) /\ Total(h, S) = g[S]
  BY TotalIsSum
<1>2. PICK i : AddsUp(i, k, S) /\ Total(k, S) = i[S]
  BY TotalIsSum
<1> DEFINE Good(s) == /\ g[s] \in Int /\ i[s] \in Int
                      /\ i[s] = g[s] + (IF a \in s THEN n - h[a] ELSE 0)
           B == {s \in SUBSET S : ~Good(s)}
<1>3. SUFFICES ASSUME B # {} PROVE FALSE
  BY <1>1, <1>2
<1>4. PICK s \in B : \A u \in B : u \subseteq s => u = s
  <2>1. B \in SUBSET (SUBSET S)
    OBVIOUS
  <2> HIDE DEF B
  <2>2. QED BY <1>3, <2>1, MinimalSubset
<1> DEFINE x == Chosen(s)
           u == s \ {x}
<1>5. s # {}
  BY <1>1, <1>2, <1>4 DEF AddsUp
<1>6. x \in s /\ x \in S
  BY <1>4, <1>5 DEF Chosen
<1>7. g[s] = h[x] + g[u] /\ i[s] = k[x] + i[u]
  BY <1>1, <1>2, <1>4, <1>5 DEF AddsUp
<1>8. u \in SUBSET S /\ u \notin B
  BY <1>4, <1>6
<1>9. Good(u)
  BY <1>8
<1>10. k[x] = IF x = a THEN n ELSE h[x]
  BY <1>6
<1>11. h[x] \in Nat /\ h[a] \in Nat
  BY <1>6
<1>12. a \in s <=> a \in u \/ a = x
  BY <1>6
<1>13. a = x => a \notin u
  OBVIOUS
<1>14. ~Good(s)
  BY <1>4
<1> HIDE DEF k, u, x
<1>15. QED BY <1>7, <1>9, <1>10, <1>11, <1>12, <1>13, <1>14

--------------------------------------------------------------------------
(* The inductive invariant.                                                *)

Steps == {"idle", "take", "register", "waiting", "cancelled", "granted", "body", "exit"}

(* The Set of waiters: whoever waits is in it, nobody is in it twice.      *)
Queued ==
  /\ waiters \in Seq(Fibers)
  /\ \A i, j \in 1 .. Len(waiters) : waiters[i] = waiters[j] => i = j
  /\ \A i \in 1 .. Len(waiters) : pc[waiters[i]] \in {"waiting", "cancelled"}
  /\ \A f \in Fibers : pc[f] = "waiting" => \E i \in 1 .. Len(waiters) : waiters[i] = f

Typed ==
  /\ permits \in Sizes /\ taken \in Int /\ tasks \in Nat /\ resets \in Nat
  /\ pc \in [Fibers -> Steps]
  /\ running \in Fibers \cup {Nobody}
  /\ cursor \in 0 .. Len(waiters) + 1

(* Without yields a fiber keeps the stack until its finalizer is there.    *)
OnStack == ~MayYield => \A f \in Fibers : pc[f] = "granted" => running = f

Counted ==
  resets = 0 => /\ Total(held, Fibers) <= taken
                /\ ~MayYield => Total(held, Fibers) = taken

NotStranded == (\A f \in Fibers : Need[f] > 0) => NoStrandedWaiter

IInv == Typed /\ Queued /\ OnStack /\ Counted /\ NotStranded

LEMMA HeldType ==
  ASSUME SemaphoreAssumption, Typed
  PROVE  held \in [Fibers -> Nat]
BY DEF SemaphoreAssumption, Typed, held

LEMMA RemoveAtFacts ==
  ASSUME NEW S, NEW s \in Seq(S), NEW i \in 1 .. Len(s)
  PROVE  /\ RemoveAt(s, i) \in Seq(S)
         /\ Len(RemoveAt(s, i)) = Len(s) - 1
         /\ \A j \in 1 .. Len(s) - 1 :
              RemoveAt(s, i)[j] = IF j < i THEN s[j] ELSE s[j + 1]
<1> DEFINE a == SubSeq(s, 1, i - 1)
           b == SubSeq(s, i + 1, Len(s))
<1>1. a \in Seq(S) /\ Len(a) = i - 1 /\ \A j \in 1 .. i - 1 : a[j] = s[j]
  BY SubSeqProperties
<1>2. b \in Seq(S) /\ Len(b) = Len(s) - i /\ \A j \in 1 .. Len(s) - i : b[j] = s[i + j]
  BY SubSeqProperties
<1>3. RemoveAt(s, i) = a \o b
  BY DEF RemoveAt
<1> HIDE DEF a, b
<1>4. /\ a \o b \in Seq(S) /\ Len(a \o b) = Len(s) - 1
      /\ \A j \in 1 .. Len(s) - 1 :
           (a \o b)[j] = IF j <= i - 1 THEN a[j] ELSE b[j - (i - 1)]
  <2>1. /\ a \o b \in Seq(S) /\ Len(a \o b) = Len(a) + Len(b)
        /\ \A j \in 1 .. Len(a) + Len(b) :
             (a \o b)[j] = IF j <= Len(a) THEN a[j] ELSE b[j - Len(a)]
    BY <1>1, <1>2, ConcatProperties, Zenon
  <2>2. Len(a) = i - 1 /\ Len(a) + Len(b) = Len(s) - 1
    BY <1>1, <1>2
  <2>3. QED BY <2>1, <2>2, Zenon
<1>5. ASSUME NEW j \in 1 .. Len(s) - 1, ~(j < i)
      PROVE  b[j - (i - 1)] = s[j + 1]
  BY <1>2, <1>5
<1>6. QED BY <1>1, <1>3, <1>4, <1>5

(* Where Forget finds its fiber.                                           *)
LEMMA FoundAt ==
  ASSUME Queued, NEW f \in Fibers, NEW at, at = SelectInSeq(waiters, LAMBDA w : w = f)
  PROVE  \/ at = 0 /\ \A i \in 1 .. Len(waiters) : waiters[i] # f
         \/ at \in 1 .. Len(waiters) /\ waiters[at] = f
<1> DEFINE I == {i \in 1 .. Len(waiters) : waiters[i] = f}
<1>1. at = IF I # {} THEN Min(I) ELSE 0
  BY DEF SelectInSeq
<1>2. CASE I = {}
  BY <1>1, <1>2
<1>3. CASE I # {}
  <2>1. PICK i \in I : TRUE
    BY <1>3
  <2>2. I = {i}
    BY <2>1 DEF Queued
  <2>3. Min(I) = i
    BY <2>1, <2>2 DEF Min, Queued
  <2>4. QED BY <1>1, <1>3, <2>1, <2>3
<1>4. QED BY <1>2, <1>3

LEMMA InitIInv == ASSUME SemaphoreAssumption, Init PROVE IInv
<1>1. Typed
  BY DEF SemaphoreAssumption, Init, Typed, Steps
<1>2. Queued /\ OnStack /\ NotStranded
  BY DEF Init, Queued, OnStack, NotStranded, NoStrandedWaiter
<1>3. Counted
  <2>1. \A f \in Fibers : held[f] = 0
    BY DEF Init, held
  <2>2. Total(held, Fibers) = 0
    BY <1>1, <2>1, HeldType, TotalFacts DEF SemaphoreAssumption
  <2>3. QED BY <2>2 DEF Init, Counted
<1>4. QED BY <1>1, <1>2, <1>3 DEF IInv

--------------------------------------------------------------------------
(* What a move of one fiber leaves alone.                                  *)

Inside == {"granted", "body", "exit"}
Share(f, step) == IF step \in Inside THEN Need[f] ELSE 0

LEMMA MoveCounts ==
  ASSUME SemaphoreAssumption, Typed, NEW f \in Fibers, NEW to \in Steps,
         pc' = [pc EXCEPT ![f] = to]
  PROVE  /\ Total(held', Fibers) = Total(held, Fibers) + Share(f, to) - Share(f, pc[f])
         /\ Total(held, Fibers) \in Nat /\ Share(f, to) \in Nat /\ Share(f, pc[f]) \in Nat
<1>1. PICK h : h = held
  OBVIOUS
<1>2. PICK k : k = held'
  OBVIOUS
<1>3. h \in [Fibers -> Nat] /\ h[f] = Share(f, pc[f])
  BY <1>1, HeldType DEF held, Share, Inside
<1>4. Share(f, to) \in Nat
  BY DEF Share, SemaphoreAssumption
<1>5. k = [h EXCEPT ![f] = Share(f, to)]
  BY <1>1, <1>2 DEF held, Share, Inside, Typed
<1>6. PICK n : n = Share(f, to)
  OBVIOUS
<1>7. Total(k, Fibers) = Total(h, Fibers) + n - h[f]
  <2>1. n \in Nat /\ k = [h EXCEPT ![f] = n]
    BY <1>4, <1>5, <1>6
  <2>2. IsFiniteSet(Fibers)
    BY DEF SemaphoreAssumption
  <2>3. Total([h EXCEPT ![f] = n], Fibers) = Total(h, Fibers) + n - h[f]
    BY <1>3, <2>1, <2>2, TotalChanges
  <2>4. QED BY <2>1, <2>3
<1>8. Total(h, Fibers) \in Nat
  BY <1>3, TotalFacts DEF SemaphoreAssumption
<1>9. QED BY <1>1, <1>2, <1>3, <1>4, <1>6, <1>7, <1>8

(* A move keeps the count if taken changes with what the fiber holds.      *)
LEMMA MoveCounted ==
  ASSUME SemaphoreAssumption, Typed, Counted, NEW f \in Fibers, NEW to \in Steps,
         pc' = [pc EXCEPT ![f] = to], resets' = resets, taken' \in Int,
         taken' >= taken + Share(f, to) - Share(f, pc[f]),
         ~MayYield => taken' = taken + Share(f, to) - Share(f, pc[f])
  PROVE  Counted'
<1>1. PICK before : before = Total(held, Fibers)
  OBVIOUS
<1>2. PICK after : after = Total(held', Fibers)
  OBVIOUS
<1>3. PICK less, more : less = Share(f, pc[f]) /\ more = Share(f, to)
  OBVIOUS
<1>4. before \in Nat /\ less \in Nat /\ more \in Nat /\ after = before + more - less
  BY <1>1, <1>2, <1>3, MoveCounts
<1>5. resets = 0 => before <= taken /\ (~MayYield => before = taken)
  BY <1>1 DEF Counted
<1>6. taken' >= taken + more - less /\ (~MayYield => taken' = taken + more - less)
  BY <1>3
<1>7. taken \in Int
  BY DEF Typed
<1>8. resets = 0 => after <= taken' /\ (~MayYield => after = taken')
  BY <1>4, <1>5, <1>6, <1>7
<1>9. QED BY <1>2, <1>8 DEF Counted

LEMMA MoveQueued ==
  ASSUME Typed, Queued, NEW f \in Fibers, NEW to \in Steps,
         pc' = [pc EXCEPT ![f] = to], waiters' = waiters,
         \/ pc[f] \notin {"waiting", "cancelled"} /\ to # "waiting"
         \/ pc[f] = "waiting" /\ to = "cancelled"
  PROVE  Queued'
BY DEF Typed, Queued

(* Fewer free permits and no fewer tasks strand nobody.                    *)
LEMMA LessStrandsNobody ==
  ASSUME Typed, Queued, SemaphoreAssumption, NotStranded,
         waiters' = waiters, cursor' = cursor, permits' = permits,
         taken' \in Int, taken' >= taken, tasks' \in Nat, tasks' >= tasks
  PROVE  NotStranded'
<1>1. SUFFICES ASSUME \A f \in Fibers : Need[f] > 0, NEW i \in 1 .. Len(waiters),
                      Need[waiters[i]] <= permits' - taken'
               PROVE  tasks' > 0 \/ (cursor > 0 /\ cursor <= i)
  BY DEF NotStranded, NoStrandedWaiter, free
<1>2. Need[waiters[i]] \in Nat /\ permits \in Int /\ taken \in Int
  BY DEF Queued, SemaphoreAssumption, Typed
<1>3. Need[waiters[i]] <= free
  BY <1>1, <1>2 DEF free
<1>4. tasks > 0 \/ (cursor > 0 /\ cursor <= i)
  BY <1>1, <1>3 DEF NotStranded, NoStrandedWaiter
<1>5. QED BY <1>4 DEF Typed

(* Neither does anything that schedules a task when somebody waits.        *)
LEMMA TaskStrandsNobody ==
  ASSUME Typed, Queued, waiters' = waiters,
         tasks' = IF waiters # <<>> THEN tasks + 1 ELSE tasks
  PROVE  NotStranded'
<1>1. CASE waiters = <<>>
  BY <1>1 DEF NotStranded, NoStrandedWaiter
<1>2. CASE waiters # <<>>
  BY <1>2 DEF NotStranded, NoStrandedWaiter, Typed
<1>3. QED BY <1>1, <1>2

(* A fiber that keeps the stack.                                           *)
LEMMA MoveOnStack ==
  ASSUME Typed, OnStack, NEW f \in Fibers, NEW to \in Steps,
         Runs(f), pc' = [pc EXCEPT ![f] = to],
         running' = f \/ (running' = Nobody /\ to # "granted"),
         Nobody \notin Fibers
  PROVE  OnStack'
BY DEF Typed, OnStack, Runs

--------------------------------------------------------------------------
(* The actions.                                                            *)

LEMMA EnterStep ==
  ASSUME SemaphoreAssumption, IInv, NEW f \in Fibers,
         \/ WithPermits(f) \/ Enter(f) \/ BodyEnds(f)
  PROVE  IInv'
<1> USE DEF IInv
<1> DEFINE to == CASE pc[f] = "idle" -> "take" [] pc[f] = "granted" -> "body"
                   [] pc[f] = "body" -> "exit"
<1>1. /\ Runs(f) /\ pc[f] \in {"idle", "granted", "body"}
      /\ pc' = [pc EXCEPT ![f] = to] /\ running' = f
      /\ UNCHANGED <<permits, taken, waiters, cursor, tasks, resets>>
  BY DEF WithPermits, Enter, BodyEnds, Goes, clients
<1>2. to \in {"take", "body", "exit"} /\ to \in Steps /\ Share(f, to) = Share(f, pc[f])
  BY <1>1 DEF Steps, Share, Inside
<1> HIDE DEF to
<1>3. Typed'
  BY <1>1, <1>2 DEF Typed
<1>4. Queued'
  BY <1>1, <1>2, MoveQueued
<1>5. OnStack'
  BY <1>1, <1>2, MoveOnStack DEF SemaphoreAssumption
<1>6. Counted'
  <2>1. Share(f, pc[f]) \in Nat /\ taken \in Int
    BY MoveCounts, <1>1, <1>2 DEF Typed
  <2>2. taken' \in Int /\ taken' >= taken + Share(f, to) - Share(f, pc[f])
       /\ (~MayYield => taken' = taken + Share(f, to) - Share(f, pc[f]))
    BY <1>1, <1>2, <2>1
  <2>3. QED BY <1>1, <1>2, <2>1, <2>2, MoveCounted
<1>7. NotStranded'
  BY <1>1, LessStrandsNobody DEF Typed
<1>8. QED BY <1>3, <1>4, <1>5, <1>6, <1>7

LEMMA TakeStep ==
  ASSUME SemaphoreAssumption, IInv, NEW f \in Fibers,
         Take(f) \/ WithPermitsIfAvailable(f)
  PROVE  IInv'
<1> USE DEF IInv
<1>1. PICK to \in {"register", "granted", "idle", "body"} :
        /\ Runs(f) /\ pc[f] \in {"take", "idle"}
        /\ pc' = [pc EXCEPT ![f] = to] /\ running' = f
        /\ taken' = taken + Share(f, to)
        /\ UNCHANGED <<permits, waiters, cursor, tasks, resets>>
  <2>1. taken + 0 = taken
    BY DEF Typed
  <2>2. CASE Take(f)
    BY <2>1, <2>2 DEF Take, Goes, clients, Share, Inside
  <2>3. CASE WithPermitsIfAvailable(f)
    BY <2>1, <2>3 DEF WithPermitsIfAvailable, Goes, Share, Inside
  <2>4. QED BY <2>2, <2>3
<1>2. to \in Steps /\ Share(f, to) \in Nat /\ Share(f, pc[f]) = 0
  BY <1>1 DEF Steps, Share, Inside, SemaphoreAssumption
<1>3. Typed'
  BY <1>1, <1>2 DEF Typed
<1>4. Queued'
  BY <1>1, <1>2, MoveQueued
<1>5. OnStack'
  BY <1>1, <1>2, MoveOnStack DEF SemaphoreAssumption
<1>6. Counted'
  <2>1. Share(f, pc[f]) \in Nat /\ taken \in Int
    BY MoveCounts, <1>1, <1>2 DEF Typed
  <2>2. taken' \in Int /\ taken' >= taken + Share(f, to) - Share(f, pc[f])
       /\ (~MayYield => taken' = taken + Share(f, to) - Share(f, pc[f]))
    BY <1>1, <1>2, <2>1
  <2>3. QED BY <1>1, <1>2, <2>1, <2>2, MoveCounted
<1>7. NotStranded'
  BY <1>1, <1>2, LessStrandsNobody DEF Typed
<1>8. QED BY <1>3, <1>4, <1>5, <1>6, <1>7

LEMMA GiveBackStep ==
  ASSUME SemaphoreAssumption, IInv, NEW f \in Fibers, GiveBack(f)
  PROVE  IInv'
<1> USE DEF IInv
<1>1. /\ Runs(f) /\ pc[f] = "exit"
      /\ pc' = [pc EXCEPT ![f] = "idle"] /\ running' = f
      /\ taken' = taken - Need[f]
      /\ tasks' = IF waiters # <<>> THEN tasks + 1 ELSE tasks
      /\ UNCHANGED <<permits, waiters, cursor, resets>>
  BY DEF GiveBack, Goes, clients, UpdateTaken
<1>2. "idle" \in Steps /\ Share(f, "idle") = 0 /\ Share(f, pc[f]) = Need[f]
  BY <1>1 DEF Steps, Share, Inside
<1>3. Typed'
  BY <1>1, <1>2 DEF Typed, SemaphoreAssumption
<1>4. Queued'
  BY <1>1, <1>2, MoveQueued
<1>5. OnStack'
  BY <1>1, <1>2, MoveOnStack DEF SemaphoreAssumption
<1>6. Counted'
  <2>1. Share(f, pc[f]) \in Nat /\ taken \in Int
    BY MoveCounts, <1>1, <1>2 DEF Typed
  <2>2. taken' \in Int /\ taken' >= taken + Share(f, "idle") - Share(f, pc[f])
       /\ (~MayYield => taken' = taken + Share(f, "idle") - Share(f, pc[f]))
    BY <1>1, <1>2, <2>1
  <2>3. QED BY <1>1, <1>2, <2>1, <2>2, MoveCounted
<1>7. NotStranded'
  BY <1>1, TaskStrandsNobody
<1>8. QED BY <1>3, <1>4, <1>5, <1>6, <1>7

LEMMA InterruptStep ==
  ASSUME SemaphoreAssumption, IInv, NEW f \in Fibers, Interrupt(f)
  PROVE  IInv'
<1> USE DEF IInv
<1>1. PICK to \in {"idle", "cancelled", "exit"} :
        /\ running = Nobody /\ pc' = [pc EXCEPT ![f] = to] /\ running' = f
        /\ \/ pc[f] \in {"take", "register", "granted"} /\ to = "idle"
           \/ pc[f] = "waiting" /\ to = "cancelled"
           \/ pc[f] = "body" /\ to = "exit"
        /\ UNCHANGED <<permits, taken, waiters, cursor, tasks, resets>>
  BY DEF Interrupt, Goes, clients
<1>2. to \in Steps
  BY DEF Steps
<1>3. Typed'
  BY <1>1, <1>2 DEF Typed
<1>4. Queued'
  BY <1>1, <1>2, MoveQueued
<1>5. OnStack'
  BY <1>1, <1>2 DEF OnStack, Typed, SemaphoreAssumption
<1>6. Counted'
  <2>1. Share(f, to) <= Share(f, pc[f])
    BY <1>1 DEF Share, Inside, SemaphoreAssumption
  <2>2. ~MayYield => pc[f] # "granted"
    BY <1>1 DEF OnStack, SemaphoreAssumption
  <2>3. ~MayYield => Share(f, to) = Share(f, pc[f])
    BY <1>1, <2>2 DEF Share, Inside
  <2>4. Share(f, pc[f]) \in Nat /\ Share(f, to) \in Nat /\ taken \in Int
    BY MoveCounts, <1>1, <1>2 DEF Typed
  <2>5. taken' \in Int /\ taken' >= taken + Share(f, to) - Share(f, pc[f])
        /\ (~MayYield => taken' = taken + Share(f, to) - Share(f, pc[f]))
    BY <1>1, <2>1, <2>3, <2>4
  <2>6. QED BY <1>1, <1>2, <2>5, MoveCounted
<1>7. NotStranded'
  BY <1>1, LessStrandsNobody DEF Typed
<1>8. QED BY <1>3, <1>4, <1>5, <1>6, <1>7

LEMMA RegisterStep ==
  ASSUME SemaphoreAssumption, IInv, NEW f \in Fibers, Register(f)
  PROVE  IInv'
<1> USE DEF IInv
<1>0. /\ Runs(f) /\ pc[f] = "register"
      /\ UNCHANGED <<permits, taken, cursor, tasks, resets>>
  BY DEF Register, clients
<1>1. CASE free >= Need[f]
  <2>1. pc' = [pc EXCEPT ![f] = "take"] /\ running' = f /\ waiters' = waiters
    BY <1>1 DEF Register, Goes
  <2>2. "take" \in Steps /\ Share(f, "take") = Share(f, pc[f])
    BY <1>0 DEF Steps, Share, Inside
  <2>3. Typed'
    BY <1>0, <2>1, <2>2 DEF Typed
  <2>4. Queued'
    BY <1>0, <2>1, <2>2, MoveQueued
  <2>5. OnStack'
    BY <1>0, <2>1, <2>2, MoveOnStack DEF SemaphoreAssumption
  <2>6. Counted'
    <3>1. Share(f, pc[f]) \in Nat /\ taken \in Int
      BY MoveCounts, <2>1, <2>2 DEF Typed
    <3>2. taken' \in Int /\ taken' >= taken + Share(f, "take") - Share(f, pc[f])
         /\ (~MayYield => taken' = taken + Share(f, "take") - Share(f, pc[f]))
      BY <1>0, <2>2, <3>1
    <3>3. QED BY <1>0, <2>1, <2>2, <3>1, <3>2, MoveCounted
  <2>7. NotStranded'
    BY <1>0, <2>1, LessStrandsNobody DEF Typed
  <2>8. QED BY <2>3, <2>4, <2>5, <2>6, <2>7
<1>2. CASE ~(free >= Need[f])
  <2>1. /\ pc' = [pc EXCEPT ![f] = "waiting"] /\ running' = Nobody
        /\ waiters' = Append(waiters, f)
    BY <1>2 DEF Register, Leaves
  <2>2. "waiting" \in Steps /\ Share(f, "waiting") = Share(f, pc[f])
    BY <1>0 DEF Steps, Share, Inside
  <2>a. /\ waiters' \in Seq(Fibers) /\ Len(waiters') = Len(waiters) + 1
        /\ \A i \in 1 .. Len(waiters) : waiters'[i] = waiters[i]
        /\ waiters'[Len(waiters) + 1] = f
    BY <2>1 DEF Queued
  <2>b. Len(waiters) \in Nat
    BY DEF Queued
  <2>3. Typed'
    BY <1>0, <2>1, <2>2, <2>a, <2>b DEF Typed
  <2>4. Queued'
    <3>1. \A i \in 1 .. Len(waiters) : waiters[i] # f /\ waiters[i] \in Fibers
      BY <1>0 DEF Queued
    <3>2. \A i \in 1 .. Len(waiters') : i = Len(waiters) + 1 \/ i \in 1 .. Len(waiters)
      BY <2>a, <2>b
    <3>3. \A i, j \in 1 .. Len(waiters') : waiters'[i] = waiters'[j] => i = j
      BY <2>a, <3>1, <3>2 DEF Queued
    <3>4. \A i \in 1 .. Len(waiters') : pc'[waiters'[i]] \in {"waiting", "cancelled"}
      BY <2>a, <2>1, <3>1, <3>2 DEF Queued, Typed
    <3>5. \A g \in Fibers : pc'[g] = "waiting" => \E i \in 1 .. Len(waiters') : waiters'[i] = g
      <4>1. ASSUME NEW g \in Fibers, g # f, pc'[g] = "waiting"
            PROVE  \E i \in 1 .. Len(waiters') : waiters'[i] = g
        <5>1. PICK i \in 1 .. Len(waiters) : waiters[i] = g
          BY <4>1, <2>1 DEF Typed, Queued
        <5>2. i \in 1 .. Len(waiters') /\ waiters'[i] = g
          BY <5>1, <2>a, <2>b
        <5>3. QED BY <5>2
      <4>2. Len(waiters) + 1 \in 1 .. Len(waiters')
        BY <2>a, <2>b
      <4>3. QED BY <4>1, <4>2, <2>a
    <3>6. QED BY <2>a, <3>3, <3>4, <3>5 DEF Queued
  <2>5. OnStack'
    BY <1>0, <2>1, <2>2, MoveOnStack DEF SemaphoreAssumption
  <2>6. Counted'
    <3>1. Share(f, pc[f]) \in Nat /\ taken \in Int
      BY MoveCounts, <2>1, <2>2 DEF Typed
    <3>2. taken' \in Int /\ taken' >= taken + Share(f, "waiting") - Share(f, pc[f])
         /\ (~MayYield => taken' = taken + Share(f, "waiting") - Share(f, pc[f]))
      BY <1>0, <2>2, <3>1
    <3>3. QED BY <1>0, <2>1, <2>2, <3>1, <3>2, MoveCounted
  <2>7. NotStranded'
    <3>1. ASSUME NEW i \in 1 .. Len(waiters'), Need[waiters'[i]] <= free,
                 \A g \in Fibers : Need[g] > 0
          PROVE  tasks > 0 \/ (cursor > 0 /\ cursor <= i)
      <4>1. i \in 1 .. Len(waiters)
        BY <2>a, <2>b, <3>1, <1>2 DEF free, Typed, SemaphoreAssumption
      <4>2. waiters'[i] = waiters[i]
        BY <4>1, <2>a
      <4>3. QED BY <4>1, <4>2, <3>1 DEF NotStranded, NoStrandedWaiter
    <3>2. free' = free
      BY <1>0 DEF free
    <3>3. QED BY <3>1, <3>2, <1>0 DEF NotStranded, NoStrandedWaiter
  <2>8. QED BY <2>3, <2>4, <2>5, <2>6, <2>7
<1>3. QED BY <1>1, <1>2

LEMMA SuspendStep ==
  ASSUME SemaphoreAssumption, IInv, NEW f \in Fibers, Suspend(f)
  PROVE  IInv'
<1> USE DEF IInv
<1>1. /\ running = f /\ running' = Nobody /\ (MayYield \/ pc[f] \in {"idle", "body"})
      /\ UNCHANGED <<permits, taken, waiters, pc, cursor, tasks, resets>>
  BY DEF Suspend, clients
<1>2. Typed' /\ Queued'
  BY <1>1 DEF Typed, Queued
<1>3. OnStack'
  BY <1>1 DEF OnStack, SemaphoreAssumption
<1>4. Counted'
  BY <1>1 DEF Counted, held
<1>5. NotStranded'
  BY <1>1, LessStrandsNobody DEF Typed
<1>6. QED BY <1>2, <1>3, <1>4, <1>5

(* A fiber leaves the Set of waiters.                                      *)
LEMMA LeaveQueue ==
  ASSUME Typed, Queued, NEW at \in 1 .. Len(waiters), NEW to \in Steps,
         to \notin {"waiting"}, waiters' = RemoveAt(waiters, at),
         pc' = [pc EXCEPT ![waiters[at]] = to]
  PROVE  /\ Queued'
         /\ Len(waiters') = Len(waiters) - 1 /\ Len(waiters) \in Nat
         /\ \A j \in 1 .. Len(waiters') :
              waiters'[j] = IF j < at THEN waiters[j] ELSE waiters[j + 1]
<1>1. /\ waiters \in Seq(Fibers) /\ Len(waiters) \in Nat
      /\ \A i, j \in 1 .. Len(waiters) : waiters[i] = waiters[j] => i = j
      /\ \A i \in 1 .. Len(waiters) : pc[waiters[i]] \in {"waiting", "cancelled"}
      /\ \A f \in Fibers : pc[f] = "waiting" => \E i \in 1 .. Len(waiters) : waiters[i] = f
  BY DEF Queued
<1>2. PICK old : old = waiters
  OBVIOUS
<1>3. /\ waiters' \in Seq(Fibers) /\ Len(waiters') = Len(waiters) - 1
      /\ \A j \in 1 .. Len(waiters) - 1 :
           waiters'[j] = IF j < at THEN waiters[j] ELSE waiters[j + 1]
  <2>1. old \in Seq(Fibers) /\ at \in 1 .. Len(old)
    BY <1>1, <1>2
  <2>2. /\ RemoveAt(old, at) \in Seq(Fibers) /\ Len(RemoveAt(old, at)) = Len(old) - 1
        /\ \A j \in 1 .. Len(old) - 1 :
             RemoveAt(old, at)[j] = IF j < at THEN old[j] ELSE old[j + 1]
    BY <2>1, RemoveAtFacts
  <2>3. QED BY <1>2, <2>2
<1> DEFINE From(j) == IF j < at THEN j ELSE j + 1
<1>4. \A j \in 1 .. Len(waiters') : /\ From(j) \in 1 .. Len(waiters) /\ From(j) # at
                                    /\ waiters'[j] = waiters[From(j)]
  BY <1>1, <1>3
<1>5. \A i, j \in 1 .. Len(waiters') : From(i) = From(j) => i = j
  BY <1>1, <1>3
<1>6. \A i \in 1 .. Len(waiters) :
        i # at => \E j \in 1 .. Len(waiters') : waiters'[j] = waiters[i]
  <2>1. ASSUME NEW i \in 1 .. Len(waiters), i # at
        PROVE  \E j \in 1 .. Len(waiters') : From(j) = i
    <3>1. CASE i < at
      <4>1. i \in 1 .. Len(waiters') /\ From(i) = i
        BY <3>1, <1>1, <1>3
      <4>2. QED BY <4>1
    <3>2. CASE i > at
      <4>1. i - 1 \in 1 .. Len(waiters') /\ From(i - 1) = i
        BY <3>2, <1>1, <1>3
      <4>2. QED BY <4>1
    <3>3. QED BY <3>1, <3>2, <2>1
  <2> HIDE DEF From
  <2>2. QED BY <2>1, <1>4
<1> HIDE DEF From
<1>7. \A i \in 1 .. Len(waiters) : waiters[i] \in Fibers /\ (i # at => waiters[i] # waiters[at])
  BY <1>1
<1>8. \A i, j \in 1 .. Len(waiters') : waiters'[i] = waiters'[j] => i = j
  BY <1>1, <1>4, <1>5
<1>9. \A i \in 1 .. Len(waiters') : pc'[waiters'[i]] \in {"waiting", "cancelled"}
  BY <1>1, <1>4, <1>7 DEF Typed
<1>10. \A f \in Fibers : pc'[f] = "waiting" => \E i \in 1 .. Len(waiters') : waiters'[i] = f
  <2>1. SUFFICES ASSUME NEW f \in Fibers, pc'[f] = "waiting"
                 PROVE  \E i \in 1 .. Len(waiters') : waiters'[i] = f
    OBVIOUS
  <2>2. f # waiters[at] /\ pc[f] = "waiting"
    BY <1>7, <2>1 DEF Typed
  <2>3. PICK i \in 1 .. Len(waiters) : waiters[i] = f
    BY <1>1, <2>2
  <2>4. QED BY <1>6, <2>2, <2>3
<1>11. QED BY <1>1, <1>3, <1>8, <1>9, <1>10 DEF Queued

LEMMA CancelStep ==
  ASSUME SemaphoreAssumption, IInv, NEW f \in Fibers, Cancel(f)
  PROVE  IInv'
<1> USE DEF IInv
<1> DEFINE at == SelectInSeq(waiters, LAMBDA w : w = f)
<1>1. /\ Runs(f) /\ pc[f] = "cancelled" /\ pc' = [pc EXCEPT ![f] = "idle"] /\ running' = f
      /\ waiters' = IF at = 0 THEN waiters ELSE RemoveAt(waiters, at)
      /\ cursor' = IF at # 0 /\ at < cursor THEN cursor - 1 ELSE cursor
      /\ UNCHANGED <<permits, taken, tasks, resets>>
  BY DEF Cancel, Forget, Goes, clients
<1>2. \/ at = 0 /\ \A i \in 1 .. Len(waiters) : waiters[i] # f
      \/ at \in 1 .. Len(waiters) /\ waiters[at] = f
  <2>1. PICK n : n = SelectInSeq(waiters, LAMBDA w : w = f)
    OBVIOUS
  <2>2. QED BY <2>1, FoundAt
<1> HIDE DEF at
<1>3. "idle" \in Steps /\ Share(f, "idle") = Share(f, pc[f])
  BY <1>1 DEF Steps, Share, Inside
<1>4. OnStack'
  BY <1>1, <1>3, MoveOnStack DEF SemaphoreAssumption
<1>5. Counted'
  <2>1. Share(f, pc[f]) \in Nat /\ taken \in Int
    BY MoveCounts, <1>1, <1>3 DEF Typed
  <2>2. taken' \in Int /\ taken' >= taken + Share(f, "idle") - Share(f, pc[f])
        /\ (~MayYield => taken' = taken + Share(f, "idle") - Share(f, pc[f]))
    BY <1>1, <1>3, <2>1
  <2>3. QED BY <1>1, <1>3, <2>2, MoveCounted
<1>6. Queued' /\ Typed' /\ NotStranded'
  <2>1. CASE at = 0
    <3>1. waiters' = waiters /\ cursor' = cursor
      BY <2>1, <1>1
    <3>2. Typed'
      BY <1>1, <1>3, <3>1 DEF Typed
    <3>3. NotStranded'
      BY <1>1, <3>1, LessStrandsNobody DEF Typed
    <3>4. Queued'
      BY <1>1, <1>2, <2>1, <3>1 DEF Queued, Typed
    <3>5. QED BY <3>2, <3>3, <3>4
  <2>2. CASE at \in 1 .. Len(waiters) /\ waiters[at] = f
    <3>1. waiters' = RemoveAt(waiters, at) /\ cursor' = IF at < cursor THEN cursor - 1 ELSE cursor
      BY <2>2, <1>1
    <3>2. PICK n \in 1 .. Len(waiters) : n = at
      BY <2>2
    <3>3. /\ Queued' /\ Len(waiters') = Len(waiters) - 1 /\ Len(waiters) \in Nat
          /\ \A j \in 1 .. Len(waiters') :
               waiters'[j] = IF j < n THEN waiters[j] ELSE waiters[j + 1]
      BY <3>1, <3>2, <1>1, <1>3, <2>2, LeaveQueue
    <3>4. Typed'
      BY <1>1, <1>3, <3>1, <3>2, <3>3 DEF Typed
    <3>5. NotStranded'
      <4>1. SUFFICES ASSUME \A g \in Fibers : Need[g] > 0, NEW j \in 1 .. Len(waiters'),
                            Need[waiters'[j]] <= free
                     PROVE  tasks > 0 \/ (cursor' > 0 /\ cursor' <= j)
        BY <1>1 DEF NotStranded, NoStrandedWaiter, free
      <4>2. PICK i \in 1 .. Len(waiters) : i = (IF j < n THEN j ELSE j + 1) /\ waiters'[j] = waiters[i]
        BY <3>3
      <4>3. tasks > 0 \/ (cursor > 0 /\ cursor <= i)
        BY <4>1, <4>2 DEF NotStranded, NoStrandedWaiter
      <4>4. QED BY <4>2, <4>3, <3>1, <3>2 DEF Typed
    <3>6. QED BY <3>3, <3>4, <3>5
  <2>3. QED BY <1>2, <2>1, <2>2
<1>7. QED BY <1>4, <1>5, <1>6

LEMMA VisitStep ==
  ASSUME SemaphoreAssumption, IInv, Visit
  PROVE  IInv'
<1> USE DEF IInv
<1>1. /\ running = Nobody /\ cursor > 0 /\ cursor <= Len(waiters) /\ free > 0
      /\ UNCHANGED <<permits, taken, tasks, resets>>
  BY DEF Visit, clients
<1>2. PICK n \in 1 .. Len(waiters) : n = cursor
  BY <1>1 DEF Typed, Queued
<1>3. Len(waiters) \in Nat /\ \A i \in 1 .. Len(waiters) : waiters[i] \in Fibers
  BY DEF Queued
<1>4. PICK w \in Fibers : w = waiters[n]
  BY <1>3
<1>5. CASE free < Need[w]
  <2>1. cursor' = cursor + 1 /\ UNCHANGED <<waiters, pc, running>>
    BY <1>2, <1>4, <1>5 DEF Visit
  <2>2. Typed' /\ Queued' /\ OnStack'
    BY <1>1, <1>3, <2>1 DEF Typed, Queued, OnStack
  <2>3. Counted'
    BY <1>1, <2>1 DEF Counted, held
  <2>4. NotStranded'
    <3>1. SUFFICES ASSUME \A g \in Fibers : Need[g] > 0, NEW i \in 1 .. Len(waiters),
                          Need[waiters[i]] <= free
                   PROVE  tasks > 0 \/ (cursor' > 0 /\ cursor' <= i)
      BY <1>1, <2>1 DEF NotStranded, NoStrandedWaiter, free
    <3>2. tasks > 0 \/ cursor <= i
      BY <3>1 DEF NotStranded, NoStrandedWaiter
    <3>3. i # cursor
      BY <3>1, <1>2, <1>4, <1>5 DEF free, Typed, SemaphoreAssumption
    <3>4. QED BY <3>2, <3>3, <2>1, <1>1 DEF Typed
  <2>5. QED BY <2>2, <2>3, <2>4
<1>6. CASE ~(free < Need[w])
  <2>1. /\ waiters' = RemoveAt(waiters, n) /\ cursor' = cursor
        /\ IF pc[w] = "waiting" THEN Goes(w, "take") ELSE UNCHANGED <<pc, running>>
    BY <1>2, <1>4, <1>6 DEF Visit
  <2>2. PICK to \in {"take", "cancelled"} :
          /\ pc' = [pc EXCEPT ![w] = to]
          /\ (to = "take" /\ running' = w) \/ running' = running
    <3>1. pc[w] \in {"waiting", "cancelled"}
      BY <1>4 DEF Queued
    <3>2. CASE pc[w] = "waiting"
      BY <3>2, <2>1 DEF Goes
    <3>3. CASE pc[w] = "cancelled"
      <4>1. pc' = [pc EXCEPT ![w] = "cancelled"] /\ running' = running
        BY <3>3, <2>1 DEF Typed
      <4>2. QED BY <4>1
    <3>4. QED BY <3>1, <3>2, <3>3
  <2>3. to \in Steps /\ to # "granted" /\ pc[w] # "granted" /\ Share(w, to) = Share(w, pc[w])
    BY <1>4 DEF Steps, Share, Inside, Queued
  <2>4. /\ Queued' /\ Len(waiters') = Len(waiters) - 1 /\ Len(waiters) \in Nat
        /\ \A j \in 1 .. Len(waiters') :
             waiters'[j] = IF j < n THEN waiters[j] ELSE waiters[j + 1]
    BY <1>4, <2>1, <2>2, <2>3, LeaveQueue
  <2>5. Typed'
    BY <1>1, <1>2, <2>1, <2>2, <2>3, <2>4 DEF Typed
  <2>6. OnStack'
    BY <1>1, <2>2, <2>3 DEF OnStack, Typed, SemaphoreAssumption
  <2>7. Counted'
    <3>1. Share(w, pc[w]) \in Nat /\ taken \in Int
      BY MoveCounts, <2>2, <2>3 DEF Typed
    <3>2. taken' \in Int /\ taken' >= taken + Share(w, to) - Share(w, pc[w])
          /\ (~MayYield => taken' = taken + Share(w, to) - Share(w, pc[w]))
      BY <1>1, <2>3, <3>1
    <3>3. QED BY <1>1, <2>2, <2>3, <3>2, MoveCounted
  <2>8. NotStranded'
    <3>1. SUFFICES ASSUME \A g \in Fibers : Need[g] > 0, NEW j \in 1 .. Len(waiters'),
                          Need[waiters'[j]] <= free
                   PROVE  tasks > 0 \/ cursor <= j
      BY <1>1, <2>1 DEF NotStranded, NoStrandedWaiter, free
    <3>2. PICK i \in 1 .. Len(waiters) : i = (IF j < n THEN j ELSE j + 1) /\ waiters'[j] = waiters[i]
      BY <2>4
    <3>3. tasks > 0 \/ cursor <= i
      BY <3>1, <3>2 DEF NotStranded, NoStrandedWaiter
    <3>4. QED BY <3>2, <3>3, <1>2
  <2>9. QED BY <2>4, <2>5, <2>6, <2>7, <2>8
<1>7. QED BY <1>5, <1>6

LEMMA WakeBounds ==
  ASSUME SemaphoreAssumption, IInv, StartWake \/ EndWake
  PROVE  IInv'
<1> USE DEF IInv
<1>1. UNCHANGED <<permits, taken, waiters, pc, running, resets>>
  BY DEF StartWake, EndWake, clients
<1>2. Len(waiters) \in Nat /\ \A i \in 1 .. Len(waiters) : waiters[i] \in Fibers
  BY DEF Queued
<1>3. Typed'
  BY <1>1, <1>2 DEF StartWake, EndWake, Typed
<1>4. Queued' /\ OnStack'
  BY <1>1 DEF Queued, OnStack
<1>5. Counted'
  BY <1>1 DEF Counted, held
<1>6. NotStranded'
  <2>1. CASE StartWake
    BY <2>1, <1>1, <1>2 DEF StartWake, NotStranded, NoStrandedWaiter
  <2>2. CASE EndWake
    <3>1. cursor > 0 /\ cursor' = 0 /\ tasks' = tasks /\ (cursor > Len(waiters) \/ free <= 0)
      BY <2>2 DEF EndWake
    <3>2. SUFFICES ASSUME \A g \in Fibers : Need[g] > 0, NEW i \in 1 .. Len(waiters),
                          Need[waiters[i]] <= free
                   PROVE  tasks > 0
      BY <1>1, <3>1 DEF NotStranded, NoStrandedWaiter, free
    <3>3. Need[waiters[i]] > 0 /\ Need[waiters[i]] \in Nat /\ free \in Int
      BY <1>2, <3>2 DEF SemaphoreAssumption, free, Typed
    <3>4. tasks > 0 \/ cursor <= i
      BY <3>2 DEF NotStranded, NoStrandedWaiter
    <3>5. QED BY <3>1, <3>2, <3>3, <3>4, <1>2 DEF Typed
  <2>3. QED BY <2>1, <2>2
<1>7. QED BY <1>3, <1>4, <1>5, <1>6

LEMMA ResizeStep ==
  ASSUME SemaphoreAssumption, IInv, Resize
  PROVE  IInv'
<1> USE DEF IInv
<1>1. PICK size \in Sizes :
        /\ permits' = size
        /\ IF size - taken < 0 THEN UNCHANGED <<taken, tasks>> ELSE UpdateTaken(taken)
        /\ UNCHANGED <<waiters, pc, running, cursor, resets>>
  BY DEF Resize
<1>2. taken' = taken /\ tasks' \in Nat
  BY <1>1 DEF UpdateTaken, Typed
<1>3. Typed' /\ Queued' /\ OnStack'
  BY <1>1, <1>2 DEF Typed, Queued, OnStack
<1>4. Counted'
  BY <1>1, <1>2 DEF Counted, held
<1>5. NotStranded'
  <2>1. CASE size - taken < 0
    <3>1. \A i \in 1 .. Len(waiters) : Need[waiters[i]] \in Nat
      BY DEF Queued, SemaphoreAssumption
    <3>2. free' < 0 /\ free' \in Int
      BY <1>1, <1>2, <2>1 DEF free, Typed, SemaphoreAssumption
    <3>3. QED BY <1>1, <3>1, <3>2 DEF NotStranded, NoStrandedWaiter
  <2>2. CASE ~(size - taken < 0)
    BY <1>1, <2>2, TaskStrandsNobody DEF UpdateTaken
  <2>3. QED BY <2>1, <2>2
<1>6. QED BY <1>3, <1>4, <1>5

LEMMA ReleaseAllStep ==
  ASSUME SemaphoreAssumption, IInv, ReleaseAll
  PROVE  IInv'
<1> USE DEF IInv
<1>1. /\ resets' = resets + 1 /\ taken' = 0
      /\ tasks' = IF waiters # <<>> THEN tasks + 1 ELSE tasks
      /\ UNCHANGED <<permits, waiters, pc, running, cursor>>
  BY DEF ReleaseAll, UpdateTaken
<1>2. Typed' /\ Queued' /\ OnStack'
  BY <1>1 DEF Typed, Queued, OnStack
<1>3. Counted'
  BY <1>1 DEF Counted, Typed
<1>4. NotStranded'
  BY <1>1, TaskStrandsNobody
<1>5. QED BY <1>2, <1>3, <1>4

LEMMA NextStep == ASSUME SemaphoreAssumption, IInv, [Next]_vars PROVE IInv'
<1>1. CASE UNCHANGED vars
  <2>1. UNCHANGED <<permits, taken, waiters, pc, running, cursor, tasks, resets>>
    BY <1>1 DEF vars, clients
  <2>2. QED BY <2>1 DEF IInv, Typed, Queued, OnStack, Counted, NotStranded,
                        NoStrandedWaiter, held, free
<1>2. CASE \E f \in Fibers : FiberStep(f) \/ Interrupt(f)
  BY <1>2, EnterStep, TakeStep, GiveBackStep, InterruptStep, RegisterStep, SuspendStep,
     CancelStep DEF FiberStep
<1>3. CASE Wake \/ Resize \/ ReleaseAll
  BY <1>3, VisitStep, WakeBounds, ResizeStep, ReleaseAllStep DEF Wake
<1>4. QED BY <1>1, <1>2, <1>3 DEF Next

(* A semaphore's fields fit together between any two steps: the Set of     *)
(* waiters, the stack, what is counted and who is awake (Semaphore.ts:     *)
(* 193-293).                                                               *)
THEOREM SemaphoreInductive == ASSUME SemaphoreAssumption PROVE Spec => []IInv
<1>1. Init => IInv
  BY InitIInv
<1>2. IInv /\ [Next]_vars => IInv'
  BY NextStep
<1>3. QED BY <1>1, <1>2, PTL DEF Spec

(* Whatever its clients do: no more is held than is counted, exactly that  *)
(* much if fibers do not lose the stack with a result in hand, and nobody  *)
(* sleeps on free permits (Semaphore.ts:202-293).                          *)
THEOREM SemaphoreIsSafe == ASSUME SemaphoreAssumption PROVE Spec => []SemaphoreSafe
<1>1. IInv => SemaphoreSafe
  <2>1. SUFFICES ASSUME IInv PROVE SemaphoreSafe
    OBVIOUS
  <2>2. resets = 0 => Total(held, Fibers) <= taken /\ (~MayYield => taken = Total(held, Fibers))
    BY <2>1 DEF IInv, Counted
  <2>3. (\A f \in Fibers : Need[f] > 0) => NoStrandedWaiter
    BY <2>1 DEF IInv, NotStranded
  <2>4. QED BY <2>2, <2>3 DEF SemaphoreSafe, PermitsConserved, Total
<1>2. QED BY <1>1, SemaphoreInductive, PTL

--------------------------------------------------------------------------
(* The refinement of PermitPool: what is held changes as a pool allows.    *)

LEMMA HeldMoves ==
  ASSUME Typed, NEW f \in Fibers, NEW to \in Steps, pc' = [pc EXCEPT ![f] = to]
  PROVE  /\ held' = [held EXCEPT ![f] = Share(f, to)]
         /\ held[f] = Share(f, pc[f])
         /\ Share(f, to) = Share(f, pc[f]) => held' = held
BY DEF held, Share, Inside, Typed

(* A step that leaves what is held alone is none of the pool.              *)
LEMMA QuietStep ==
  ASSUME Typed, NEW f \in Fibers, permits' = permits,
         \/ pc' = pc
         \/ \E to \in Steps : pc' = [pc EXCEPT ![f] = to] /\ Share(f, to) = Share(f, pc[f])
  PROVE  [Abstract!Next]_(<<permits, held>>)
<1>1. held' = held
  <2>1. CASE pc' = pc
    BY <2>1 DEF held
  <2>2. CASE \E to \in Steps : pc' = [pc EXCEPT ![f] = to] /\ Share(f, to) = Share(f, pc[f])
    BY <2>2, HeldMoves
  <2>3. QED BY <2>1, <2>2
<1>2. QED BY <1>1

LEMMA AcquireStep ==
  ASSUME SemaphoreAssumption, IInv, resets = 0, NEW f \in Fibers,
         Take(f) \/ WithPermitsIfAvailable(f)
  PROVE  [Abstract!Next]_(<<permits, held>>)
<1> USE DEF IInv
<1>1. PICK to \in {"register", "granted", "idle", "body"} :
        /\ pc[f] \in {"take", "idle"} /\ pc' = [pc EXCEPT ![f] = to] /\ permits' = permits
        /\ to \in Inside => free >= Need[f]
  <2>1. Need[f] \in Nat /\ free \in Int
    BY DEF SemaphoreAssumption, free, Typed
  <2>2. CASE Take(f)
    BY <2>1, <2>2 DEF Take, Goes, Inside
  <2>3. CASE WithPermitsIfAvailable(f)
    BY <2>1, <2>3 DEF WithPermitsIfAvailable, Goes, Inside
  <2>4. QED BY <2>2, <2>3
<1>2. to \in Steps /\ Share(f, pc[f]) = 0
  BY <1>1 DEF Steps, Share, Inside
<1>3. CASE to \notin Inside
  <2>1. Share(f, to) = Share(f, pc[f])
    BY <1>2, <1>3 DEF Share
  <2>2. QED BY <1>1, <1>2, <2>1, QuietStep
<1>4. CASE to \in Inside
  <2>1. held' = [held EXCEPT ![f] = Need[f]] /\ held[f] = 0
    BY <1>1, <1>2, <1>4, HeldMoves DEF Share
  <2>2. PICK used : used = Total(held, Fibers)
    OBVIOUS
  <2>3. used \in Nat /\ used <= taken
    BY <1>1, <1>2, <2>2, MoveCounts DEF Counted
  <2>4. free >= Need[f] /\ free = permits - taken
    BY <1>1, <1>4 DEF free
  <2>5. permits \in Nat /\ taken \in Int /\ Need[f] \in Nat
    BY DEF SemaphoreAssumption, Typed
  <2>6. used + Need[f] =< permits /\ Need[f] \in 0 .. permits
    BY <2>3, <2>4, <2>5
  <2>7. Abstract!Used = used
    BY <2>2 DEF Abstract!Used, Total, Abstract!MapThenSumSet, Abstract!MapThenFoldSet,
                MapThenSumSet, MapThenFoldSet
  <2>8. Abstract!Acquire(f)
    BY <1>1, <2>1, <2>6, <2>7 DEF Abstract!Acquire
  <2>9. QED BY <2>8 DEF Abstract!Next
<1>5. QED BY <1>3, <1>4

LEMMA FreedStep ==
  ASSUME SemaphoreAssumption, IInv, NEW f \in Fibers, GiveBack(f) \/ Interrupt(f)
  PROVE  [Abstract!Next]_(<<permits, held>>)
<1> USE DEF IInv
<1>1. PICK to \in {"idle", "cancelled", "exit"} :
        /\ pc' = [pc EXCEPT ![f] = to] /\ permits' = permits
        /\ to = "exit" => pc[f] = "body"
        /\ to = "cancelled" => pc[f] = "waiting"
  BY DEF GiveBack, Interrupt, Goes
<1>2. to \in Steps
  BY DEF Steps
<1>3. CASE to = "idle"
  <2>1. held' = [held EXCEPT ![f] = 0]
    BY <1>1, <1>2, <1>3, HeldMoves DEF Share, Inside
  <2>2. Abstract!Release(f)
    BY <1>1, <2>1 DEF Abstract!Release
  <2>3. QED BY <2>2 DEF Abstract!Next
<1>4. CASE to # "idle"
  <2>1. Share(f, to) = Share(f, pc[f])
    BY <1>1, <1>4 DEF Share, Inside
  <2>2. QED BY <1>1, <1>2, <2>1, QuietStep
<1>5. QED BY <1>3, <1>4

LEMMA OtherFiberStep ==
  ASSUME SemaphoreAssumption, IInv, NEW f \in Fibers,
         \/ WithPermits(f) \/ Enter(f) \/ BodyEnds(f) \/ Register(f)
         \/ Suspend(f) \/ Cancel(f)
  PROVE  [Abstract!Next]_(<<permits, held>>)
<1>1. permits' = permits
  BY DEF WithPermits, Enter, BodyEnds, Register, Suspend, Cancel
<1>2. \/ pc' = pc
      \/ \E to \in Steps : pc' = [pc EXCEPT ![f] = to] /\ Share(f, to) = Share(f, pc[f])
  <2>1. CASE WithPermits(f)
    BY <2>1 DEF WithPermits, Goes, Steps, Share, Inside
  <2>2. CASE Enter(f) \/ BodyEnds(f)
    BY <2>2 DEF Enter, BodyEnds, Goes, Steps, Share, Inside
  <2>3. CASE Register(f)
    BY <2>3 DEF Register, Goes, Leaves, Steps, Share, Inside
  <2>4. CASE Suspend(f)
    BY <2>4 DEF Suspend
  <2>5. CASE Cancel(f)
    BY <2>5 DEF Cancel, Goes, Steps, Share, Inside
  <2>6. QED BY <2>1, <2>2, <2>3, <2>4, <2>5
<1>3. QED BY <1>1, <1>2, QuietStep DEF IInv

LEMMA TaskStep ==
  ASSUME SemaphoreAssumption, IInv, Wake \/ Resize
  PROVE  [Abstract!Next]_(<<permits, held>>)
<1> USE DEF IInv
<1>1. CASE StartWake \/ EndWake
  BY <1>1 DEF StartWake, EndWake, held
<1>2. CASE Resize
  <2>1. permits' \in Sizes /\ held' = held
    BY <1>2 DEF Resize, held
  <2>2. Abstract!Resize
    BY <2>1 DEF Abstract!Resize
  <2>3. QED BY <2>2 DEF Abstract!Next
<1>3. CASE Visit
  <2>1. cursor \in 1 .. Len(waiters)
    BY <1>3 DEF Visit, Typed, Queued
  <2>2. PICK w \in Fibers : w = waiters[cursor]
    BY <2>1 DEF Queued
  <2>3. permits' = permits /\ pc[w] \in {"waiting", "cancelled"}
    BY <1>3, <2>1, <2>2 DEF Visit, Queued
  <2>4. pc' = pc \/ (pc[w] = "waiting" /\ pc' = [pc EXCEPT ![w] = "take"])
    BY <1>3, <2>2 DEF Visit, Goes
  <2>5. "take" \in Steps /\ (pc[w] = "waiting" => Share(w, "take") = Share(w, pc[w]))
    BY DEF Steps, Share, Inside
  <2>6. QED BY <2>3, <2>4, <2>5, QuietStep
<1>4. QED BY <1>1, <1>2, <1>3 DEF Wake

(* As long as nobody calls releaseAll, a semaphore is a pool of permits:   *)
(* a fiber gets what it asks for at one moment, and only if nobody holds   *)
(* it, whoever is interrupted or loses the stack (Semaphore.ts:202-293).   *)
THEOREM SemaphoreIsAPool ==
  ASSUME SemaphoreAssumption, MaxReleaseAlls = 0 PROVE Spec => ImplementsPermitPool
<1> DEFINE NoReset == resets = 0
<1>1. Init => Abstract!Init /\ NoReset
  BY DEF Init, Abstract!Init, held
<1>2. IInv /\ NoReset /\ [Next]_vars => NoReset' /\ [Abstract!Next]_(<<permits, held>>)
  <2>1. SUFFICES ASSUME IInv, resets = 0, [Next]_vars
                 PROVE  resets' = 0 /\ [Abstract!Next]_(<<permits, held>>)
    OBVIOUS
  <2>2. CASE UNCHANGED vars
    BY <2>1, <2>2 DEF vars, clients, held
  <2>3. ASSUME NEW f \in Fibers, FiberStep(f) \/ Interrupt(f)
        PROVE  resets' = 0 /\ [Abstract!Next]_(<<permits, held>>)
    <3>1. resets' = resets
      BY <2>3 DEF FiberStep, WithPermits, WithPermitsIfAvailable, Take, Register, Enter,
                  Suspend, BodyEnds, GiveBack, Cancel, Interrupt, clients
    <3>2. QED BY <2>1, <2>3, <3>1, AcquireStep, FreedStep, OtherFiberStep DEF FiberStep
  <2>4. CASE Wake \/ Resize
    <3>1. resets' = resets
      BY <2>4 DEF Wake, StartWake, Visit, EndWake, Resize, clients
    <3>2. QED BY <2>1, <2>4, <3>1, TaskStep
  <2>5. ~ReleaseAll
    BY <2>1 DEF ReleaseAll
  <2>6. QED BY <2>1, <2>2, <2>3, <2>4, <2>5 DEF Next
<1> HIDE DEF NoReset
<1>3. QED BY <1>1, <1>2, SemaphoreInductive, PTL DEF Spec, ImplementsPermitPool, Abstract!Spec
============================================================================

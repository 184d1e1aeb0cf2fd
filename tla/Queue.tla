------------------------------- MODULE Queue -------------------------------
(***************************************************************************)
(* Queue.ts of the pinned Effect source: offer, take, takeBetween, end and   *)
(* shutdown with the three strategies. A value is the number of its offer.   *)
(*                                                                          *)
(* A resumed fiber runs inside the call that resumes it, so stack is the     *)
(* JavaScript stack: fibers, and the loops of releaseCapacity and            *)
(* releaseTakers that wait for the fiber they have resumed.                  *)
(***************************************************************************)
EXTENDS Integers, FiniteSetsExt, SequencesExt

CONSTANTS Producers, Consumers,  \* a fiber may be both
          Capacity, Strategy,    \* "suspend", "dropping" or "sliding"
          Least, Most,           \* the arguments of takeBetween; take: 1, 1
          MayYield, MayWithdraw, MayEnd, MayShutdown, MaxOffers, MaxTakes

\* What the constants have to satisfy.
QueueAssumption == /\ Capacity \in Nat /\ Strategy \in {"suspend", "dropping", "sliding"}
                   /\ Strategy = "sliding" => Capacity > 0
                   /\ {Least, Most} \subseteq Nat \ {0} /\ Least <= Most

VARIABLES messages, offers, takers, tag, capacity,   \* the fields of the queue
          scheduleRunning, releases,  \* and the release tasks scheduled
          place, hand,                \* where each fiber is; what it has taken
          waiting,                 \* the value each fiber waits to offer, or 0
          stack,
          last, taken, lost,       \* history: values offered, taken, and lost
          offered, takes           \* how often each fiber has called

Fibers == Producers \cup Consumers
scheduleVars == <<scheduleRunning, releases>>
fiberVars == <<place, hand, stack>>
history == <<last, taken, lost>>
calls == <<offered, takes>>
queueVars == <<messages, offers, waiting, takers, tag, capacity, scheduleVars, fiberVars, history, calls>>

Fiber(f) == [is |-> "fiber", of |-> f]
ReleaseLoop(n) == [is |-> "offers", n |-> n, entry |-> 0]
TakersLoop == [is |-> "takers", first |-> TRUE]

QueueInit == /\ messages = <<>> /\ offers = {} /\ waiting = [f \in Fibers |-> 0] /\ takers = <<>>
        /\ tag = "Open" /\ capacity = Capacity
        /\ scheduleRunning = FALSE /\ releases = 0
        /\ place = [f \in Fibers |-> "idle"] /\ hand = [f \in Fibers |-> <<>>]
        /\ stack = <<>> /\ last = 0 /\ taken = <<>> /\ lost = {}
        /\ offered = [f \in Fibers |-> 0] /\ takes = [f \in Fibers |-> 0]

\* f is on top of the stack, or starts a new one.
On(f) == IF stack = <<>> THEN <<Fiber(f)>> ELSE stack
Runs(f) == Last(On(f)) = Fiber(f)
Continues(f, p) == place' = [place EXCEPT ![f] = p] /\ stack' = On(f)
Leaves(f, p) == place' = [place EXCEPT ![f] = p] /\ stack' = Front(On(f))
Calls(f, p, loop) == place' = [place EXCEPT ![f] = p] /\ stack' = Append(On(f), loop)

ScheduleReleaseTaker ==
  LET needed == ~scheduleRunning /\ tag # "Done" /\ takers # <<>>
  IN scheduleRunning' = (scheduleRunning \/ needed) /\ releases' = IF needed THEN releases + 1 ELSE releases

\* Mutant: those who wait are not told.
FinalizeQuietly(p) == tag' = "Done" /\ takers' = takers /\ place' = p

\* finalize: whoever waits for a value is resumed with the exit.
Finalize(p) == /\ tag' = "Done" /\ takers' = <<>>
               /\ place' = [f \in Fibers |-> IF place[f] = "takeWaits" THEN "idle" ELSE p[f]]

--------------------------------------------------------------------------
NewValue == last' = last + 1 /\ UNCHANGED <<taken, lost>>

\* Mutant: the newest value goes.
Newest == Front(messages)
\* sliding: the oldest value goes.
Slid == Tail(messages)

OfferStays(f) == Continues(f, "idle") /\ UNCHANGED <<messages, scheduleVars, history>>

\* Mutant: a full queue takes one more value.
OfferPast(f) ==
  /\ f \in Producers /\ Runs(f) /\ place[f] = "idle" /\ offered[f] < MaxOffers
  /\ offered' = [offered EXCEPT ![f] = @ + 1]
  /\ \/ tag # "Open" /\ OfferStays(f)
     \/ /\ tag = "Open" /\ Len(messages) <= capacity /\ Continues(f, "idle") /\ NewValue
        /\ messages' = Append(messages, last') /\ ScheduleReleaseTaker
     \/ /\ tag = "Open" /\ Len(messages) > capacity /\ Strategy = "suspend"
        /\ Continues(f, "offering") /\ UNCHANGED <<messages, scheduleVars, history>>
  /\ UNCHANGED <<offers, waiting, takers, tag, capacity, hand, takes>>

\* offer, up to the callback of an offer that has to wait.
Offer(f) ==
  /\ f \in Producers /\ Runs(f) /\ place[f] = "idle" /\ offered[f] < MaxOffers
  /\ offered' = [offered EXCEPT ![f] = @ + 1]
  /\ \/ tag # "Open" /\ OfferStays(f)
     \/ /\ tag = "Open" /\ Len(messages) < capacity /\ Continues(f, "idle") /\ NewValue
        /\ messages' = Append(messages, last') /\ ScheduleReleaseTaker
     \/ /\ tag = "Open" /\ Len(messages) >= capacity
        /\ \/ Strategy = "dropping" /\ OfferStays(f)
           \/ /\ Strategy = "sliding" /\ Continues(f, "idle") /\ NewValue
              /\ messages' = Append(Slid, last') /\ UNCHANGED scheduleVars
           \/ /\ Strategy = "suspend" /\ capacity = 0 /\ takers # <<>>
              /\ Calls(f, "idle", TakersLoop) /\ scheduleRunning' = FALSE /\ NewValue
              /\ messages' = Append(messages, last') /\ UNCHANGED releases
           \/ /\ Strategy = "suspend" /\ ~(capacity = 0 /\ takers # <<>>)
              /\ Continues(f, "offering") /\ UNCHANGED <<messages, scheduleVars, history>>
  /\ UNCHANGED <<offers, waiting, takers, tag, capacity, hand, takes>>

\* offerRemainingSingle: the callback.
RegisterOffer(f) ==
  /\ Runs(f) /\ place[f] = "offering"
  /\ \/ tag # "Open" /\ Continues(f, "idle") /\ UNCHANGED <<offers, waiting, history>>
     \/ /\ tag = "Open" /\ Leaves(f, "offerWaits") /\ NewValue
        /\ offers' = offers \cup {last'} /\ waiting' = [waiting EXCEPT ![f] = last']
  /\ UNCHANGED <<messages, takers, tag, capacity, scheduleVars, hand, calls>>

--------------------------------------------------------------------------
\* releaseCapacity, as the last call of f before it goes on at p: a closing
\* queue without offers may end, waiting offers are let in one by one.
ReleaseCapacity(f, p, room) ==
  \/ /\ offers # {} /\ Calls(f, p, ReleaseLoop(room)) /\ UNCHANGED <<tag, takers>>
  \/ /\ offers = {} /\ tag = "Closing" /\ messages' = <<>>
     /\ Finalize([place EXCEPT ![f] = p]) /\ stack' = On(f)
  \/ /\ offers = {} /\ ~(tag = "Closing" /\ messages' = <<>>)
     /\ Continues(f, p) /\ UNCHANGED <<tag, takers>>

Takes(f, k) == /\ messages' = SubSeq(messages, k + 1, Len(messages))
               /\ hand' = [hand EXCEPT ![f] = SubSeq(messages, 1, k)]
               /\ taken' = taken \o SubSeq(messages, 1, k)

\* Mutant: what is taken from a full queue lets nobody in.
TakeNotReleasing(f, min) ==
  /\ tag # "Done" /\ ~(capacity = 0 /\ offers # {})
  /\ Min({min, Max({1, capacity})}) <= Len(messages)
  /\ Takes(f, Min({Most, Len(messages)})) /\ Continues(f, "took")
  /\ UNCHANGED <<tag, takers, capacity>>

\* takeBetweenUnsafe finds enough values.
TakeSome(f, min) ==
  /\ tag # "Done" /\ ~(capacity = 0 /\ offers # {})
  /\ Min({min, Max({1, capacity})}) <= Len(messages)
  /\ Takes(f, Min({Most, Len(messages)}))
  /\ ReleaseCapacity(f, "took", capacity - Len(messages'))
  /\ UNCHANGED capacity

\* take and takeBetween(min, Most): without capacity a waiting offer is let in
\* under a capacity of one; with too little to take the fiber goes on to wait.
TakeFrom(f, min) ==
  \/ tag = "Done" /\ Continues(f, "idle") /\ UNCHANGED <<messages, takers, tag, capacity, hand, taken>>
  \/ TakeSome(f, min)
  \/ /\ tag # "Done" /\ capacity = 0 /\ offers # {} /\ capacity' = 1
     /\ Calls(f, "rendezvous", ReleaseLoop(1 - Len(messages)))
     /\ UNCHANGED <<messages, takers, tag, hand, taken>>
  \/ /\ tag # "Done" /\ ~(capacity = 0 /\ offers # {})
     /\ Min({min, Max({1, capacity})}) > Len(messages)
     /\ Continues(f, "awaitTake") /\ UNCHANGED <<messages, takers, tag, capacity, hand, taken>>

Take(f) ==
  /\ f \in Consumers /\ Runs(f) /\ place[f] = "idle" /\ takes[f] < MaxTakes
  /\ takes' = [takes EXCEPT ![f] = @ + 1] /\ TakeFrom(f, Least)
  /\ UNCHANGED <<offers, waiting, scheduleVars, last, lost, offered>>

\* After awaitTake: takeBetween(1, Most), which is take again for take.
TakeAgain(f) ==
  /\ Runs(f) /\ place[f] = "woken" /\ TakeFrom(f, 1)
  /\ UNCHANGED <<offers, waiting, scheduleVars, last, lost, calls>>

\* takeBetweenUnsafe, after its first releaseCapacity: capacity is zero again.
TakeRendezvous(f) ==
  /\ Runs(f) /\ place[f] = "rendezvous"
  /\ capacity' = 0
  /\ Takes(f, Min({1, Len(messages)}))
  /\ ReleaseCapacity(f, "took", 0 - Len(messages'))
  /\ UNCHANGED <<offers, waiting, scheduleVars, last, lost, calls>>

\* awaitTake: the callback.
AwaitTake(f) ==
  /\ Runs(f) /\ place[f] = "awaitTake"
  /\ \/ tag = "Done" /\ Continues(f, "idle") /\ UNCHANGED takers
     \/ tag # "Done" /\ Leaves(f, "takeWaits") /\ takers' = Append(takers, f)
  /\ UNCHANGED <<messages, offers, waiting, tag, capacity, scheduleVars, hand, history, calls>>

\* The values reach the program of f.
Receive(f) ==
  /\ Runs(f) /\ place[f] = "took" /\ Continues(f, "idle") /\ hand' = [hand EXCEPT ![f] = <<>>]
  /\ UNCHANGED <<messages, offers, waiting, takers, tag, capacity, scheduleVars, history, calls>>

\* f waits for something else or ends; a yield is the same between primitives.
Suspend(f) ==
  /\ stack # <<>> /\ Last(stack) = Fiber(f) /\ place[f] # "rendezvous"
  /\ MayYield \/ place[f] \in {"idle", "defect"}
  /\ stack' = Front(stack)
  /\ UNCHANGED <<messages, offers, waiting, takers, tag, capacity, scheduleVars, place, hand, history, calls>>

--------------------------------------------------------------------------
\* Mutant: the latest offer is let in first.
LatestOffer(rest) == Max(rest)
NextOffer(rest) == Min(rest)

\* releaseCapacity's loop: the entry it has just resumed is deleted now; in a
\* queue that is done by now there is nothing to delete it from.
ReleaseOffer ==
  /\ stack # <<>> /\ Last(stack).is = "offers"
  /\ LET loop == Last(stack)
         rest == offers \ {loop.entry}
         below == stack[Len(stack) - 1].of
         e == NextOffer(rest)
         woken == {f \in Fibers : waiting[f] = e}
     IN \/ /\ tag = "Done" /\ loop.entry # 0
           /\ place' = [place EXCEPT ![below] = "defect"] /\ stack' = Front(stack)
           /\ UNCHANGED <<messages, offers, waiting>>
        \/ /\ tag # "Done" \/ loop.entry = 0
           /\ rest = {} \/ loop.n = 0
           /\ offers' = rest /\ stack' = Front(stack) /\ UNCHANGED <<messages, waiting, place>>
        \/ /\ tag # "Done" /\ rest # {} /\ loop.n # 0
           /\ offers' = rest /\ messages' = Append(messages, e)
           /\ stack' = Append(Front(stack), [loop EXCEPT !.n = @ - 1, !.entry = e])
                       \o SetToSeq({Fiber(f) : f \in woken})
           /\ place' = [f \in Fibers |-> IF f \in woken THEN "idle" ELSE place[f]]
           /\ waiting' = [f \in Fibers |-> IF f \in woken THEN 0 ELSE waiting[f]]
  /\ UNCHANGED <<takers, tag, capacity, scheduleVars, hand, history, calls>>

\* Mutant: the flag is never reset.
StartReleaseOnce ==
  /\ stack = <<>> /\ releases > 0
  /\ releases' = releases - 1 /\ stack' = <<TakersLoop>>
  /\ UNCHANGED <<messages, offers, waiting, takers, tag, capacity, scheduleRunning, place, hand, history, calls>>

StartRelease ==
  /\ stack = <<>> /\ releases > 0
  /\ releases' = releases - 1 /\ scheduleRunning' = FALSE /\ stack' = <<TakersLoop>>
  /\ UNCHANGED <<messages, offers, waiting, takers, tag, capacity, place, hand, history, calls>>

\* releaseTakers' loop: at least one, and more while there are values.
ReleaseTaker ==
  /\ stack # <<>> /\ Last(stack).is = "takers"
  /\ \/ /\ takers = <<>> \/ (messages = <<>> /\ ~Last(stack).first)
        /\ stack' = Front(stack) /\ UNCHANGED <<takers, place>>
     \/ /\ takers # <<>> /\ (messages # <<>> \/ Last(stack).first) /\ takers' = Tail(takers)
        /\ place' = [place EXCEPT ![Head(takers)] = "woken"]
        /\ stack' = Front(stack) \o <<[TakersLoop EXCEPT !.first = FALSE], Fiber(Head(takers))>>
  /\ UNCHANGED <<messages, offers, waiting, tag, capacity, scheduleVars, hand, history, calls>>

\* interruptUnsafe: what waits is withdrawn, an offer only while the queue is open.
InterruptFiber(f) ==
  /\ MayWithdraw /\ stack = <<>> /\ place[f] \notin {"idle", "defect"}
  /\ place' = [place EXCEPT ![f] = "idle"] /\ waiting' = [waiting EXCEPT ![f] = 0]
  /\ offers' = IF tag = "Open" THEN offers \ {waiting[f]} ELSE offers
  /\ \/ f \notin ToSet(takers) /\ UNCHANGED takers
     \/ \E i \in DOMAIN takers : takers[i] = f /\ takers' = RemoveAt(takers, i)
  /\ lost' = lost \cup ToSet(hand[f]) /\ hand' = [hand EXCEPT ![f] = <<>>]
  /\ UNCHANGED <<messages, tag, capacity, scheduleVars, stack, last, taken, calls>>

\* failCauseUnsafe: end, fail and interrupt.
End(f) ==
  /\ MayEnd /\ f \in Producers /\ Runs(f) /\ place[f] = "idle" /\ tag = "Open"
  /\ stack' = On(f)
  /\ IF offers = {} /\ messages = <<>> THEN Finalize(place)
     ELSE tag' = "Closing" /\ UNCHANGED <<takers, place>>
  /\ UNCHANGED <<messages, offers, waiting, capacity, scheduleVars, hand, history, calls>>

Shutdown(f) ==
  /\ MayShutdown /\ f \in Fibers /\ Runs(f) /\ place[f] = "idle" /\ tag # "Done"
  /\ stack' = On(f) /\ messages' = <<>> /\ offers' = {}
  /\ Finalize([g \in Fibers |-> IF place[g] = "offerWaits" THEN "idle" ELSE place[g]])
  /\ waiting' = [g \in Fibers |-> 0]
  /\ UNCHANGED <<capacity, scheduleVars, hand, history, calls>>

FiberStep(f) == \/ RegisterOffer(f) \/ TakeAgain(f) \/ TakeRendezvous(f)
                \/ AwaitTake(f) \/ Receive(f) \/ Suspend(f)
Loops == ReleaseOffer \/ StartRelease \/ ReleaseTaker

QueueNext == \/ \E f \in Fibers : Offer(f) \/ Take(f) \/ FiberStep(f)
                             \/ InterruptFiber(f) \/ End(f) \/ Shutdown(f)
        \/ Loops

QueueSpec == QueueInit /\ [][QueueNext]_queueVars
\* Tasks run and fibers go on; a fiber that is idle need not call anything.
QueueFairSpec == QueueSpec /\ WF_queueVars(Loops) /\ \A f \in Fibers : WF_queueVars(FiberStep(f))

--------------------------------------------------------------------------
(* Properties.                                                             *)

\* The values in the queue and those waiting to be let in, the entries that
\* a running releaseCapacity has let in and not yet deleted left out.
LetIn == {stack[i].entry : i \in {j \in DOMAIN stack : stack[j].is = "offers"}}
Promised == INSTANCE Fifo WITH content <- ToSet(messages) \cup (offers \ LetIn)

\* Values are handed over once each and in the order of the offers, and go
\* nowhere else unless withdrawn (Queue.ts:1346-1398, 1525-1542, 1885-1917).
ImplementsFifo == Promised!Spec

\* No value is handed over a second time: "hands each value to one consumer"
\* (Queue.ts:4).
NoneTwice == \A i, j \in DOMAIN taken : taken[i] = taken[j] => i = j

\* No taker waits for a value that is there, unless its wake-up is coming
\* (Queue.ts:1803-1823, 1919-1930).
NoStrandedTaker ==
  stack = <<>> /\ takers # <<>> /\ messages # <<>> => releases > 0

\* No offer waits while there is room (Queue.ts:1850-1863, 1885-1917).
NoStrandedOffer == stack = <<>> /\ offers # {} => Len(messages) >= Capacity

\* Between two turns of the event loop a queue holds no more than it may.
Bounded == stack = <<>> => Len(messages) <= Capacity

\* A take that waits while the queue is ended is answered: with a value or with
\* the queue's end (Queue.ts:924-939, 1948-1962).
EndedTakesEnd == \A f \in Fibers :
  (tag = "Closing" /\ place[f] = "takeWaits") ~> place[f] # "takeWaits"

\* "The operation waits when fewer than the required minimum messages are
\* available." (Queue.ts:1314)
MinimumKept == \A f \in Fibers : place[f] = "took" => Len(hand[f]) >= Least

\* A value taken reaches somebody: "hands each value to one consumer"
\* (Queue.ts:4).
NothingLost == lost = {}

\* No operation of the queue ends with an error of its own (Queue.ts:1899-1905).
NoDefect == \A f \in Fibers : place[f] # "defect"

\* Values are handed over in the order of their offers, and so once each: "hands each
\* value to one consumer in offer order" (Queue.ts:4-5).
Ordered == \A i, j \in DOMAIN taken : i < j => taken[i] < taken[j]

\* Fibers that are not interrupted by others between two primitives, each of which
\* only offers or only takes, and lets in one offer at a time.
Tame == ~MayYield /\ (Most = 1 \/ Capacity <= 1) /\ Producers \cap Consumers = {}

\* What a queue keeps between any two turns of the event loop: the order, its bound, and
\* nobody waits for what is there (Queue.ts:640-690, 1803-1863, 1885-1930).
QueueSafe == /\ Tame \/ Strategy # "suspend" => Ordered /\ Bounded
             /\ Tame => NoStrandedTaker /\ NoStrandedOffer
===========================================================================

----------------------------- MODULE Semaphore -----------------------------
(***************************************************************************)
(* Semaphore.ts of the pinned Effect source: SemaphoreImpl, used by fibers  *)
(* that run withPermits(Need[f]) or withPermitsIfAvailable(Need[f]).        *)
(*                                                                          *)
(* JavaScript runs one thing at a time. running is the fiber on the stack;  *)
(* cursor is the position of a wake-up task in the Set of waiters, 0 when    *)
(* no task is on the stack. A fiber loses the stack when it suspends, when  *)
(* it ends and, with MayYield, between any two primitives of its program:   *)
(* FiberImpl.runLoop asks the scheduler before each (effect.ts:630-639).    *)
(***************************************************************************)
EXTENDS Integers, Sequences, FiniteSetsExt, SequencesExt

CONSTANTS Fibers, Need,       \* the permits each fiber asks for
          IfAvailable,        \* the fibers that use withPermitsIfAvailable
          Sizes,              \* the sizes make and resize are called with
          Nobody, MayYield, MaxRounds, MaxResizes, MaxReleaseAlls

\* What the constants have to satisfy.
SemaphoreAssumption == /\ IsFiniteSet(Fibers)
                       /\ Need \in [Fibers -> Nat]
                       /\ IfAvailable \subseteq Fibers
                       /\ Sizes \subseteq Nat
                       /\ MayYield \in BOOLEAN
                       /\ Nobody \notin Fibers

VARIABLES permits, taken, waiters,   \* the fields of SemaphoreImpl
          pc,        \* where each fiber is in withPermits
          running, cursor,
          tasks,     \* wake-up tasks scheduled and not started
          rounds, resizes, resets    \* bounds on what clients do

clients == <<rounds, resizes, resets>>
vars == <<permits, taken, waiters, pc, running, cursor, tasks, clients>>

free == permits - taken

Init == /\ permits \in Sizes /\ taken = 0 /\ waiters = <<>>
        /\ pc = [f \in Fibers |-> "idle"]
        /\ running = Nobody /\ cursor = 0 /\ tasks = 0
        /\ rounds = [f \in Fibers |-> 0] /\ resizes = 0 /\ resets = 0

\* f executes its next primitive: it is on the stack, or nothing is.
Runs(f) == running = f \/ (running = Nobody /\ cursor = 0)
Goes(f, to) == pc' = [pc EXCEPT ![f] = to] /\ running' = f
Leaves(f, to) == pc' = [pc EXCEPT ![f] = to] /\ running' = Nobody

\* waiters.delete(observer): a Set iterator in progress does not skip anyone.
Forget(f) ==
  LET at == SelectInSeq(waiters, LAMBDA w : w = f)
  IN /\ waiters' = IF at = 0 THEN waiters ELSE RemoveAt(waiters, at)
     /\ cursor' = IF at # 0 /\ at < cursor THEN cursor - 1 ELSE cursor

\* updateTakenUnsafe: a wake-up is scheduled when somebody waits.
UpdateTaken(n) == /\ taken' = n
                  /\ tasks' = IF waiters # <<>> THEN tasks + 1 ELSE tasks

--------------------------------------------------------------------------
\* withPermits(n)(self): uninterruptibleMask, then restore(this.take(n)).
WithPermits(f) ==
  /\ f \notin IfAvailable
  /\ Runs(f) /\ pc[f] = "idle" /\ rounds[f] < MaxRounds
  /\ rounds' = [rounds EXCEPT ![f] = @ + 1]
  /\ Goes(f, "take")
  /\ UNCHANGED <<permits, taken, waiters, cursor, tasks, resizes, resets>>

\* withPermitsIfAvailable checks and takes in one synchronous function.
WithPermitsIfAvailable(f) ==
  /\ f \in IfAvailable
  /\ Runs(f) /\ pc[f] = "idle" /\ rounds[f] < MaxRounds
  /\ rounds' = [rounds EXCEPT ![f] = @ + 1]
  /\ IF free < Need[f] THEN Goes(f, "idle") /\ UNCHANGED taken
                       ELSE Goes(f, "body") /\ taken' = taken + Need[f]
  /\ UNCHANGED <<permits, waiters, cursor, tasks, resizes, resets>>

\* Mutant: one free permit lets a fiber in, whatever it asks for.
TakeAny(f) ==
  /\ Runs(f) /\ pc[f] = "take"
  /\ IF free < 1 THEN Goes(f, "register") /\ UNCHANGED taken
                 ELSE Goes(f, "granted") /\ taken' = taken + Need[f]
  /\ UNCHANGED <<permits, waiters, cursor, tasks, clients>>

\* take: the suspended function takes the permits, or goes on to the callback.
Take(f) ==
  /\ Runs(f) /\ pc[f] = "take"
  /\ IF free < Need[f] THEN Goes(f, "register") /\ UNCHANGED taken
                       ELSE Goes(f, "granted") /\ taken' = taken + Need[f]
  /\ UNCHANGED <<permits, waiters, cursor, tasks, clients>>

\* Mutant: the callback does not ask again.
RegisterBlindly(f) ==
  /\ Runs(f) /\ pc[f] = "register"
  /\ Leaves(f, "waiting") /\ waiters' = Append(waiters, f)
  /\ UNCHANGED <<permits, taken, cursor, tasks, clients>>

\* take: the callback asks once more, then adds its observer to the waiters.
Register(f) ==
  /\ Runs(f) /\ pc[f] = "register"
  /\ IF free >= Need[f] THEN Goes(f, "take") /\ UNCHANGED waiters
                        ELSE Leaves(f, "waiting") /\ waiters' = Append(waiters, f)
  /\ UNCHANGED <<permits, taken, cursor, tasks, clients>>

\* succeed(n) leaves the interruptible region: onExitPrimitive is installed.
Enter(f) ==
  /\ Runs(f) /\ pc[f] = "granted"
  /\ Goes(f, "body")
  /\ UNCHANGED <<permits, taken, waiters, cursor, tasks, clients>>

\* self suspends, and goes on later; a yield is the same between primitives.
Suspend(f) ==
  /\ running = f /\ (MayYield \/ pc[f] \in {"idle", "body"})
  /\ running' = Nobody
  /\ UNCHANGED <<permits, taken, waiters, pc, cursor, tasks, clients>>

\* self ends; the finalizer of onExitPrimitive gives the permits back.
BodyEnds(f) ==
  /\ Runs(f) /\ pc[f] = "body"
  /\ Goes(f, "exit")
  /\ UNCHANGED <<permits, taken, waiters, cursor, tasks, clients>>

GiveBack(f) ==
  /\ Runs(f) /\ pc[f] = "exit"
  /\ UpdateTaken(taken - Need[f])
  /\ Goes(f, "idle")
  /\ UNCHANGED <<permits, waiters, cursor, clients>>

\* Mutant: an interrupted body skips the finalizer.
InterruptBody(f) ==
  /\ running = Nobody
  /\ \/ pc[f] \in {"take", "register", "granted", "body"} /\ Goes(f, "idle")
     \/ pc[f] = "waiting" /\ Goes(f, "cancelled")
  /\ UNCHANGED <<permits, taken, waiters, cursor, tasks, clients>>

\* interruptUnsafe: in an interruptible region the fiber unwinds at once.
Interrupt(f) ==
  /\ running = Nobody
  /\ \/ pc[f] \in {"take", "register", "granted"} /\ Goes(f, "idle")
     \/ pc[f] = "waiting" /\ Goes(f, "cancelled")
     \/ pc[f] = "body" /\ Goes(f, "exit")
  /\ UNCHANGED <<permits, taken, waiters, cursor, tasks, clients>>

\* The callback's onCancel: sync(() => waiters.delete(observer)).
Cancel(f) ==
  /\ Runs(f) /\ pc[f] = "cancelled"
  /\ Forget(f) /\ Goes(f, "idle")
  /\ UNCHANGED <<permits, taken, tasks, clients>>

--------------------------------------------------------------------------
\* The scheduler starts a wake-up task.
StartWake ==
  /\ running = Nobody /\ cursor = 0 /\ tasks > 0
  /\ tasks' = tasks - 1 /\ cursor' = 1
  /\ UNCHANGED <<permits, taken, waiters, pc, running, clients>>

\* Mutant: the task stops at the first waiter that asks for too much.
VisitInOrder ==
  /\ running = Nobody /\ cursor = 1 /\ waiters # <<>> /\ free > 0
  /\ LET w == waiters[1]
     IN IF free < Need[w]
        THEN cursor' = 0 /\ UNCHANGED <<waiters, pc, running>>
        ELSE /\ waiters' = RemoveAt(waiters, 1)
             /\ IF pc[w] = "waiting" THEN Goes(w, "take")
                                     ELSE UNCHANGED <<pc, running>>
             /\ UNCHANGED cursor
  /\ UNCHANGED <<permits, taken, tasks, clients>>

\* The task calls the next observer. One that is served leaves the Set and its
\* fiber runs within the call, unless it has been interrupted in the meantime.
Visit ==
  /\ running = Nobody /\ cursor > 0 /\ cursor <= Len(waiters) /\ free > 0
  /\ LET w == waiters[cursor]
     IN IF free < Need[w]
        THEN cursor' = cursor + 1 /\ UNCHANGED <<waiters, pc, running>>
        ELSE /\ waiters' = RemoveAt(waiters, cursor)
             /\ IF pc[w] = "waiting" THEN Goes(w, "take")
                                     ELSE UNCHANGED <<pc, running>>
             /\ UNCHANGED cursor
  /\ UNCHANGED <<permits, taken, tasks, clients>>

EndWake ==
  /\ running = Nobody /\ cursor > 0
  /\ cursor > Len(waiters) \/ free <= 0
  /\ cursor' = 0
  /\ UNCHANGED <<permits, taken, waiters, pc, running, tasks, clients>>

\* resize: nobody is woken while more permits are taken than there are.
Resize ==
  /\ running = Nobody /\ cursor = 0 /\ resizes < MaxResizes
  /\ resizes' = resizes + 1
  /\ \E size \in Sizes :
       /\ permits' = size
       /\ IF size - taken < 0 THEN UNCHANGED <<taken, tasks>>
                              ELSE UpdateTaken(taken)
  /\ UNCHANGED <<waiters, pc, running, cursor, rounds, resets>>

ReleaseAll ==
  /\ running = Nobody /\ cursor = 0 /\ resets < MaxReleaseAlls
  /\ resets' = resets + 1
  /\ UpdateTaken(0)
  /\ UNCHANGED <<permits, waiters, pc, running, cursor, rounds, resizes>>

FiberStep(f) == \/ WithPermits(f) \/ WithPermitsIfAvailable(f)
                \/ Take(f) \/ Register(f) \/ Enter(f) \/ Suspend(f)
                \/ BodyEnds(f) \/ GiveBack(f) \/ Cancel(f)
Wake == StartWake \/ Visit \/ EndWake

Next == \/ \E f \in Fibers : FiberStep(f) \/ Interrupt(f)
        \/ Wake \/ Resize \/ ReleaseAll

Spec == Init /\ [][Next]_vars

\* Fibers run and scheduled tasks start; nobody has to interrupt or resize.
FairSpec == Spec /\ WF_vars(Wake) /\ \A f \in Fibers : WF_vars(FiberStep(f))

--------------------------------------------------------------------------
(* Properties.                                                             *)

\* The state stays well formed: permits, the Set of waiters without
\* repetition, and a cursor within it (Semaphore.ts:193-196).
TypeOK ==
  /\ permits \in Sizes /\ taken \in Int
  /\ waiters \in Seq(Fibers) /\ IsInjective(waiters)
  /\ pc \in [Fibers -> {"idle", "take", "register", "waiting", "cancelled",
                        "granted", "body", "exit"}]
  /\ running \in Fibers \cup {Nobody}
  /\ cursor \in 0 .. Len(waiters) + 1 /\ tasks \in Nat
  /\ \A f \in Fibers : pc[f] = "waiting" => f \in ToSet(waiters)

held == [f \in Fibers |-> IF pc[f] \in {"granted", "body", "exit"} THEN Need[f] ELSE 0]

\* What is taken is what the fibers inside hold, whoever was interrupted and
\* whenever: withPermits neither loses nor invents a permit (263-293).
PermitsConserved == taken = MapThenSumSet(LAMBDA f : held[f], Fibers)

\* No lost wake-up: as long as a waiter could be served, a task that has not
\* passed it by is scheduled or running (take 205-225, updateTakenUnsafe 227-240).
NoStrandedWaiter ==
  \A i \in 1 .. Len(waiters) :
    Need[waiters[i]] <= free => tasks > 0 \/ (cursor > 0 /\ cursor <= i)

\* What a semaphore keeps, whatever its clients do: no more is held than is
\* counted, and exactly that if fibers do not lose the stack with a result in
\* hand; nobody who asks for something sleeps on what is free. releaseAll
\* drops the count while fibers still hold what they took (202-293).
SemaphoreSafe ==
  /\ resets = 0 => MapThenSumSet(LAMBDA f : held[f], Fibers) <= taken
  /\ ~MayYield /\ resets = 0 => PermitsConserved
  /\ (\A f \in Fibers : Need[f] > 0) => NoStrandedWaiter

\* A waiter that asks for no more than the semaphore owns is served or
\* interrupted in the end, also when it is passed over (205-240, 246-253).
EveryWaiterServed ==
  \A f \in Fibers : [](pc[f] = "waiting" => <>(pc[f] # "waiting" \/ permits < Need[f]))

\* A Semaphore is a PermitPool: nobody is let in beyond the permits, though
\* the permits are counted in one number and given back later (202-293).
Abstract == INSTANCE PermitPool WITH held <- held
ImplementsPermitPool == Abstract!Spec

\* "those permits are returned when the work finishes" (Semaphore.ts:5-6)
AllReturned == (\A f \in Fibers : pc[f] = "idle") => taken = 0

\* "Concurrent pending take calls are processed in a first-in, first-out
\* manner" (Semaphore.ts:123)
FirstInFirstOut ==
  [][\A f \in Fibers : pc[f] = "waiting" /\ pc'[f] = "take" => f = Head(waiters)]_vars
==========================================================================

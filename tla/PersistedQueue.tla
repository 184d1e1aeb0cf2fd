--------------------------- MODULE PersistedQueue ---------------------------
(***************************************************************************)
(* PersistedQueue.ts over its SQL store: a table of items with locks, and in   *)
(* every worker (one makeStoreSql in one process) a loop that polls the table  *)
(* for as many items as there are takers and hands them over by a mailbox.     *)
(*                                                                          *)
(* elementIds (936) is never added to, so refreshLocks (937-944) never runs    *)
(* and has no action here: a lock is as old as its acquisition.               *)
(***************************************************************************)
EXTENDS Integers, Sequences, SequencesExt

CONSTANTS Items, Workers, Consumers, Nobody, None,
          Home,           \* the worker each consumer belongs to
          Bad,            \* items the schema cannot decode
          MaxAttempts, Expiration,
          Long,           \* handlers and waiting items may outlive their lock
          Yields,         \* the runtime may yield after Queue.take
          MaxFaults       \* interrupted consumers, failing statements, crashes

\* What the constants have to satisfy.
PersistedQueueAssumption ==
  /\ Home \in [Consumers -> Workers] /\ Nobody \notin Workers /\ None \notin Items
  /\ Bad \subseteq Items /\ {MaxAttempts, Expiration} \subseteq Nat \ {0}
  /\ {Long, Yields} \subseteq BOOLEAN

VARIABLES rows,           \* the table: completed, attempts, acquired_by, age of acquired_at
          order,          \* its items by updated_at
          mailbox, takers, pollLatch, takenLatch,
          poll,           \* the polling loop: [at, size, items]
          pc, held,       \* consumers, and the item each has taken
          faults

tableVars == <<rows, order>>
local == <<mailbox, takers, pollLatch, takenLatch, poll>>
fibers == <<pc, held>>
storeVars == <<tableVars, local, fibers, faults>>

Ready == [at |-> "ready", size |-> 0, items |-> <<>>]
StoreInit ==
  /\ rows = [i \in Items |-> [completed |-> FALSE, attempts |-> 0, by |-> Nobody, age |-> 0]]
  /\ order = <<>>
  /\ mailbox = [w \in Workers |-> <<>>] /\ takers = [w \in Workers |-> 0]
  /\ pollLatch = [w \in Workers |-> FALSE] /\ takenLatch = [w \in Workers |-> FALSE]
  /\ poll = [w \in Workers |-> Ready]
  /\ pc = [c \in Consumers |-> "idle"]
  /\ held = [c \in Consumers |-> [id |-> None, attempts |-> 0]]
  /\ faults = 0

Offered == {order[n] : n \in DOMAIN order}
Crew(w) == {c \in Consumers : Home[c] = w}
Freed(r) == [r EXCEPT !.by = Nobody, !.age = 0]
Fault == faults < MaxFaults /\ faults' = faults + 1

--------------------------------------------------------------------------
\* offer: an id is inserted once.
Offer(i) == /\ i \notin Offered /\ order' = Append(order, i)
            /\ UNCHANGED <<rows, local, fibers, faults>>

\* take: one more taker; the first one starts the polling.
Take(c) ==
  LET w == Home[c]
  IN /\ pc[c] = "idle" /\ pc' = [pc EXCEPT ![c] = "waiting"]
     /\ takers' = [takers EXCEPT ![w] = @ + 1]
     /\ pollLatch' = [pollLatch EXCEPT ![w] = @ \/ takers[w] = 0]
     /\ UNCHANGED <<tableVars, mailbox, takenLatch, poll, held, faults>>

PollAsked(w) ==
  /\ poll[w].at = "ready" /\ pollLatch[w] /\ takers[w] > 0
  /\ poll' = [poll EXCEPT ![w] = [at |-> "asked", size |-> takers[w], items |-> <<>>]]
  /\ UNCHANGED <<tableVars, mailbox, takers, pollLatch, takenLatch, fibers, faults>>

\* Mutant: a lock keeps nobody away.
Unlocked(i) == FALSE
\* An item somebody has acquired, not too long ago.
Locked(i) == rows[i].by # Nobody /\ rows[i].age < Expiration
Available(i) == ~rows[i].completed /\ ~Locked(i) /\ rows[i].attempts < MaxAttempts

\* ORDER BY updated_at LIMIT size: where the oldest items to be had stand in order.
Oldest(size) ==
  LET ready == {n \in DOMAIN order : Available(order[n])}
  IN {at \in UNION {[1 .. k -> ready] : k \in 0 .. size} :
        /\ \A m, n \in DOMAIN at : m < n => at[m] < at[n]
        /\ \A r \in ready \ Range(at) : Len(at) = size /\ \A n \in DOMAIN at : at[n] < r}

PollRuns(w) ==
  /\ poll[w].at = "asked"
  /\ \E at \in Oldest(poll[w].size) :
       LET ids == [n \in DOMAIN at |-> order[at[n]]]
       IN /\ rows' = [i \in Items |-> IF i \in Range(ids) THEN [rows[i] EXCEPT !.by = w, !.age = 0] ELSE rows[i]]
          /\ poll' = [poll EXCEPT ![w].at = "answered",
                        ![w].items = [n \in DOMAIN ids |-> [id |-> ids[n], attempts |-> rows[ids[n]].attempts]]]
  /\ UNCHANGED <<order, mailbox, takers, pollLatch, takenLatch, fibers, faults>>

\* The loop sleeps after an empty answer, else waits until its items are taken.
PollAnswered(w) ==
  /\ poll[w].at = "answered"
  /\ mailbox' = [mailbox EXCEPT ![w] = @ \o poll[w].items]
  /\ IF poll[w].items = <<>> THEN poll' = [poll EXCEPT ![w] = Ready] /\ UNCHANGED takenLatch
     ELSE /\ poll' = [poll EXCEPT ![w] = [Ready EXCEPT !.at = "offered"]]
          /\ takenLatch' = [takenLatch EXCEPT ![w] = FALSE]
  /\ UNCHANGED <<tableVars, takers, pollLatch, fibers, faults>>

PollGoesOn(w) ==
  /\ poll[w].at = "offered" /\ takenLatch[w] /\ poll' = [poll EXCEPT ![w] = Ready]
  /\ UNCHANGED <<tableVars, mailbox, takers, pollLatch, takenLatch, fibers, faults>>

\* Queue.take has a value.
Receive(c) ==
  LET w == Home[c]
  IN /\ pc[c] = "waiting" /\ mailbox[w] # <<>> /\ pc' = [pc EXCEPT ![c] = "taken"]
     /\ held' = [held EXCEPT ![c] = Head(mailbox[w])] /\ mailbox' = [mailbox EXCEPT ![w] = Tail(@)]
     /\ UNCHANGED <<tableVars, takers, pollLatch, takenLatch, poll, faults>>

AllTaken(w, n) == n = 0 \/ mailbox[w] = <<>>

\* One taker less. The handler is called, unless the item cannot be decoded: then
\* the take fails and its scope is left open, with its finalizer.
Started(c) ==
  LET w == Home[c]
      n == takers[w] - 1
  IN /\ pc[c] = "taken" /\ takers' = [takers EXCEPT ![w] = n]
     /\ pollLatch' = [pollLatch EXCEPT ![w] = @ /\ n # 0]
     /\ takenLatch' = [takenLatch EXCEPT ![w] = @ \/ AllTaken(w, n)]
     /\ pc' = [pc EXCEPT ![c] = IF held[c].id \in Bad THEN "idle" ELSE "running"]
     /\ UNCHANGED <<tableVars, mailbox, poll, held, faults>>

--------------------------------------------------------------------------
\* The finalizers change the row only if this worker still has it.
Settle(c, row) ==
  LET i == held[c].id
  IN /\ pc[c] = "running" /\ pc' = [pc EXCEPT ![c] = "idle"]
     /\ rows' = IF rows[i].by = Home[c] THEN [rows EXCEPT ![i] = row] ELSE rows
     /\ UNCHANGED <<local, held>>
Moved(i) == \E n \in DOMAIN order : order[n] = i /\ order' = Append(RemoveAt(order, n), i)
Retried(c) == [Freed(rows[held[c].id]) EXCEPT !.attempts = held[c].attempts + 1]

\* Mutant: a failed attempt does not count.
RetryForFree(c) == Settle(c, Freed(rows[held[c].id])) /\ Moved(held[c].id) /\ UNCHANGED faults
Complete(c) == /\ Settle(c, [Retried(c) EXCEPT !.completed = TRUE])
               /\ Moved(held[c].id) /\ UNCHANGED faults
Retry(c) == Settle(c, Retried(c)) /\ Moved(held[c].id) /\ UNCHANGED faults
Interrupt(c) == Fault /\ Settle(c, Freed(rows[held[c].id])) /\ UNCHANGED order
\* Six attempts to say so have failed.
EndUnsaid(c) == Fault /\ Settle(c, rows[held[c].id]) /\ UNCHANGED order

\* An interrupted take leaves takers as it is.
InterruptTake(c) ==
  /\ Fault /\ pc[c] \in {"waiting"} \cup (IF Yields THEN {"taken"} ELSE {})
  /\ pc' = [pc EXCEPT ![c] = "idle"] /\ UNCHANGED <<tableVars, local, held>>

\* A mailbox nobody has used for a while is given up, with the items in it.
Reset(w) ==
  /\ mailbox' = [mailbox EXCEPT ![w] = <<>>] /\ takers' = [takers EXCEPT ![w] = 0]
  /\ pollLatch' = [pollLatch EXCEPT ![w] = FALSE] /\ takenLatch' = [takenLatch EXCEPT ![w] = FALSE]
  /\ poll' = [poll EXCEPT ![w] = Ready]
InMailbox(w, i) == \E n \in DOMAIN mailbox[w] : mailbox[w][n].id = i

\* Mutant: everything the worker has locked is given back.
IdleFreesAll(w) ==
  /\ \A c \in Crew(w) : pc[c] \notin {"waiting", "taken"}
  /\ Reset(w)
  /\ rows' = [i \in Items |-> IF rows[i].by = w THEN Freed(rows[i]) ELSE rows[i]]
  /\ UNCHANGED <<order, fibers, faults>>
Idle(w) ==
  /\ \A c \in Crew(w) : pc[c] \notin {"waiting", "taken"}
  /\ Reset(w)
  /\ rows' = [i \in Items |-> IF InMailbox(w, i) /\ rows[i].by = w THEN Freed(rows[i]) ELSE rows[i]]
  /\ UNCHANGED <<order, fibers, faults>>

\* The process is killed and started again, with another workerId.
Crash(w) ==
  /\ Fault /\ Reset(w) /\ UNCHANGED tableVars
  /\ pc' = [c \in Consumers |-> IF Home[c] = w THEN "idle" ELSE pc[c]] /\ UNCHANGED held

Using(w, i) == \/ InMailbox(w, i) \/ (\E n \in DOMAIN poll[w].items : poll[w].items[n].id = i)
               \/ \E c \in Crew(w) : pc[c] \in {"taken", "running"} /\ held[c].id = i
Older(r) == [r EXCEPT !.age = IF r.by # Nobody /\ @ < Expiration THEN @ + 1 ELSE @]
LocksAge ==
  /\ Long \/ \A i \in Items : rows[i].by # Nobody /\ Using(rows[i].by, i) => rows[i].age + 1 < Expiration
  /\ rows' = [i \in Items |-> Older(rows[i])]
  /\ UNCHANGED <<order, local, fibers, faults>>

Polls(w) == PollAsked(w) \/ PollRuns(w) \/ PollAnswered(w) \/ PollGoesOn(w)
Ends(c) == Complete(c) \/ Retry(c)
StoreNext == \/ \E i \in Items : Offer(i)
             \/ \E w \in Workers : Polls(w) \/ Idle(w) \/ Crash(w)
             \/ \E c \in Consumers : \/ Take(c) \/ Receive(c) \/ Started(c) \/ Ends(c)
                                     \/ Interrupt(c) \/ EndUnsaid(c) \/ InterruptTake(c)
             \/ LocksAge

StoreSpec == StoreInit /\ [][StoreNext]_storeVars
\* Polls are answered, consumers take again and again, handlers end, time passes.
StoreFairSpec ==
  /\ StoreSpec /\ WF_storeVars(LocksAge)
  /\ \A w \in Workers : WF_storeVars(Polls(w)) /\ WF_storeVars(Idle(w))
  /\ \A c \in Consumers : /\ WF_storeVars(Take(c)) /\ WF_storeVars(Receive(c))
                         /\ WF_storeVars(Started(c)) /\ WF_storeVars(Ends(c))

--------------------------------------------------------------------------
(* Properties.                                                             *)

Settled(i) == rows[i].completed \/ rows[i].attempts >= MaxAttempts
Running(i) == {c \in Consumers : pc[c] = "running" /\ held[c].id = i}

\* Each item is worked on by one consumer at a time and not after it is done
\* (PersistedQueue.ts:172-186, 1028-1099, 1139-1170).
Promise == INSTANCE WorkQueue WITH offered <- Offered, settled <- {i \in Items : Settled(i)},
                                   workers <- [i \in Items |-> Running(i)]
ImplementsWorkQueue == Promise!Spec

\* "refreshes active locks while scoped takes are running"
\* (PersistedQueue.ts:749-750): what is worked on is locked.
LocksHeld == \A c \in Consumers : pc[c] = "running" => rows[held[c].id].by = Home[c]

\* "marking it complete on success or retrying it until the maximum attempts is
\* reached" (PersistedQueue.ts:56-57): every item is settled in the end.
StoredItemsSettle == \A i \in Items : i \in Offered ~> Settled(i)

\* "workers take one value at a time" (PersistedQueue.ts:5-6): a worker keeps no
\* more items from the others than it has consumers.
NoHoarding == \A w \in Workers :
  Len(mailbox[w]) + Cardinality({c \in Crew(w) : pc[c] = "running"}) <= Cardinality(Crew(w))
===========================================================================

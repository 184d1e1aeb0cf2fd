------------------------- MODULE PersistedRequests -------------------------
(***************************************************************************)
(* RequestResolver.persisted: the runAll that answers a batch from a store     *)
(* (Persistence), resolves the rest and writes it back. Several batches of the *)
(* same requests, of this process or of another, are at it at once.           *)
(***************************************************************************)
EXTENDS FiniteSets

CONSTANTS Persisted, Calls,         \* requests by primary key, calls of runAll
          Nothing, Unreadable,     \* no result, one that does not decode
          Transient,               \* requests and kinds of exit that timeToLive does not store
          Fails,                   \* the resolver of a batch may fail
          Slow                     \* a result may be removed after the next save

ResolvedBy(b) == <<"value", b>>
FailureOf(b) == <<"failure", b>>
Old == <<"value", "before">>       \* what the store has to begin with
Exits == {Old} \cup UNION {{ResolvedBy(b), FailureOf(b)} : b \in Calls}

\* What the constants have to satisfy.
PersistedRequestsAssumption ==
  /\ {Fails, Slow} \subseteq BOOLEAN /\ "before" \notin Calls
  /\ Nothing # Unreadable /\ {Nothing, Unreadable} \cap (Exits \cup {<<"defect">>}) = {}

VARIABLES stored,
          removing,      \* removals that are forked: of which batch, of what
          turn,          \* batches: "begin", "resolve", "save", "end", "failed"
          given,         \* the answer of each entry
          leftover, toPersist,
          resolved       \* history: what the resolver of a batch completed

persistedVars == <<stored, removing, turn, given, leftover, toPersist, resolved>>

Readable(x) == x \notin {Nothing, Unreadable}
Stores(e, x) == x # Nothing /\ <<e, x[1]>> \notin Transient
Unanswered == [e \in Persisted |-> Nothing]

PersistedInit ==
  /\ stored \in [Persisted -> {Nothing, Unreadable, Old}]
  /\ \A e \in Persisted : stored[e] = Old => Stores(e, Old)
  /\ removing = {} /\ turn = [b \in Calls |-> "begin"] /\ resolved = {}
  /\ given = [b \in Calls |-> Unanswered] /\ toPersist = [b \in Calls |-> Unanswered]
  /\ leftover = [b \in Calls |-> {}]

\* getMany: a result is the answer, and what does not decode is as if it were not there
\* and its removal is forked. staleWhileRevalidate chooses what is resolved again: the
\* wrapper of its completeUnsafe takes the result that is there as one to persist.
Load(b) ==
  /\ turn[b] = "begin"
  /\ LET found == {e \in Persisted : Readable(stored[e])}
     IN \E stale \in SUBSET found :
          /\ leftover' = [leftover EXCEPT ![b] = (Persisted \ found) \cup stale]
          /\ given' = [given EXCEPT ![b] = [e \in Persisted |-> IF e \in found THEN stored[e] ELSE Nothing]]
          /\ toPersist' = [toPersist EXCEPT ![b] = [e \in Persisted |-> IF e \in stale THEN stored[e] ELSE Nothing]]
          /\ turn' = [turn EXCEPT ![b] = IF leftover'[b] = {} THEN "end" ELSE "resolve"]
  /\ removing' = removing \cup {<<b, e>> : e \in {d \in Persisted : stored[d] = Unreadable}}
  /\ UNCHANGED <<stored, resolved>>

\* The batch fails: who has no answer gets its failure (internal/request.ts).
Unmet(b, x) == given' = [given EXCEPT ![b] = [e \in Persisted |-> IF given[b][e] = Nothing THEN x ELSE given[b][e]]]
FailLoad(b) == /\ turn[b] = "begin" /\ turn' = [turn EXCEPT ![b] = "failed"] /\ Unmet(b, FailureOf(b))
               /\ UNCHANGED <<stored, removing, leftover, toPersist, resolved>>

\* The resolver completes an entry: the exit is to be persisted, and is the answer if
\* there is none.
Resolve(b, e) ==
  /\ turn[b] = "resolve" /\ e \in leftover[b] /\ <<b, e>> \notin resolved
  /\ resolved' = resolved \cup {<<b, e>>}
  /\ toPersist' = [toPersist EXCEPT ![b][e] = ResolvedBy(b)]
  /\ given' = [given EXCEPT ![b][e] = IF @ = Nothing THEN ResolvedBy(b) ELSE @]
  /\ UNCHANGED <<stored, removing, turn, leftover>>

\* It need not complete all of them.
Succeed(b) == /\ turn[b] = "resolve" /\ turn' = [turn EXCEPT ![b] = "save"]
              /\ UNCHANGED <<stored, removing, given, leftover, toPersist, resolved>>

\* catchCause: the entries in toPersist are completed with the failure, and only those.
\* They all have an answer.
FailResolver(b) ==
  /\ Fails /\ turn[b] = "resolve" /\ turn' = [turn EXCEPT ![b] = "save"]
  /\ toPersist' = [toPersist EXCEPT ![b] =
       [e \in Persisted |-> IF toPersist[b][e] = Nothing THEN Nothing ELSE FailureOf(b)]]
  /\ UNCHANGED <<stored, removing, given, leftover, resolved>>

\* Mutant: the whole map replaces the store.
SaveOnly(S, b) == stored' = toPersist[b]
\* Mutant: a result that is there is not replaced.
SaveMissing(S, b) == stored' = [e \in Persisted |-> IF e \in S /\ ~Readable(stored[e]) THEN toPersist[b][e] ELSE stored[e]]
\* Mutant: only the results that are there are replaced.
SaveStale(S, b) == stored' = [e \in Persisted |-> IF e \in S /\ Readable(stored[e]) THEN toPersist[b][e] ELSE stored[e]]
SaveAll(S, b) == stored' = [e \in Persisted |-> IF e \in S THEN toPersist[b][e] ELSE stored[e]]

\* setMany, without the exits of no time to live; what is completed by nobody gets
\* the defect of its batch.
ToStore(b) == {e \in Persisted : Stores(e, toPersist[b][e])}
Save(b) == /\ turn[b] = "save" /\ turn' = [turn EXCEPT ![b] = "end"]
           /\ Slow \/ removing = {}
           /\ SaveAll(ToStore(b), b) /\ Unmet(b, <<"defect">>)
           /\ UNCHANGED <<removing, leftover, toPersist, resolved>>
\* It fails, before or after some of them.
FailSave(b) == /\ turn[b] = "save" /\ turn' = [turn EXCEPT ![b] = "failed"]
               /\ Slow \/ removing = {}
               /\ (\E S \in SUBSET ToStore(b) : SaveAll(S, b)) /\ Unmet(b, FailureOf(b))
               /\ UNCHANGED <<removing, leftover, toPersist, resolved>>

\* The forked removal of a result that did not decode.
Remove(b, e) == /\ <<b, e>> \in removing /\ removing' = removing \ {<<b, e>>}
                /\ stored' = [stored EXCEPT ![e] = Nothing]
                /\ UNCHANGED <<turn, given, leftover, toPersist, resolved>>

\* The time to live of a result is over.
ResultExpires(e) == /\ stored[e] # Nothing /\ stored' = [stored EXCEPT ![e] = Nothing]
             /\ UNCHANGED <<removing, turn, given, leftover, toPersist, resolved>>

RunStep(b) == Load(b) \/ FailLoad(b) \/ (\E e \in Persisted : Resolve(b, e)) \/ Succeed(b) \/ FailResolver(b)
              \/ Save(b) \/ FailSave(b)
PersistedOver == (\A b \in Calls : turn[b] \in {"end", "failed"}) /\ UNCHANGED persistedVars
PersistedNext == \/ \E b \in Calls : RunStep(b) \/ \E e \in Persisted : Remove(b, e)
                 \/ (\E e \in Persisted : ResultExpires(e)) \/ PersistedOver

PersistedSpec == PersistedInit /\ [][PersistedNext]_persistedVars

--------------------------------------------------------------------------
(* Properties.                                                             *)

Saves(b) == turn[b] = "save" /\ turn'[b] = "end"

\* "Missing entries are resolved normally and written back to the store."
\* (RequestResolver.ts:1153-1154): what a batch resolved for who had no answer is
\* stored as it was answered, and what it had no need to resolve is left alone.
StoredAsAnswered == [][\A b \in Calls : Saves(b) => \A e \in Persisted :
  /\ given[b][e] = ResolvedBy(b) /\ Stores(e, ResolvedBy(b)) => stored'[e] = given[b][e]
  /\ e \notin leftover[b] => stored'[e] = stored[e]]_persistedVars

\* Stale entries "receive the stored result and are also resolved again so the
\* refreshed result can be written back" (RequestResolver.ts:1154-1156): the fresh one
\* is stored, or the old one again if the resolver left the entry out.
Refreshed == [][\A b \in Calls : Saves(b) => \A e \in leftover[b] :
  given[b][e] \notin {Nothing, ResolvedBy(b)} =>
    stored'[e] = IF <<b, e>> \notin resolved THEN given[b][e]
                 ELSE IF Stores(e, ResolvedBy(b)) THEN ResolvedBy(b) ELSE stored[e]]_persistedVars

\* A result that can be read is in the store until its time is over: no batch that
\* fails, saves or removes takes it out (RequestResolver.ts:1207-1245,
\* Persistence.ts:192-196).
ResultsStay == [][\A e \in Persisted :
  Readable(stored[e]) /\ ~Readable(stored'[e]) => UNCHANGED <<removing, turn>>]_persistedVars
===========================================================================

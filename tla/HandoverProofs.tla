--------------------------- MODULE HandoverProofs ---------------------------
(***************************************************************************)
(* What fibers hand to each other, for any number of them: a transaction is *)
(* its whole program at one moment, and a queue hands each value to one     *)
(* consumer in the order of the offers.                                    *)
(***************************************************************************)
EXTENDS Transaction, Queue, SequenceTheorems, FiniteSetTheorems,
        WellFoundedInduction, TLAPS

--------------------------------------------------------------------------
(* Transactions.                                                           *)

Phases == {"body", "retrying", "waiting", "succeeded", "failed", "done", "ended"}
Entries == [version : Nat, value : Nat]

TypeOK ==
  /\ value \in [Refs -> Nat] /\ version \in [Refs -> Nat]
  /\ pending \in [Refs -> SUBSET Txns] /\ tasks \subseteq Txns
  /\ DOMAIN journal = Txns /\ DOMAIN result = Txns
  /\ \A t \in Txns : /\ DOMAIN journal[t] \subseteq Refs
                     /\ \A r \in DOMAIN journal[t] : journal[t][r] \in Entries
  /\ pc \in [Txns -> Phases] /\ at \in [Txns -> Nat \ {0}]

(* How often the first n operations of a program do o to ref r.            *)
Times(t, o, r, n) == {i \in 1 .. n : Program[t][i] = [op |-> o, ref |-> r]}
Did(t, o, r, n) == Cardinality(Times(t, o, r, n))

(* An entry that is not stale holds what the operations so far make of the *)
(* value, and they took no more than was there.                            *)
Exact(t, r) ==
  /\ journal[t][r].value = value[r] - Did(t, "take", r, at[t] - 1) + Did(t, "put", r, at[t] - 1)
  /\ Did(t, "take", r, at[t] - 1) <= value[r]

Journaled(t) ==
  /\ \A i \in 1 .. at[t] - 1 : Program[t][i].ref \in DOMAIN journal[t]
  /\ \A r \in DOMAIN journal[t] :
       /\ journal[t][r].version <= version[r]
       /\ journal[t][r].version = version[r] /\ pc[t] # "done" => Exact(t, r)
  /\ at[t] <= Len(Program[t]) + 1
  /\ pc[t] = "succeeded" => at[t] = Len(Program[t]) + 1
  /\ pc[t] = "body" /\ at[t] = 1 => DOMAIN journal[t] = {}

(* Only who waits is called back, and for the refs of its journal.         *)
Callbacks ==
  /\ NothingPending
  /\ \A t \in tasks : pc[t] = "waiting"

(* Who waits will be called back by a change, or is being called back.     *)
Heard == RetriesAtOnce =>
  \A t \in Txns :
    /\ pc[t] # "retrying"
    /\ pc[t] = "waiting" /\ t \notin tasks =>
         \A r \in DOMAIN journal[t] :
           journal[t][r].version = version[r] /\ t \in pending[r]

IInv == /\ TypeOK /\ Callbacks /\ Heard
        /\ \A t \in Txns : Journaled(t)

--------------------------------------------------------------------------
(* Counting operations.                                                    *)
LEMMA DidNext ==
    ASSUME NEW t, NEW o, NEW r, NEW n \in Nat
    PROVE  /\ IsFiniteSet(Times(t, o, r, n)) /\ Did(t, o, r, n) \in Nat
           /\ Program[t][n + 1] = [op |-> o, ref |-> r]
                => Did(t, o, r, n + 1) = Did(t, o, r, n) + 1
           /\ Program[t][n + 1] # [op |-> o, ref |-> r]
                => Did(t, o, r, n + 1) = Did(t, o, r, n)
<1>1. IsFiniteSet(Times(t, o, r, n))
  <2>1. IsFiniteSet(1 .. n)
    BY FS_Interval
  <2>. QED BY <2>1, FS_Subset DEF Times
<1>2. Did(t, o, r, n) \in Nat
  BY <1>1, FS_CardinalityType DEF Did
<1>3. 1 .. n + 1 = 1 .. n \cup {n + 1} /\ n + 1 \notin 1 .. n
  OBVIOUS
<1>4. ASSUME Program[t][n + 1] = [op |-> o, ref |-> r]
      PROVE  Did(t, o, r, n + 1) = Did(t, o, r, n) + 1
  <2>1. Times(t, o, r, n + 1) = Times(t, o, r, n) \cup {n + 1} /\ n + 1 \notin Times(t, o, r, n)
    BY <1>3, <1>4 DEF Times
  <2>. QED BY <1>1, <2>1, FS_AddElement DEF Did
<1>5. ASSUME Program[t][n + 1] # [op |-> o, ref |-> r]
      PROVE  Did(t, o, r, n + 1) = Did(t, o, r, n)
  <2>1. Times(t, o, r, n + 1) = Times(t, o, r, n)
    BY <1>3, <1>5 DEF Times
  <2>. QED BY <2>1 DEF Did
<1>. QED BY <1>1, <1>2, <1>4, <1>5

LEMMA DidNone ==
    ASSUME NEW t, NEW o, NEW r, NEW n \in Nat,
           \A i \in 1 .. n : Program[t][i] # [op |-> o, ref |-> r]
    PROVE  Did(t, o, r, n) = 0
<1>1. Times(t, o, r, n) = {}
  BY DEF Times
<1>. QED BY <1>1, FS_EmptySet DEF Did

(* The whole program does what AtomicTransfers counts.                     *)
LEMMA DidAll ==
    ASSUME TransactionAssumption, NEW t \in Txns, NEW o, NEW r
    PROVE  Did(t, o, r, Len(Program[t])) = Atomic!Count(t, o, r)
<1>1. DOMAIN Program[t] = 1 .. Len(Program[t])
  BY DEF TransactionAssumption
<1>2. Times(t, o, r, Len(Program[t])) = {i \in DOMAIN Program[t] : Program[t][i] = [op |-> o, ref |-> r]}
  BY <1>1 DEF Times
<1>. QED BY <1>2 DEF Did, Atomic!Count, Atomic!Cardinality, Cardinality

(* An operation of a program.                                              *)
LEMMA ProgramType ==
    ASSUME TransactionAssumption, NEW t \in Txns
    PROVE  /\ Len(Program[t]) \in Nat /\ DOMAIN Program[t] = 1 .. Len(Program[t])
           /\ \A i \in 1 .. Len(Program[t]) :
                /\ Program[t][i].op \in {"take", "put", "read"} /\ Program[t][i].ref \in Refs
                /\ Program[t][i] = [op |-> Program[t][i].op, ref |-> Program[t][i].ref]
<1>1. Program[t] \in Seq(Operations)
  BY DEF TransactionAssumption
<1>2. \A i \in 1 .. Len(Program[t]) : Program[t][i] \in Operations
  BY <1>1
<1>. QED BY <1>1, <1>2 DEF Operations

--------------------------------------------------------------------------
LEMMA InitIInv == TransactionAssumption /\ Init => IInv
<1> SUFFICES ASSUME TransactionAssumption, Init PROVE IInv
  OBVIOUS
<1>1. TypeOK
  BY DEF TransactionAssumption, Init, TypeOK, NoJournal, Phases
<1>2. Callbacks /\ Heard
  BY DEF Init, Callbacks, NothingPending, Heard
<1>3. \A t \in Txns : Journaled(t)
  BY ProgramType DEF Init, Journaled, NoJournal
<1>. QED BY <1>1, <1>2, <1>3 DEF IInv

(* The entry an operation works on is as exact as those of the journal.    *)
LEMMA EntryExact ==
    ASSUME TransactionAssumption, IInv, NEW t \in Txns, pc[t] = "body",
           NEW n \in Nat, at[t] = n + 1, NEW r \in Refs
    PROVE  /\ Entry(t, r) \in Entries /\ Entry(t, r).version <= version[r]
           /\ Entry(t, r).version = version[r] =>
                /\ Entry(t, r).value = value[r] - Did(t, "take", r, n) + Did(t, "put", r, n)
                /\ Did(t, "take", r, n) <= value[r]
<1>1. CASE r \in DOMAIN journal[t]
  BY <1>1 DEF IInv, TypeOK, Journaled, Exact, Entry
<1>2. CASE r \notin DOMAIN journal[t]
  <2>1. \A i \in 1 .. n : Program[t][i].ref # r
    BY <1>2 DEF IInv, Journaled
  <2>2. Did(t, "take", r, n) = 0 /\ Did(t, "put", r, n) = 0
    <3>1. \A i \in 1 .. n, o \in {"take", "put"} : Program[t][i] # [op |-> o, ref |-> r]
      BY <2>1
    <3>. QED BY <3>1, DidNone
  <2>3. Entry(t, r) = [version |-> version[r], value |-> value[r]]
    BY <1>2 DEF Entry
  <2>4. value[r] \in Nat /\ version[r] \in Nat
    BY DEF IInv, TypeOK
  <2>. QED BY <2>2, <2>3, <2>4 DEF Entries
<1>. QED BY <1>1, <1>2

(* What is written to a journal.                                           *)
LEMMA WritesType ==
    ASSUME TransactionAssumption, IInv, NEW t \in Txns, NEW r \in Refs, NEW d \in Int,
           Writes(t, r, d), Entry(t, r) \in Entries, Entry(t, r).value + d \in Nat
    PROVE  /\ DOMAIN journal' = Txns /\ DOMAIN journal'[t] = DOMAIN journal[t] \cup {r}
           /\ \A u \in Txns \ {t} : journal'[u] = journal[u]
           /\ \A s \in DOMAIN journal[t] \ {r} : journal'[t][s] = journal[t][s]
           /\ journal'[t][r] \in Entries
           /\ journal'[t][r].version = Entry(t, r).version
           /\ journal'[t][r].value = Entry(t, r).value + d
<1>1. /\ DOMAIN journal' = Txns
      /\ journal'[t] = [s \in DOMAIN journal[t] \cup {r} |->
            IF s = r THEN [Entry(t, r) EXCEPT !.value = @ + d] ELSE journal[t][s]]
      /\ \A u \in Txns \ {t} : journal'[u] = journal[u]
  BY DEF Writes, IInv, TypeOK
<1>2. journal'[t][r] = [Entry(t, r) EXCEPT !.value = @ + d]
  BY <1>1
<1>. QED BY <1>1, <1>2 DEF Entries

(* A transaction that keeps its journal, or loses it.                      *)
LEMMA Keeps ==
    ASSUME NEW t, Journaled(t), UNCHANGED <<value, version>>,
           journal'[t] = journal[t], at'[t] = at[t],
           pc[t] = "done" => pc'[t] = "done",
           pc'[t] = "succeeded" => at[t] = Len(Program[t]) + 1,
           pc'[t] = "body" => pc[t] = "body"
    PROVE  Journaled(t)'
BY DEF Journaled, Exact

LEMMA Forgets ==
    ASSUME TransactionAssumption, NEW t \in Txns,
           DOMAIN journal'[t] = {}, at'[t] = 1, pc'[t] # "succeeded"
    PROVE  Journaled(t)'
BY ProgramType DEF Journaled

(* An operation that goes on, with d added to what its ref holds.          *)
Delta(o) == CASE o = "take" -> -1 [] o = "put" -> 1 [] o = "read" -> 0

LEMMA GoesOn ==
    ASSUME TransactionAssumption, IInv, NEW t \in Txns, pc[t] = "body",
           at[t] <= Len(Program[t]),
           NEW o, o = Program[t][at[t]].op, NEW r, r = Program[t][at[t]].ref,
           o # "take" \/ Entry(t, r).value > 0,
           Writes(t, r, Delta(o)), at' = [at EXCEPT ![t] = @ + 1],
           UNCHANGED <<value, version, pc>>
    PROVE  /\ Journaled(t)' /\ DOMAIN journal' = Txns
           /\ DOMAIN journal'[t] \subseteq Refs
           /\ \A s \in DOMAIN journal'[t] : journal'[t][s] \in Entries
           /\ \A u \in Txns \ {t} : journal'[u] = journal[u]
<1>1. PICK n \in Nat : at[t] = n + 1
  <2>1. at[t] - 1 \in Nat /\ at[t] = (at[t] - 1) + 1
    BY DEF IInv, TypeOK
  <2>. QED BY <2>1
<1>2. /\ at'[t] = n + 2 /\ n + 1 \in 1 .. Len(Program[t]) /\ Len(Program[t]) \in Nat
      /\ DOMAIN Program[t] = 1 .. Len(Program[t])
  BY <1>1, ProgramType DEF IInv, TypeOK
<1>3. /\ o \in {"take", "put", "read"} /\ r \in Refs
      /\ Program[t][n + 1] = [op |-> o, ref |-> r]
  BY <1>1, <1>2, ProgramType
<1>4. /\ Entry(t, r) \in Entries /\ Entry(t, r).version <= version[r]
      /\ Entry(t, r).version = version[r] =>
           /\ Entry(t, r).value = value[r] - Did(t, "take", r, n) + Did(t, "put", r, n)
           /\ Did(t, "take", r, n) <= value[r]
  BY <1>1, <1>3, EntryExact
<1>5. Delta(o) \in Int /\ Entry(t, r).value + Delta(o) \in Nat
  <2>1. Entry(t, r).value \in Nat
    BY <1>4 DEF Entries
  <2>2. CASE o = "take"
    <3>1. Delta(o) = -1
      BY <2>2 DEF Delta
    <3>. QED BY <2>1, <2>2, <3>1
  <2>3. CASE o = "put"
    <3>1. Delta(o) = 1
      BY <2>3 DEF Delta
    <3>. QED BY <2>1, <3>1
  <2>4. CASE o = "read"
    <3>1. Delta(o) = 0
      BY <2>4 DEF Delta
    <3>. QED BY <2>1, <3>1
  <2>. QED BY <1>3, <2>2, <2>3, <2>4
<1>6. /\ DOMAIN journal' = Txns /\ DOMAIN journal'[t] = DOMAIN journal[t] \cup {r}
      /\ \A u \in Txns \ {t} : journal'[u] = journal[u]
      /\ \A s \in DOMAIN journal[t] \ {r} : journal'[t][s] = journal[t][s]
      /\ journal'[t][r] \in Entries
      /\ journal'[t][r].version = Entry(t, r).version
      /\ journal'[t][r].value = Entry(t, r).value + Delta(o)
  BY <1>3, <1>4, <1>5, WritesType
<1>7. ASSUME o = "take" PROVE Did(t, "put", r, n) = 0
  <2>1. \A i \in 1 .. n : Program[t][i] # [op |-> "put", ref |-> r]
    <3> SUFFICES ASSUME NEW i \in 1 .. n, Program[t][i] = [op |-> "put", ref |-> r] PROVE FALSE
      OBVIOUS
    <3>1. i \in DOMAIN Program[t] /\ n + 1 \in DOMAIN Program[t] /\ ~(n + 1 < i)
      BY <1>2
    <3>. QED BY <1>3, <1>7, <3>1 DEF TransactionAssumption
  <2>. QED BY <2>1, DidNone
<1>8. /\ Did(t, "take", r, n) \in Nat /\ Did(t, "put", r, n) \in Nat
      /\ Did(t, "take", r, n + 1) = Did(t, "take", r, n) + (IF o = "take" THEN 1 ELSE 0)
      /\ Did(t, "put", r, n + 1) = Did(t, "put", r, n) + (IF o = "put" THEN 1 ELSE 0)
  <2>1. \A q \in {"take", "put"} : Program[t][n + 1] = [op |-> q, ref |-> r] <=> o = q
    BY <1>3
  <2>2. ASSUME NEW q \in {"take", "put"}
        PROVE  /\ Did(t, q, r, n) \in Nat
               /\ Did(t, q, r, n + 1) = Did(t, q, r, n) + (IF o = q THEN 1 ELSE 0)
    <3>1. CASE o = q
      BY <2>1, <3>1, DidNext
    <3>2. CASE o # q
      <4>1. Did(t, q, r, n + 1) = Did(t, q, r, n) /\ Did(t, q, r, n) \in Nat
        BY <2>1, <3>2, DidNext
      <4>. QED BY <3>2, <4>1
    <3>. QED BY <3>1, <3>2
  <2>. QED BY <2>2
<1>9. ASSUME NEW q \in {"take", "put"}, NEW s \in Refs \ {r}
      PROVE  Did(t, q, s, n + 1) = Did(t, q, s, n)
  <2>1. Program[t][n + 1] # [op |-> q, ref |-> s]
    BY <1>3
  <2>. QED BY <2>1, DidNext
<1>10. at'[t] - 1 = n + 1 /\ at[t] - 1 = n
  BY <1>1, <1>2
<1>11. value[r] \in Nat
  BY <1>3 DEF IInv, TypeOK
<1>12. journal'[t][r].version = version[r] =>
         /\ journal'[t][r].value = value[r] - Did(t, "take", r, n + 1) + Did(t, "put", r, n + 1)
         /\ Did(t, "take", r, n + 1) <= value[r]
  <2> SUFFICES ASSUME Entry(t, r).version = version[r]
               PROVE  /\ Entry(t, r).value + Delta(o)
                           = value[r] - Did(t, "take", r, n + 1) + Did(t, "put", r, n + 1)
                      /\ Did(t, "take", r, n + 1) <= value[r]
    BY <1>6
  <2>0. /\ Entry(t, r).value \in Nat /\ (o = "take" => Entry(t, r).value > 0)
        /\ Entry(t, r).value = value[r] - Did(t, "take", r, n) + Did(t, "put", r, n)
        /\ Did(t, "take", r, n) <= value[r]
    BY <1>4 DEF Entries
  <2>1. CASE o = "take"
    <3>1. /\ Delta(o) = -1 /\ Did(t, "put", r, n) = 0 /\ Did(t, "put", r, n + 1) = 0
          /\ Did(t, "take", r, n + 1) = Did(t, "take", r, n) + 1
          /\ Did(t, "take", r, n) \in Nat
      BY <1>7, <1>8, <2>1 DEF Delta
    <3>2. Entry(t, r).value > 0 /\ Entry(t, r).value = value[r] - Did(t, "take", r, n)
      BY SMTT(30), <1>11, <2>0, <2>1, <3>1
    <3>. QED BY SMTT(30), <1>11, <2>0, <3>1, <3>2
  <2>2. CASE o = "put"
    <3>1. /\ Delta(o) = 1 /\ Did(t, "put", r, n + 1) = Did(t, "put", r, n) + 1
          /\ Did(t, "take", r, n + 1) = Did(t, "take", r, n)
      BY <1>8, <2>2 DEF Delta
    <3>. QED BY SMTT(30), <1>8, <1>11, <2>0, <3>1
  <2>3. CASE o = "read"
    BY <1>8, <1>11, <2>0, <2>3 DEF Delta
  <2>. QED BY <1>3, <2>1, <2>2, <2>3
<1>13. DOMAIN journal[t] \subseteq Refs /\ \A s \in DOMAIN journal[t] : journal[t][s] \in Entries
  BY DEF IInv, TypeOK
<1>14. \A s \in DOMAIN journal'[t] :
         /\ journal'[t][s].version <= version'[s]
         /\ journal'[t][s].version = version'[s] /\ pc'[t] # "done" => Exact(t, s)'
  <2>1. Exact(t, r)' <=> /\ journal'[t][r].value = value[r] - Did(t, "take", r, n + 1) + Did(t, "put", r, n + 1)
                         /\ Did(t, "take", r, n + 1) <= value[r]
    BY <1>10 DEF Exact
  <2>2. ASSUME NEW s \in DOMAIN journal[t] \ {r}
        PROVE  /\ journal'[t][s].version <= version'[s]
               /\ journal'[t][s].version = version'[s] => Exact(t, s)'
    <3>1. journal'[t][s] = journal[t][s] /\ s \in Refs \ {r} /\ value' = value
      BY <1>6, <1>13, <2>2
    <3>2. /\ journal[t][s].version <= version[s]
          /\ journal[t][s].version = version[s] => Exact(t, s)
      BY <2>2 DEF IInv, Journaled
    <3>3. /\ Did(t, "take", s, at'[t] - 1) = Did(t, "take", s, at[t] - 1)
          /\ Did(t, "put", s, at'[t] - 1) = Did(t, "put", s, at[t] - 1)
      BY <1>9, <1>10, <3>1
    <3>4. Exact(t, s)' <=> Exact(t, s)
      BY <3>1, <3>3 DEF Exact
    <3>. QED BY <3>1, <3>2, <3>4
  <2>. QED BY <1>4, <1>6, <1>12, <2>1, <2>2
<1>15. \A i \in 1 .. at'[t] - 1 : Program[t][i].ref \in DOMAIN journal'[t]
  <2>1. \A i \in 1 .. n : Program[t][i].ref \in DOMAIN journal[t]
    BY <1>10 DEF IInv, Journaled
  <2>2. 1 .. at'[t] - 1 = 1 .. n \cup {n + 1}
    BY <1>10
  <2>3. Program[t][n + 1].ref = r
    BY <1>3
  <2>. QED BY <1>6, <2>1, <2>2, <2>3
<1>16. Journaled(t)'
  <2>1. at'[t] <= Len(Program[t]) + 1 /\ pc'[t] = "body" /\ at'[t] # 1
    BY <1>2
  <2>. QED BY <1>14, <1>15, <2>1 DEF Journaled
<1>. QED BY <1>3, <1>6, <1>13, <1>16

(* An operation that calls txRetry: it has looked at its ref.              *)
LEMMA Retries ==
    ASSUME TransactionAssumption, IInv, NEW t \in Txns, pc[t] = "body",
           at[t] <= Len(Program[t]), NEW r, r = Program[t][at[t]].ref,
           Writes(t, r, 0), UNCHANGED <<value, version, at>>,
           pc'[t] \in {"retrying", "waiting"}
    PROVE  /\ Journaled(t)' /\ DOMAIN journal' = Txns
           /\ DOMAIN journal'[t] \subseteq Refs
           /\ \A s \in DOMAIN journal'[t] : journal'[t][s] \in Entries
           /\ \A u \in Txns \ {t} : journal'[u] = journal[u]
           /\ at[t] = 1 => \A s \in DOMAIN journal'[t] : journal'[t][s].version = version[s]
<1>1. PICK n \in Nat : at[t] = n + 1
  <2>1. at[t] - 1 \in Nat /\ at[t] = (at[t] - 1) + 1
    BY DEF IInv, TypeOK
  <2>. QED BY <2>1
<1>2. n + 1 \in 1 .. Len(Program[t]) /\ at[t] - 1 = n
  BY <1>1, ProgramType
<1>3. r \in Refs
  BY <1>1, <1>2, ProgramType
<1>4. /\ Entry(t, r) \in Entries /\ Entry(t, r).version <= version[r]
      /\ Entry(t, r).version = version[r] =>
           /\ Entry(t, r).value = value[r] - Did(t, "take", r, n) + Did(t, "put", r, n)
           /\ Did(t, "take", r, n) <= value[r]
  BY <1>1, <1>3, EntryExact
<1>5. Entry(t, r).value + 0 = Entry(t, r).value /\ Entry(t, r).value \in Nat
  BY <1>4 DEF Entries
<1>6. /\ DOMAIN journal' = Txns /\ DOMAIN journal'[t] = DOMAIN journal[t] \cup {r}
      /\ \A u \in Txns \ {t} : journal'[u] = journal[u]
      /\ \A s \in DOMAIN journal[t] \ {r} : journal'[t][s] = journal[t][s]
      /\ journal'[t][r] \in Entries
      /\ journal'[t][r].version = Entry(t, r).version
      /\ journal'[t][r].value = Entry(t, r).value
  BY SMTT(30), <1>3, <1>4, <1>5, WritesType
<1>7. DOMAIN journal[t] \subseteq Refs /\ \A s \in DOMAIN journal[t] : journal[t][s] \in Entries
  BY DEF IInv, TypeOK
<1>8. Journaled(t)'
  <2>1. \A s \in DOMAIN journal'[t] :
          /\ journal'[t][s].version <= version'[s]
          /\ journal'[t][s].version = version'[s] => Exact(t, s)'
    <3>1. ASSUME NEW s \in DOMAIN journal[t] \ {r}
          PROVE  /\ journal'[t][s].version <= version'[s]
                 /\ journal'[t][s].version = version'[s] => Exact(t, s)'
      <4>1. /\ journal[t][s].version <= version[s]
            /\ journal[t][s].version = version[s] => Exact(t, s)
        BY <3>1 DEF IInv, Journaled
      <4>2. journal'[t][s] = journal[t][s]
        BY <1>6, <3>1
      <4>3. Exact(t, s)' <=> Exact(t, s)
        BY <4>2 DEF Exact
      <4>. QED BY <4>1, <4>2, <4>3
    <3>2. Exact(t, r)' <=> /\ journal'[t][r].value = value[r] - Did(t, "take", r, n) + Did(t, "put", r, n)
                           /\ Did(t, "take", r, n) <= value[r]
      BY <1>2 DEF Exact
    <3>. QED BY <1>4, <1>6, <3>1, <3>2
  <2>. QED BY <1>6, <2>1 DEF IInv, Journaled
<1>9. ASSUME at[t] = 1 PROVE \A s \in DOMAIN journal'[t] : journal'[t][s].version = version[s]
  <2>1. DOMAIN journal[t] = {}
    BY <1>9 DEF IInv, Journaled
  <2>. QED BY <1>6, <2>1 DEF Entry
<1>. QED BY <1>3, <1>6, <1>7, <1>8, <1>9

--------------------------------------------------------------------------
LEMMA OperationIInv ==
    ASSUME TransactionAssumption, IInv, NEW t \in Txns, Operation(t)
    PROVE  IInv'
<1> DEFINE o == Program[t][at[t]].op
           r == Program[t][at[t]].ref
<1>1. /\ pc[t] = "body" /\ at[t] <= Len(Program[t])
      /\ UNCHANGED <<value, version, tasks, result>>
  BY DEF Operation
<1>2. t \notin tasks /\ \A s \in Refs : t \notin pending[s]
  BY <1>1 DEF IInv, Callbacks, NothingPending
<1>3. CASE /\ o # "take" \/ Entry(t, r).value > 0
           /\ Writes(t, r, Delta(o)) /\ at' = [at EXCEPT ![t] = @ + 1]
           /\ UNCHANGED <<pc, pending>>
  <2>1. /\ Journaled(t)' /\ DOMAIN journal' = Txns
        /\ DOMAIN journal'[t] \subseteq Refs
        /\ \A s \in DOMAIN journal'[t] : journal'[t][s] \in Entries
        /\ \A u \in Txns \ {t} : journal'[u] = journal[u]
    BY <1>1, <1>3, GoesOn
  <2>2. \A u \in Txns \ {t} : Journaled(u)'
    BY <1>1, <1>3, <2>1, Keeps DEF IInv, TypeOK, Journaled
  <2>3. TypeOK'
    <3>1. at' \in [Txns -> Nat \ {0}]
      BY <1>3 DEF IInv, TypeOK
    <3>2. \A u \in Txns : /\ DOMAIN journal'[u] \subseteq Refs
                           /\ \A s \in DOMAIN journal'[u] : journal'[u][s] \in Entries
      BY <2>1 DEF IInv, TypeOK
    <3>. QED BY <1>1, <1>3, <2>1, <3>1, <3>2 DEF IInv, TypeOK
  <2>4. Callbacks'
    BY <1>1, <1>2, <1>3, <2>1 DEF IInv, TypeOK, Callbacks, NothingPending
  <2>5. Heard'
    BY <1>1, <1>3, <2>1 DEF IInv, Heard
  <2>. QED BY <2>1, <2>2, <2>3, <2>4, <2>5 DEF IInv
<1>4. CASE /\ o = "take" /\ Writes(t, r, 0) /\ UNCHANGED at
           /\ \/ SlowRetry /\ Goes(t, "retrying") /\ UNCHANGED pending
              \/ ~SlowRetry /\ Goes(t, "waiting") /\ Await(t, journal'[t])
  <2>0. /\ pc'[t] \in {"retrying", "waiting"} /\ pc' \in [Txns -> Phases]
        /\ \A u \in Txns \ {t} : pc'[u] = pc[u]
    BY <1>4 DEF IInv, TypeOK, Goes, Phases
  <2>1. /\ Journaled(t)' /\ DOMAIN journal' = Txns
        /\ DOMAIN journal'[t] \subseteq Refs
        /\ \A s \in DOMAIN journal'[t] : journal'[t][s] \in Entries
        /\ \A u \in Txns \ {t} : journal'[u] = journal[u]
        /\ at[t] = 1 => \A s \in DOMAIN journal'[t] : journal'[t][s].version = version[s]
    BY <1>1, <1>4, <2>0, Retries
  <2>2. \A u \in Txns \ {t} : Journaled(u)'
    BY SMTT(30), <1>1, <1>4, <2>0, <2>1, Keeps DEF IInv, Journaled
  <2>3. pending' \in [Refs -> SUBSET Txns]
    BY <1>4 DEF IInv, TypeOK, Await
  <2>4. TypeOK'
    BY <1>1, <1>4, <2>0, <2>1, <2>3 DEF IInv, TypeOK
  <2>5. \A s \in Refs : \A u \in pending'[s] :
          \/ u \in pending[s] /\ u # t
          \/ u = t /\ pc'[t] = "waiting" /\ s \in DOMAIN journal'[t]
    BY <1>2, <1>4 DEF Await, Goes, IInv, TypeOK
  <2>6. Callbacks'
    BY <1>1, <1>2, <2>0, <2>1, <2>5 DEF IInv, TypeOK, Callbacks, NothingPending
  <2>7. Heard'
    <3> SUFFICES ASSUME RetriesAtOnce PROVE Heard'
      BY DEF Heard, RetriesAtOnce
    <3>1. at[t] = 1
      <4>1. at[t] \in DOMAIN Program[t]
        BY <1>1, ProgramType DEF IInv, TypeOK
      <4>. QED BY <1>4, <4>1 DEF RetriesAtOnce
    <3>2. pc'[t] = "waiting" /\ \A s \in DOMAIN journal'[t] : t \in pending'[s]
      BY <1>4, <2>1 DEF RetriesAtOnce, Goes, Await, IInv, TypeOK
    <3>3. \A u \in Txns \ {t}, s \in Refs : u \in pending[s] => u \in pending'[s]
      BY <1>4 DEF Await, RetriesAtOnce
    <3>4. \A u \in Txns \ {t} : DOMAIN journal[u] \subseteq Refs
      BY DEF IInv, TypeOK
    <3>5. ASSUME NEW u \in Txns \ {t}
          PROVE  /\ pc'[u] # "retrying"
                 /\ pc'[u] = "waiting" /\ u \notin tasks' =>
                      \A s \in DOMAIN journal'[u] :
                        journal'[u][s].version = version'[s] /\ u \in pending'[s]
      BY <1>1, <2>0, <2>1, <3>3, <3>4, <3>5 DEF IInv, Heard
    <3>. QED BY <1>1, <2>1, <3>1, <3>2, <3>5 DEF Heard
  <2>. QED BY <2>1, <2>2, <2>4, <2>6, <2>7 DEF IInv
<1>. QED BY <1>3, <1>4 DEF Operation, Delta

LEMMA AwaitPendingIInv ==
    ASSUME TransactionAssumption, IInv, NEW t \in Txns, AwaitPending(t)
    PROVE  IInv'
<1>1. /\ pc[t] = "retrying" /\ pc' = [pc EXCEPT ![t] = "waiting"]
      /\ UNCHANGED <<value, version, journal, at, tasks, result>>
  BY DEF AwaitPending, Goes
<1>2. /\ pc' \in [Txns -> Phases] /\ pc'[t] = "waiting"
      /\ \A u \in Txns \ {t} : pc'[u] = pc[u]
  BY <1>1 DEF IInv, TypeOK, Phases
<1>3. \A s \in Refs : pending'[s] = IF s \in DOMAIN journal[t] THEN pending[s] \cup {t} ELSE pending[s]
  BY DEF AwaitPending, Await
<1>4. TypeOK'
  BY <1>1, <1>2 DEF IInv, TypeOK, AwaitPending, Await
<1>5. Callbacks'
  <2>1. \A s \in Refs : \A u \in pending'[s] :
          u \in pending[s] \/ (u = t /\ s \in DOMAIN journal[t])
    BY <1>3
  <2>2. NothingPending'
    BY <1>1, <1>2, <2>1 DEF IInv, TypeOK, Callbacks, NothingPending
  <2>3. \A u \in tasks' : pc'[u] = "waiting"
    BY <1>1, <1>2 DEF IInv, TypeOK, Callbacks
  <2>. QED BY <2>2, <2>3 DEF Callbacks
<1>6. Heard'
  BY <1>1 DEF IInv, Heard, RetriesAtOnce
<1>7. \A u \in Txns : Journaled(u)'
  BY <1>1, <1>2, Keeps DEF IInv, Journaled
<1>. QED BY <1>4, <1>5, <1>6, <1>7 DEF IInv

(* The body ends, in success or failure, and leaves everything else alone. *)
LEMMA EndsIInv ==
    ASSUME TransactionAssumption, IInv, NEW t \in Txns, BodyEnds(t) \/ BodyFails(t)
    PROVE  IInv'
<1>1. /\ pc[t] = "body" /\ pc'[t] \in {"succeeded", "failed"} /\ pc' \in [Txns -> Phases]
      /\ \A u \in Txns \ {t} : pc'[u] = pc[u]
      /\ UNCHANGED <<value, version, pending, journal, at, tasks, result>>
  BY DEF BodyEnds, BodyFails, Goes, refVars, IInv, TypeOK, Phases
<1>2. pc'[t] = "succeeded" => at[t] = Len(Program[t]) + 1
  BY ProgramType DEF BodyEnds, BodyFails, Goes, IInv, TypeOK, Journaled
<1>3. TypeOK'
  BY <1>1 DEF IInv, TypeOK
<1>4. Callbacks' /\ Heard'
  BY <1>1 DEF IInv, TypeOK, Callbacks, NothingPending, Heard
<1>5. \A u \in Txns : Journaled(u)'
  BY <1>1, <1>2, Keeps DEF IInv, Journaled
<1>. QED BY <1>3, <1>4, <1>5 DEF IInv

(* The journal is cleared, for another round or for good.                  *)
LEMMA ClearIInv ==
    ASSUME TransactionAssumption, IInv, NEW t \in Txns, Again(t) \/ Fail(t)
    PROVE  IInv'
<1>1. /\ pc[t] \in {"succeeded", "failed"} /\ pc'[t] \in {"body", "ended"}
      /\ pc' \in [Txns -> Phases] /\ \A u \in Txns \ {t} : pc'[u] = pc[u]
      /\ UNCHANGED <<value, version, pending, tasks, result>>
  BY DEF Again, Fail, Goes, refVars, IInv, TypeOK, Phases
<1>2. /\ DOMAIN journal' = Txns /\ DOMAIN journal'[t] = {} /\ at'[t] = 1
      /\ at' \in [Txns -> Nat \ {0}]
      /\ \A u \in Txns \ {t} : journal'[u] = journal[u] /\ at'[u] = at[u]
  BY DEF Again, Fail, Clear, NoJournal, IInv, TypeOK
<1>3. TypeOK'
  BY <1>1, <1>2 DEF IInv, TypeOK
<1>4. Callbacks' /\ Heard'
  BY <1>1, <1>2 DEF IInv, TypeOK, Callbacks, NothingPending, Heard
<1>5. Journaled(t)'
  BY <1>1, <1>2, Forgets
<1>6. \A u \in Txns \ {t} : Journaled(u)'
  BY SMTT(30), <1>1, <1>2, Keeps DEF IInv, Journaled
<1>. QED BY <1>3, <1>4, <1>5, <1>6 DEF IInv

(* A wake-up arrives, or an interruption that takes it back.               *)
LEMMA LeavesWaitIInv ==
    ASSUME TransactionAssumption, IInv, NEW t \in Txns, Wake(t) \/ Interrupt(t)
    PROVE  IInv'
<1>1. /\ pc[t] \in {"body", "retrying", "waiting"} /\ pc'[t] = "failed"
      /\ pc' \in [Txns -> Phases] /\ \A u \in Txns \ {t} : pc'[u] = pc[u]
      /\ UNCHANGED <<value, version, journal, at, result>>
      /\ tasks' = tasks \ {t} /\ pending' = [s \in Refs |-> pending[s] \ {t}]
  BY DEF Wake, Interrupt, Goes, IInv, TypeOK, Callbacks, Phases
<1>2. TypeOK'
  BY <1>1 DEF IInv, TypeOK
<1>3. Callbacks'
  BY <1>1 DEF IInv, TypeOK, Callbacks, NothingPending
<1>4. Heard'
  <2>1. \A u \in Txns \ {t}, s \in Refs : u \in pending[s] => u \in pending'[s]
    BY <1>1
  <2>2. \A u \in Txns : DOMAIN journal[u] \subseteq Refs
    BY DEF IInv, TypeOK
  <2>. QED BY <1>1, <2>1, <2>2 DEF IInv, Heard
<1>5. \A u \in Txns : Journaled(u)'
  BY <1>1, Keeps DEF IInv, Journaled
<1>. QED BY <1>2, <1>3, <1>4, <1>5 DEF IInv

--------------------------------------------------------------------------
(* A commit is its program run at that moment.                             *)
LEMMA CommitIsAtomic ==
    ASSUME TransactionAssumption, IInv, NEW t \in Txns, Commit(t)
    PROVE  Atomic!Commit(t)
<1> DEFINE n == Len(Program[t])
           Reads == {Program[t][i].ref : i \in {j \in DOMAIN Program[t] : Program[t][j].op = "read"}}
<1>1. /\ n \in Nat /\ at[t] = n + 1 /\ at[t] - 1 = n /\ DOMAIN Program[t] = 1 .. n
      /\ pc[t] = "succeeded" /\ value \in [Refs -> Nat]
  BY ProgramType DEF Commit, IInv, Journaled, TypeOK
<1>2. \A q \in {"take", "put"}, r \in Refs :
        Did(t, q, r, n) = Atomic!Count(t, q, r) /\ Did(t, q, r, n) \in Nat
  BY ZenonT(30), <1>1, DidAll, DidNext
<1>3. ASSUME NEW r \in DOMAIN journal[t]
      PROVE  /\ journal[t][r].value = value[r] - Atomic!Count(t, "take", r) + Atomic!Count(t, "put", r)
             /\ Atomic!Count(t, "take", r) <= value[r] /\ r \in Refs
  <2>1. Exact(t, r) /\ r \in Refs
    BY <1>1 DEF Commit, isTransactionConsistent, IInv, Journaled, TypeOK
  <2>. QED BY <1>1, <1>2, <2>1 DEF Exact
<1>4. ASSUME NEW r \in Refs \ DOMAIN journal[t]
      PROVE  Atomic!Count(t, "take", r) = 0 /\ Atomic!Count(t, "put", r) = 0
  <2>1. \A i \in 1 .. n, q \in {"take", "put"} : Program[t][i] # [op |-> q, ref |-> r]
    BY <1>1 DEF IInv, Journaled
  <2>. QED BY <1>1, <1>2, <2>1, DidNone
<1>5. \A r \in Refs : Atomic!Count(t, "take", r) <= value[r]
  BY <1>1, <1>3, <1>4
<1>6. value' = [r \in Refs |-> value[r] + Atomic!Count(t, "put", r) - Atomic!Count(t, "take", r)]
  <2>1. \A r \in Refs : (IF r \in DOMAIN journal[t] THEN journal[t][r].value ELSE value[r])
                          = value[r] + Atomic!Count(t, "put", r) - Atomic!Count(t, "take", r)
    <3> SUFFICES ASSUME NEW r \in Refs
                 PROVE  (IF r \in DOMAIN journal[t] THEN journal[t][r].value ELSE value[r])
                          = value[r] + Atomic!Count(t, "put", r) - Atomic!Count(t, "take", r)
      OBVIOUS
    <3>1. /\ Atomic!Count(t, "take", r) \in Nat /\ Atomic!Count(t, "put", r) \in Nat
          /\ value[r] \in Nat
      BY <1>1, <1>2
    <3>. QED BY <1>3, <1>4, <3>1
  <2>. QED BY <2>1 DEF Commit
<1>7. Reads = Atomic!Read(t)
  <2>1. ASSUME NEW r \in Refs PROVE Atomic!Count(t, "read", r) > 0 <=> r \in Reads
    <3>1. Did(t, "read", r, n) = Atomic!Count(t, "read", r) /\ Did(t, "read", r, n) \in Nat
      <4>1. Did(t, "read", r, n) = Atomic!Count(t, "read", r)
        BY DidAll
      <4>2. Did(t, "read", r, n) \in Nat
        BY <1>1, DidNext
      <4>. QED BY <4>1, <4>2
    <3>2. IsFiniteSet(Times(t, "read", r, n))
      BY <1>1, DidNext
    <3>3. Did(t, "read", r, n) = 0 <=> Times(t, "read", r, n) = {}
      BY <3>2, FS_EmptySet DEF Did
    <3>4. Times(t, "read", r, n) # {} <=> r \in Reads
      BY <1>1, ProgramType DEF Times
    <3>. QED BY <3>1, <3>3, <3>4
  <2>2. Reads \subseteq Refs
    BY <1>1, ProgramType
  <2>. QED BY <2>1, <2>2 DEF Atomic!Read
<1>8. \A r \in Reads : journal[t][r].value = value[r]
  <2> SUFFICES ASSUME NEW i \in 1 .. n, Program[t][i].op = "read"
               PROVE  journal[t][Program[t][i].ref].value = value[Program[t][i].ref]
    BY <1>1
  <2> DEFINE r == Program[t][i].ref
  <2>1. r \in DOMAIN journal[t] /\ r \in Refs
    BY <1>1, ProgramType DEF IInv, Journaled
  <2>2. \A j \in 1 .. n, q \in {"take", "put"} : Program[t][j] # [op |-> q, ref |-> r]
    <3> SUFFICES ASSUME NEW j \in 1 .. n, NEW q \in {"take", "put"},
                        Program[t][j] = [op |-> q, ref |-> r]
                 PROVE  FALSE
      OBVIOUS
    <3>1. Program[t][j].op = q /\ Program[t][j].ref = Program[t][i].ref
      OBVIOUS
    <3>2. i \in DOMAIN Program[t] /\ j \in DOMAIN Program[t]
      BY <1>1
    <3>. QED BY <3>1, <3>2 DEF TransactionAssumption
  <2>3. Atomic!Count(t, "take", r) = 0 /\ Atomic!Count(t, "put", r) = 0
    BY <1>1, <1>2, <2>1, <2>2, DidNone
  <2>4. value[r] \in Nat
    BY <1>1, <2>1
  <2>. QED BY <1>3, <2>1, <2>3, <2>4
<1>9. result' = [result EXCEPT ![t] = [r \in Atomic!Read(t) |-> value[r]]]
  <2>1. [r \in Reads |-> journal[t][r].value] = [r \in Reads |-> value[r]]
    BY <1>8
  <2>. QED BY <1>7, <2>1 DEF Commit
<1>. QED BY <1>5, <1>6, <1>9 DEF Atomic!Commit

LEMMA CommitIInv ==
    ASSUME TransactionAssumption, IInv, NEW t \in Txns, Commit(t)
    PROVE  IInv'
<1>1. /\ pc[t] = "succeeded" /\ pc' = [pc EXCEPT ![t] = "done"]
      /\ UNCHANGED <<journal, at>> /\ DOMAIN result' = Txns
  BY DEF Commit, Goes, IInv, TypeOK
<1>2. /\ pc' \in [Txns -> Phases] /\ pc'[t] = "done"
      /\ \A u \in Txns \ {t} : pc'[u] = pc[u]
  BY <1>1 DEF IInv, TypeOK, Phases
<1>3. \A r \in Refs : /\ value'[r] = IF r \in DOMAIN journal[t] THEN journal[t][r].value ELSE value[r]
                      /\ version'[r] = IF value'[r] # value[r] THEN version[r] + 1 ELSE version[r]
                      /\ pending'[r] = IF r \in DOMAIN journal[t] THEN {} ELSE pending[r]
  BY DEF Commit, Touched
<1>4. \A r \in Refs : /\ value[r] \in Nat /\ value'[r] \in Nat
                      /\ version[r] \in Nat /\ version'[r] \in Nat /\ pending'[r] \subseteq Txns
  BY <1>3 DEF IInv, TypeOK, Entries
<1>5. tasks' = tasks \cup UNION {pending[r] : r \in DOMAIN journal[t]} /\ DOMAIN journal[t] \subseteq Refs
  BY DEF Commit, Touched, IInv, TypeOK
<1>6. TypeOK'
  <2>1. /\ value' \in [Refs -> Nat] /\ version' \in [Refs -> Nat]
        /\ pending' \in [Refs -> SUBSET Txns]
    BY <1>4 DEF Commit
  <2>2. tasks' \subseteq Txns
    BY <1>5 DEF IInv, TypeOK
  <2>. QED BY <1>1, <1>2, <2>1, <2>2 DEF IInv, TypeOK
<1>7. Callbacks'
  <2>1. \A r \in Refs : pending'[r] \subseteq pending[r] /\ t \notin pending[r]
    BY <1>1, <1>3 DEF IInv, Callbacks, NothingPending
  <2>2. NothingPending'
    BY <1>1, <1>2, <2>1 DEF IInv, TypeOK, Callbacks, NothingPending
  <2>3. \A u \in tasks' : pc[u] = "waiting" /\ u \in Txns
    BY <1>5 DEF IInv, TypeOK, Callbacks, NothingPending
  <2>. QED BY <1>1, <1>2, <2>2, <2>3 DEF Callbacks
<1>8. Heard'
  <2> SUFFICES ASSUME RetriesAtOnce, NEW u \in Txns \ {t}
               PROVE  /\ pc[u] # "retrying"
                      /\ pc[u] = "waiting" /\ u \notin tasks' =>
                           \A r \in DOMAIN journal[u] :
                             journal[u][r].version = version'[r] /\ u \in pending'[r]
    BY <1>1, <1>2 DEF Heard, RetriesAtOnce
  <2>1. ASSUME pc[u] = "waiting", u \notin tasks', NEW r \in DOMAIN journal[u]
        PROVE  journal[u][r].version = version'[r] /\ u \in pending'[r]
    <3>1. journal[u][r].version = version[r] /\ u \in pending[r] /\ r \in Refs
      BY <1>5, <2>1 DEF IInv, Heard, TypeOK
    <3>2. r \notin DOMAIN journal[t]
      BY <1>5, <2>1, <3>1
    <3>. QED BY <1>3, <3>1, <3>2
  <2>. QED BY <2>1 DEF IInv, Heard
<1>9. Journaled(t)'
  <2>1. \A r \in DOMAIN journal[t] : journal[t][r].version <= version'[r]
    <3> SUFFICES ASSUME NEW r \in DOMAIN journal[t] PROVE journal[t][r].version <= version'[r]
      OBVIOUS
    <3>1. journal[t][r].version <= version[r] /\ journal[t][r].version \in Nat /\ r \in Refs
      BY <1>5 DEF IInv, Journaled, TypeOK, Entries
    <3>. QED BY <1>3, <1>4, <3>1
  <2>. QED BY <1>1, <1>2, <2>1 DEF IInv, Journaled
<1>10. ASSUME NEW u \in Txns \ {t} PROVE Journaled(u)'
  <2>1. ASSUME NEW r \in DOMAIN journal[u]
        PROVE  /\ journal[u][r].version <= version'[r]
               /\ journal[u][r].version = version'[r] => journal[u][r].version = version[r] /\ value'[r] = value[r]
    <3>1. journal[u][r].version <= version[r] /\ journal[u][r].version \in Nat /\ r \in Refs
      BY DEF IInv, Journaled, TypeOK, Entries
    <3>. QED BY <1>3, <1>4, <3>1
  <2>2. \A r \in DOMAIN journal[u] :
          /\ journal[u][r].version <= version'[r]
          /\ journal[u][r].version = version'[r] /\ pc[u] # "done" => Exact(u, r)'
    BY <1>1, <2>1 DEF IInv, Journaled, Exact
  <2>. QED BY <1>1, <1>2, <2>2 DEF IInv, Journaled
<1>. QED BY <1>6, <1>7, <1>8, <1>9, <1>10 DEF IInv

--------------------------------------------------------------------------
LEMMA NextIInv == TransactionAssumption /\ IInv /\ [Next]_vars => IInv'
<1> SUFFICES ASSUME TransactionAssumption, IInv, [Next]_vars PROVE IInv'
  OBVIOUS
<1>1. CASE UNCHANGED vars
  <2>1. UNCHANGED <<value, version, pending, journal, pc, at, tasks, result>>
    BY <1>1 DEF vars, refVars, txnVars
  <2>2. TypeOK' /\ Callbacks' /\ Heard'
    BY <2>1 DEF IInv, TypeOK, Callbacks, NothingPending, Heard
  <2>3. \A t \in Txns : Journaled(t)'
    BY <2>1, Keeps DEF IInv, Journaled
  <2>. QED BY <2>2, <2>3 DEF IInv
<1>2. ASSUME NEW t \in Txns, Step(t) \/ BodyFails(t) \/ Interrupt(t) PROVE IInv'
  BY <1>2, OperationIInv, AwaitPendingIInv, EndsIInv, ClearIInv, LeavesWaitIInv, CommitIInv DEF Step
<1>. QED BY <1>1, <1>2 DEF Next

LEMMA NextAtomic ==
    ASSUME TransactionAssumption, IInv, [Next]_vars
    PROVE  [Atomic!Next]_(Atomic!vars)
<1>1. ASSUME NEW t \in Txns, Commit(t) PROVE Atomic!Next
  BY <1>1, CommitIsAtomic DEF Atomic!Next
<1>2. ASSUME NEW t \in Txns, (Step(t) /\ ~Commit(t)) \/ BodyFails(t) \/ Interrupt(t)
      PROVE  UNCHANGED <<value, result>>
  BY <1>2 DEF Step, Operation, AwaitPending, BodyEnds, BodyFails, Again, Fail, Wake, Interrupt, refVars
<1>3. ASSUME UNCHANGED vars PROVE UNCHANGED <<value, result>>
  BY <1>3 DEF vars, refVars
<1>. QED BY <1>1, <1>2, <1>3 DEF Next, Step, Atomic!vars

LEMMA IInvSafe == IInv => TransactionsSafe
BY DEF IInv, Callbacks, Heard, TransactionsSafe, NoMissedChange, isTransactionConsistent

(* Whoever waits for a change is called back when it happens, and no ref   *)
(* keeps a callback of a transaction that has gone on (Effect.ts:14702-14734). *)
THEOREM TransactionsAreWoken == ASSUME TransactionAssumption PROVE Spec => []TransactionsSafe
<1>1. Init => IInv
  BY InitIInv
<1>2. IInv /\ [Next]_vars => IInv'
  BY NextIInv
<1>3. IInv => TransactionsSafe
  BY IInvSafe
<1>. QED BY <1>1, <1>2, <1>3, PTL DEF Spec

(* A commit is its whole program run at that moment, whatever the others   *)
(* did while the body ran (Effect.ts:14676-14734).                         *)
THEOREM TransactionsAreAtomic == ASSUME TransactionAssumption PROVE Spec => ImplementsAtomic
<1>1. Init => IInv
  BY InitIInv
<1>2. IInv /\ [Next]_vars => IInv'
  BY NextIInv
<1>3. Init => Atomic!Init
  BY DEF Init, Atomic!Init
<1>4. IInv /\ [Next]_vars => [Atomic!Next]_(Atomic!vars)
  BY NextAtomic
<1>. QED BY <1>1, <1>2, <1>3, <1>4, PTL DEF Spec, ImplementsAtomic, Atomic!Spec

--------------------------------------------------------------------------
(* Queues. Lemmas about stacks, sequences and the least of a set.          *)

LEMMA Appended ==
    ASSUME NEW F, NEW s \in Seq(F), NEW x \in F
    PROVE  /\ Append(s, x) \in Seq(F) /\ Len(Append(s, x)) = Len(s) + 1
           /\ Append(s, x)[Len(s) + 1] = x
           /\ \A i \in 1 .. Len(s) : Append(s, x)[i] = s[i]
OBVIOUS

\* What the top of a stack is.
LEMMA OnTop ==
    ASSUME NEW F, NEW s \in Seq(F), NEW x \in F
    PROVE  /\ Append(s, x) \in Seq(F) /\ Append(s, x) # <<>>
           /\ Last(Append(s, x)) = x /\ Front(Append(s, x)) = s
           /\ Len(Append(s, x)) = Len(s) + 1
<1>1. /\ Append(s, x) \in Seq(F) /\ Len(Append(s, x)) = Len(s) + 1
      /\ Append(s, x)[Len(s) + 1] = x
      /\ \A i \in 1 .. Len(s) : Append(s, x)[i] = s[i]
  OBVIOUS
<1>2. Front(Append(s, x)) = SubSeq(Append(s, x), 1, Len(s))
  BY <1>1 DEF Front
<1>3. SubSeq(Append(s, x), 1, Len(s)) = s
  BY <1>1
<1>. QED BY <1>1, <1>2, <1>3 DEF Last

\* The entries that the loops of a stack have let in.
LetInOf(s) == {s[i].entry : i \in {j \in DOMAIN s : s[j].is = "offers"}}

LEMMA LetInAppend ==
    ASSUME NEW F, NEW s \in Seq(F), NEW x \in F
    PROVE  LetInOf(Append(s, x)) = LetInOf(s) \cup (IF x.is = "offers" THEN {x.entry} ELSE {})
<1> DEFINE t == Append(s, x)
<1>1. /\ DOMAIN t = 1 .. Len(s) + 1 /\ DOMAIN s = 1 .. Len(s) /\ Len(s) \in Nat
      /\ t[Len(s) + 1] = x
      /\ \A i \in 1 .. Len(s) : t[i] = s[i]
  OBVIOUS
<1> HIDE DEF t
<1>2. {j \in DOMAIN t : t[j].is = "offers"}
      = {j \in DOMAIN s : s[j].is = "offers"} \cup (IF x.is = "offers" THEN {Len(s) + 1} ELSE {})
  BY <1>1
<1>3. LetInOf(t) = LetInOf(s) \cup (IF x.is = "offers" THEN {x.entry} ELSE {})
  BY <1>1, <1>2 DEF LetInOf
<1>. QED BY <1>3 DEF t

LEMMA LetInNone == LetInOf(<<>>) = {}
BY DEF LetInOf

LEMMA LeastOf ==
    ASSUME NEW S, S \subseteq Nat, S # {}
    PROVE  Min(S) \in S /\ \A y \in S : Min(S) <= y
<1> DEFINE R == OpToRel(<, Nat)
<1>1. IsWellFoundedOn(R, Nat)
  BY NatLessThanWellFounded
<1>2. \A T : T \subseteq Nat /\ T # {} => \E x \in T : \A y \in T : <<y, x>> \notin R
  <2> HIDE DEF R
  <2>. QED BY <1>1, WFMin
<1>3. PICK x \in S : \A y \in S : <<y, x>> \notin R
  BY <1>2
<1>4. \A y \in S : ~(y < x)
  BY <1>3 DEF OpToRel
<1>5. \A y \in S : x =< y
  BY <1>4
<1>. QED BY <1>5 DEF Min

LEMMA LeastOfTwo ==
    ASSUME NEW x \in Int, NEW y \in Int
    PROVE  Min({x, y}) = (IF x <= y THEN x ELSE y) /\ Max({x, y}) = (IF x <= y THEN y ELSE x)
BY DEF Min, Max

LEMMA NoneInSequence == SetToSeq({}) = <<>>
<1>1. Cardinality({}) = 0
  BY FS_EmptySet
<1>2. SetToSeq({}) = CHOOSE f \in [1 .. 0 -> {}] : IsInjective(f)
  BY <1>1 DEF SetToSeq
<1>3. <<>> \in [1 .. 0 -> {}] /\ IsInjective(<<>>) /\ \A f \in [1 .. 0 -> {}] : f = <<>>
  BY DEF IsInjective
<1>. QED BY <1>2, <1>3

LEMMA OneInSequence ==
    ASSUME NEW x
    PROVE  SetToSeq({x}) = <<x>>
<1>1. Cardinality({x}) = 1
  BY FS_Singleton
<1>2. SetToSeq({x}) = CHOOSE f \in [1 .. 1 -> {x}] : IsInjective(f)
  BY <1>1 DEF SetToSeq
<1>3. <<x>> \in [1 .. 1 -> {x}] /\ IsInjective(<<x>>) /\ \A f \in [1 .. 1 -> {x}] : f = <<x>>
  BY DEF IsInjective
<1>. QED BY <1>2, <1>3

--------------------------------------------------------------------------
(* The line: what was taken, what is in the queue, what waits to be let in.  *)

OfferLoops == [is : {"offers"}, n : Int, entry : Nat]
Loop(x) == [is |-> "takers", first |-> x]
Frames == {Fiber(f) : f \in Fibers} \cup OfferLoops \cup {Loop(x) : x \in BOOLEAN}

HandoverPlaces == {"idle", "offering", "offerWaits", "woken", "awaitTake", "takeWaits",
                   "took", "rendezvous", "defect"}
QueueTyped ==
  /\ messages \in Seq(Nat) /\ taken \in Seq(Nat) /\ takers \in Seq(Consumers)
  /\ offers \subseteq Nat \ {0} /\ waiting \in [Fibers -> Nat]
  /\ tag \in {"Open", "Closing", "Done"}
  /\ capacity \in Nat /\ last \in Nat /\ releases \in Nat /\ scheduleRunning \in BOOLEAN
  /\ place \in [Fibers -> HandoverPlaces] /\ stack \in Seq(Frames)

Increasing(s) == \A i, j \in DOMAIN s : i < j => s[i] < s[j]
Precedes(s, S) == \A v \in S : \A i \in DOMAIN s : s[i] < v

Outside == offers \ LetIn
Line == /\ Increasing(taken) /\ Increasing(messages)
        /\ Precedes(taken, ToSet(messages)) /\ Precedes(taken, Outside) /\ Precedes(messages, Outside)
        /\ \A i \in DOMAIN taken : taken[i] <= last
        /\ \A i \in DOMAIN messages : messages[i] <= last
        /\ Outside \subseteq 0 .. last

LineStep == Line' /\ [Promised!Next]_(Promised!vars)

LEMMA SetOfAppend ==
    ASSUME NEW s \in Seq(Nat), NEW x \in Nat
    PROVE  ToSet(Append(s, x)) = ToSet(s) \cup {x}
<1>1. /\ DOMAIN Append(s, x) = 1 .. Len(s) + 1 /\ DOMAIN s = 1 .. Len(s) /\ Len(s) \in Nat
      /\ Append(s, x)[Len(s) + 1] = x
      /\ \A i \in 1 .. Len(s) : Append(s, x)[i] = s[i]
  OBVIOUS
<1>. QED BY <1>1 DEF ToSet

LEMMA IncreasingAppend ==
    ASSUME NEW s \in Seq(Nat), NEW x \in Nat, Increasing(s), \A i \in DOMAIN s : s[i] < x
    PROVE  Increasing(Append(s, x))
<1>1. /\ DOMAIN Append(s, x) = 1 .. Len(s) + 1 /\ DOMAIN s = 1 .. Len(s) /\ Len(s) \in Nat
      /\ Append(s, x)[Len(s) + 1] = x
      /\ \A i \in 1 .. Len(s) : Append(s, x)[i] = s[i] /\ s[i] \in Nat
  OBVIOUS
<1>. QED BY <1>1 DEF Increasing

LEMMA SplitFacts ==
    ASSUME NEW s \in Seq(Nat), NEW k \in 0 .. Len(s), Increasing(s)
    PROVE  LET pre == SubSeq(s, 1, k)
               post == SubSeq(s, k + 1, Len(s))
           IN /\ pre \in Seq(Nat) /\ post \in Seq(Nat)
              /\ Len(pre) = k /\ Len(post) = Len(s) - k
              /\ Increasing(pre) /\ Increasing(post)
              /\ \A v \in ToSet(pre), w \in ToSet(post) : v < w
              /\ ToSet(s) = ToSet(pre) \cup ToSet(post)
              /\ \A i \in DOMAIN pre : pre[i] \in ToSet(s) /\ pre[i] \in ToSet(pre)
              /\ \A i \in DOMAIN post : post[i] \in ToSet(s) /\ post[i] \in ToSet(post)
<1> DEFINE pre == SubSeq(s, 1, k)
           post == SubSeq(s, k + 1, Len(s))
<1>1. /\ pre \in Seq(Nat) /\ Len(pre) = k /\ \A i \in 1 .. k : pre[i] = s[i]
      /\ DOMAIN pre = 1 .. k
  BY SubSeqProperties
<1>2. /\ post \in Seq(Nat) /\ Len(post) = Len(s) - k /\ \A i \in 1 .. Len(s) - k : post[i] = s[k + i]
      /\ DOMAIN post = 1 .. Len(s) - k
  OBVIOUS
<1>3. DOMAIN s = 1 .. Len(s) /\ Len(s) \in Nat /\ k \in Nat /\ \A i \in 1 .. Len(s) : s[i] \in Nat
  OBVIOUS
<1> HIDE DEF pre, post
<1>0. /\ \A i \in 1 .. k : i \in 1 .. Len(s)
      /\ \A i \in 1 .. Len(s) - k : k + i \in 1 .. Len(s) /\ k + i > k
  BY <1>3
<1>4. Increasing(pre) /\ Increasing(post)
  <2>1. Increasing(pre)
    BY <1>0, <1>1, <1>3 DEF Increasing
  <2>2. ASSUME NEW i \in 1 .. Len(s) - k, NEW j \in 1 .. Len(s) - k, i < j
        PROVE  post[i] < post[j]
    <3>1. k + i < k + j
      BY <1>3, <2>2
    <3>. QED BY <1>0, <1>2, <1>3, <3>1 DEF Increasing
  <2>. QED BY <1>2, <2>1, <2>2 DEF Increasing
<1>5. \A v \in ToSet(pre), w \in ToSet(post) : v < w
  <2>1. ASSUME NEW i \in 1 .. k, NEW j \in 1 .. Len(s) - k
        PROVE  pre[i] < post[j]
    <3>1. i < k + j
      BY <1>3
    <3>. QED BY <1>0, <1>1, <1>2, <1>3, <3>1 DEF Increasing
  <2>. QED BY <1>1, <1>2, <2>1 DEF ToSet
<1>6. \A i \in 1 .. Len(s) : i <= k \/ (i - k \in 1 .. Len(s) - k /\ s[i] = post[i - k])
  BY <1>2, <1>3
<1>7. ToSet(s) = ToSet(pre) \cup ToSet(post)
  <2>1. \A i \in 1 .. Len(s) : s[i] \in ToSet(pre) \cup ToSet(post)
    <3> TAKE i \in 1 .. Len(s)
    <3>1. CASE i <= k
      <4>1. i \in 1 .. k
        BY <1>3, <3>1
      <4>. QED BY <1>1, <4>1 DEF ToSet
    <3>2. CASE ~(i <= k)
      BY <1>2, <1>6, <3>2 DEF ToSet
    <3>. QED BY <3>1, <3>2
  <2>2. ToSet(pre) \subseteq ToSet(s)
    BY <1>0, <1>1, <1>3 DEF ToSet
  <2>3. ToSet(post) \subseteq ToSet(s)
    <3>1. \A i \in 1 .. Len(s) - k : post[i] \in ToSet(s)
      BY <1>0, <1>2, <1>3 DEF ToSet
    <3>. QED BY <1>2, <3>1 DEF ToSet
  <2>. QED BY <1>3, <2>1, <2>2, <2>3 DEF ToSet
<1>8. /\ \A i \in DOMAIN pre : pre[i] \in ToSet(pre)
      /\ \A i \in DOMAIN post : post[i] \in ToSet(post)
  BY DEF ToSet
<1>. QED BY <1>1, <1>2, <1>4, <1>5, <1>7, <1>8 DEF pre, post

LEMMA JoinFacts ==
    ASSUME NEW s \in Seq(Nat), NEW t \in Seq(Nat)
    PROVE  /\ s \o t \in Seq(Nat) /\ SubSeq(s \o t, Len(s) + 1, Len(s \o t)) = t
           /\ \A i \in DOMAIN (s \o t) : \/ i \in DOMAIN s /\ (s \o t)[i] = s[i]
                                         \/ \E j \in DOMAIN t : i = Len(s) + j /\ (s \o t)[i] = t[j]
           /\ ToSet(s \o t) = ToSet(s) \cup ToSet(t)
<1>1. /\ s \o t \in Seq(Nat) /\ Len(s \o t) = Len(s) + Len(t)
      /\ \A i \in 1 .. Len(s) : (s \o t)[i] = s[i]
      /\ \A j \in 1 .. Len(t) : (s \o t)[Len(s) + j] = t[j]
  BY ConcatProperties
<1>2. DOMAIN s = 1 .. Len(s) /\ DOMAIN t = 1 .. Len(t) /\ DOMAIN (s \o t) = 1 .. Len(s) + Len(t)
      /\ Len(s) \in Nat /\ Len(t) \in Nat
  BY <1>1
<1>3. SubSeq(s \o t, Len(s) + 1, Len(s \o t)) = t
  <2> DEFINE u == SubSeq(s \o t, Len(s) + 1, Len(s \o t))
  <2>1. u \in Seq(Nat) /\ Len(u) = Len(t) /\ \A j \in 1 .. Len(t) : u[j] = (s \o t)[Len(s) + j]
    BY <1>1, <1>2, SubSeqProperties
  <2>. QED BY <1>1, <1>2, <2>1, SeqEqual
<1>4. \A i \in 1 .. Len(s) + Len(t) : i \in 1 .. Len(s) \/ \E j \in 1 .. Len(t) : i = Len(s) + j
  <2> SUFFICES ASSUME NEW i \in 1 .. Len(s) + Len(t), ~(i \in 1 .. Len(s))
               PROVE  \E j \in 1 .. Len(t) : i = Len(s) + j
    OBVIOUS
  <2>1. i - Len(s) \in 1 .. Len(t) /\ i = Len(s) + (i - Len(s))
    BY <1>2
  <2>. QED BY <2>1
<1>5. \A i \in DOMAIN (s \o t) : \/ i \in DOMAIN s /\ (s \o t)[i] = s[i]
                                 \/ \E j \in DOMAIN t : i = Len(s) + j /\ (s \o t)[i] = t[j]
  <2> TAKE i \in DOMAIN (s \o t)
  <2>1. CASE i \in 1 .. Len(s)
    BY <1>1, <1>2, <2>1
  <2>2. CASE \E j \in 1 .. Len(t) : i = Len(s) + j
    <3>1. PICK j \in 1 .. Len(t) : i = Len(s) + j
      BY <2>2
    <3>2. (s \o t)[i] = t[j] /\ j \in DOMAIN t
      BY <1>1, <1>2, <3>1
    <3>. QED BY <3>1, <3>2
  <2>. QED BY <1>2, <1>4, <2>1, <2>2
<1>6. /\ \A i \in DOMAIN s : s[i] \in ToSet(s \o t)
      /\ \A j \in DOMAIN t : t[j] \in ToSet(s \o t)
  <2>1. /\ \A i \in 1 .. Len(s) : i \in 1 .. Len(s) + Len(t)
        /\ \A j \in 1 .. Len(t) : Len(s) + j \in 1 .. Len(s) + Len(t)
    BY <1>2
  <2>. QED BY <1>1, <1>2, <2>1 DEF ToSet
<1>7. ToSet(s \o t) = ToSet(s) \cup ToSet(t)
  BY <1>5, <1>6 DEF ToSet
<1>. QED BY <1>1, <1>3, <1>5, <1>7

LEMMA IncreasingJoin ==
    ASSUME NEW s \in Seq(Nat), NEW t \in Seq(Nat), Increasing(s), Increasing(t), Precedes(s, ToSet(t))
    PROVE  Increasing(s \o t)
<1>1. SUFFICES ASSUME NEW i \in DOMAIN (s \o t), NEW j \in DOMAIN (s \o t), i < j
               PROVE  (s \o t)[i] < (s \o t)[j]
  BY DEF Increasing
<1>2. CASE i \in DOMAIN s /\ (s \o t)[i] = s[i] /\ j \in DOMAIN s /\ (s \o t)[j] = s[j]
  BY <1>1, <1>2 DEF Increasing
<1>3. CASE i \in DOMAIN s /\ (s \o t)[i] = s[i] /\ \E l \in DOMAIN t : (s \o t)[j] = t[l]
  BY <1>3 DEF Precedes, ToSet
<1>4. ASSUME NEW k \in DOMAIN t, i = Len(s) + k, (s \o t)[i] = t[k]
      PROVE  (s \o t)[i] < (s \o t)[j]
  <2>1. ~(j \in DOMAIN s)
    BY <1>1, <1>4
  <2>2. PICK l \in DOMAIN t : j = Len(s) + l /\ (s \o t)[j] = t[l]
    BY <2>1, JoinFacts
  <2>3. k < l
    BY <1>1, <1>4, <2>2
  <2>. QED BY <1>4, <2>2, <2>3 DEF Increasing
<1>5. CASE i \in DOMAIN s /\ (s \o t)[i] = s[i]
  <2>1. CASE j \in DOMAIN s /\ (s \o t)[j] = s[j]
    BY <1>2, <1>5, <2>1
  <2>2. CASE \E l \in DOMAIN t : (s \o t)[j] = t[l]
    BY <1>3, <1>5, <2>2
  <2>. QED BY <2>1, <2>2, JoinFacts
<1>. QED BY <1>4, <1>5, JoinFacts

USE DEF LineStep

LEMMA LineKept ==
    ASSUME Line, UNCHANGED <<messages, taken, last>>, Outside' = Outside
    PROVE  LineStep
<1>1. Line'
  BY DEF Line
<1>2. UNCHANGED Promised!vars
  BY DEF Promised!vars, Outside
<1>. QED BY <1>1, <1>2

LEMMA LineAdd ==
    ASSUME QueueTyped, Line, Outside = {}, Outside' = {},
           messages' = Append(messages, last + 1), last' = last + 1, UNCHANGED taken
    PROVE  LineStep
<1>1. messages \in Seq(Nat) /\ taken \in Seq(Nat) /\ last \in Nat /\ last + 1 \in Nat
  BY DEF QueueTyped
<1>2. /\ \A i \in DOMAIN messages : messages[i] < last + 1 /\ messages[i] \in Nat
      /\ \A i \in DOMAIN taken : taken[i] < last + 1 /\ taken[i] \in Nat
  BY <1>1 DEF Line
<1>3. Increasing(messages') /\ ToSet(messages') = ToSet(messages) \cup {last + 1}
  BY <1>1, <1>2, IncreasingAppend, SetOfAppend DEF Line
<1>4. \A i \in DOMAIN messages' : messages'[i] <= last'
  <2>1. \A v \in ToSet(messages') : v <= last + 1
    BY <1>1, <1>2, <1>3 DEF ToSet
  <2>. QED BY <2>1 DEF ToSet
<1>5. Precedes(taken, ToSet(messages'))
  BY <1>2, <1>3 DEF Precedes, Line
<1>6. Line'
  <2>1. \A i \in DOMAIN taken : taken[i] <= last + 1
    BY <1>1, <1>2
  <2>. QED BY <1>3, <1>4, <1>5, <2>1 DEF Line, Precedes
<1>7. Promised!Offer
  BY <1>3 DEF Promised!Offer, Outside
<1>. QED BY <1>6, <1>7 DEF Promised!Next

LEMMA LineSlide ==
    ASSUME QueueTyped, Line, Outside = {}, Outside' = {}, messages # <<>>,
           messages' = Append(Tail(messages), last + 1), last' = last + 1, UNCHANGED taken
    PROVE  LineStep
<1> DEFINE pre == SubSeq(messages, 1, 1)
           post == SubSeq(messages, 2, Len(messages))
<1>1. messages \in Seq(Nat) /\ taken \in Seq(Nat) /\ last \in Nat /\ last + 1 \in Nat
      /\ 1 \in 0 .. Len(messages)
  BY DEF QueueTyped
<1>2. /\ post \in Seq(Nat) /\ Increasing(post) /\ Tail(messages) = post
      /\ \A i \in DOMAIN post : post[i] \in ToSet(messages)
      /\ ToSet(messages) = ToSet(pre) \cup ToSet(post)
      /\ \A v \in ToSet(pre), w \in ToSet(post) : v < w
  <2>1. Tail(messages) = post
    BY <1>1, TailIsSubSeq
  <2>2. 1 + 1 = 2
    OBVIOUS
  <2>. QED BY <1>1, <2>1, <2>2, SplitFacts DEF Line
<1>3. ToSet(pre) = {messages[1]} /\ messages[1] \in Nat
  <2>1. DOMAIN pre = 1 .. 1 /\ pre[1] = messages[1] /\ messages[1] \in Nat
    <3>1. Len(messages) >= 1
      BY <1>1
    <3>. QED BY <1>1, <3>1, SubSeqProperties
  <2>. QED BY <2>1 DEF ToSet
<1> HIDE DEF pre, post
<1>4. /\ \A i \in DOMAIN post : post[i] < last + 1 /\ post[i] \in Nat
      /\ \A v \in ToSet(post) : v \in Nat /\ v <= last
      /\ \A i \in DOMAIN taken : taken[i] < last + 1 /\ taken[i] \in Nat
  <2>1. \A v \in ToSet(messages) : v \in Nat /\ v <= last
    BY <1>1 DEF Line, ToSet
  <2>2. \A v \in ToSet(post) : v \in Nat /\ v <= last
    BY <1>2, <2>1
  <2>3. \A i \in DOMAIN post : post[i] < last + 1 /\ post[i] \in Nat
    BY <1>1, <1>2, <2>1
  <2>4. \A i \in DOMAIN taken : taken[i] < last + 1 /\ taken[i] \in Nat
    BY <1>1 DEF Line
  <2>. QED BY <2>2, <2>3, <2>4
<1>5. Increasing(messages') /\ ToSet(messages') = ToSet(post) \cup {last + 1}
  BY <1>1, <1>2, <1>4, IncreasingAppend, SetOfAppend
<1>6. \A i \in DOMAIN messages' : messages'[i] <= last'
  <2>1. \A v \in ToSet(messages') : v <= last + 1
    BY <1>1, <1>4, <1>5
  <2>. QED BY <2>1 DEF ToSet
<1>7. Precedes(taken, ToSet(messages'))
  BY <1>2, <1>4, <1>5 DEF Precedes, Line
<1>8. Line'
  <2>1. \A i \in DOMAIN taken : taken[i] <= last + 1
    BY <1>1, <1>4
  <2>. QED BY <1>5, <1>6, <1>7, <2>1 DEF Line, Precedes
<1>9. \E v \in ToSet(messages) : Promised!Slide(v)
  <2>1. messages[1] \in ToSet(messages) /\ messages[1] \notin ToSet(post)
    BY <1>2, <1>3
  <2>2. \A w \in ToSet(messages) : messages[1] <= w
    BY <1>2, <1>3, <1>4
  <2>3. ToSet(messages') = (ToSet(messages) \ {messages[1]}) \cup {last + 1}
    BY <1>2, <1>3, <1>5, <2>1
  <2>. QED BY <2>1, <2>2, <2>3 DEF Promised!Slide, Outside
<1>. QED BY <1>8, <1>9 DEF Promised!Next

LEMMA LineRegister ==
    ASSUME QueueTyped, Line, Outside' = Outside \cup {last + 1},
           last' = last + 1, UNCHANGED <<messages, taken>>
    PROVE  LineStep
<1>1. messages \in Seq(Nat) /\ taken \in Seq(Nat) /\ last \in Nat
  BY DEF QueueTyped
<1>2. /\ \A i \in DOMAIN messages : messages[i] < last + 1 /\ messages[i] <= last + 1
      /\ \A i \in DOMAIN taken : taken[i] < last + 1 /\ taken[i] <= last + 1
  BY <1>1 DEF Line
<1>3. Outside' \subseteq 0 .. last + 1
  BY <1>1 DEF Line
<1>4. Line'
  BY <1>2, <1>3 DEF Line, Precedes
<1>5. Promised!Offer
  BY DEF Promised!Offer, Outside
<1>. QED BY <1>4, <1>5 DEF Promised!Next

LEMMA LineTake ==
    ASSUME QueueTyped, Line, Outside' = Outside, NEW k \in 0 .. Len(messages),
           messages' = SubSeq(messages, k + 1, Len(messages)),
           taken' = taken \o SubSeq(messages, 1, k), UNCHANGED last
    PROVE  LineStep
<1> DEFINE pre == SubSeq(messages, 1, k)
           post == SubSeq(messages, k + 1, Len(messages))
<1>1. messages \in Seq(Nat) /\ taken \in Seq(Nat) /\ last \in Nat
  BY DEF QueueTyped
<1>2. /\ pre \in Seq(Nat) /\ post \in Seq(Nat) /\ Increasing(pre) /\ Increasing(post)
      /\ \A v \in ToSet(pre), w \in ToSet(post) : v < w
      /\ ToSet(messages) = ToSet(pre) \cup ToSet(post)
      /\ \A i \in DOMAIN pre : pre[i] \in ToSet(messages) /\ pre[i] \in ToSet(pre)
      /\ \A i \in DOMAIN post : post[i] \in ToSet(messages) /\ post[i] \in ToSet(post)
  BY <1>1, SplitFacts DEF Line
<1>3. messages' = post /\ taken' = taken \o pre
  OBVIOUS
<1> HIDE DEF pre, post
<1>4. \A v \in ToSet(messages) : /\ v <= last
                                 /\ \A w \in Outside : v < w
                                 /\ \A i \in DOMAIN taken : taken[i] < v
  BY DEF Line, Precedes, ToSet
<1>5. /\ taken' \in Seq(Nat) /\ SubSeq(taken', Len(taken) + 1, Len(taken')) = pre
      /\ \A i \in DOMAIN taken' : \/ i \in DOMAIN taken /\ taken'[i] = taken[i]
                                  \/ \E j \in DOMAIN pre : taken'[i] = pre[j]
  <2>1. /\ taken \o pre \in Seq(Nat)
        /\ SubSeq(taken \o pre, Len(taken) + 1, Len(taken \o pre)) = pre
        /\ \A i \in DOMAIN (taken \o pre) :
              \/ i \in DOMAIN taken /\ (taken \o pre)[i] = taken[i]
              \/ \E j \in DOMAIN pre : i = Len(taken) + j /\ (taken \o pre)[i] = pre[j]
    BY <1>1, <1>2, JoinFacts
  <2>. QED BY <1>3, <2>1
<1>6. Increasing(taken')
  <2>1. Precedes(taken, ToSet(pre))
    BY <1>2, <1>4 DEF Precedes
  <2>. QED BY <1>1, <1>2, <1>3, <2>1, IncreasingJoin DEF Line
<1>7. Precedes(taken', ToSet(post)) /\ Precedes(taken', Outside) /\ Precedes(post, Outside)
  <2>1. Precedes(taken, ToSet(post)) /\ Precedes(taken, Outside)
    BY <1>2, <1>4 DEF Precedes, Line
  <2>2. Precedes(pre, ToSet(post)) /\ Precedes(pre, Outside) /\ Precedes(post, Outside)
    BY <1>2, <1>4 DEF Precedes
  <2>. QED BY <1>5, <2>1, <2>2 DEF Precedes
<1>8. /\ \A i \in DOMAIN taken' : taken'[i] <= last
      /\ \A i \in DOMAIN post : post[i] <= last
  BY <1>2, <1>4, <1>5 DEF Line
<1>9. Line'
  BY <1>2, <1>3, <1>6, <1>7, <1>8 DEF Line
<1>10. Promised!Take
  <2>1. ToSet(post) \cup Outside = (ToSet(messages) \cup Outside) \ ToSet(pre)
    <3>1. \A v \in ToSet(pre) : v \in Nat /\ v \notin ToSet(post) /\ v \notin Outside
      <4>1. \A v \in ToSet(messages) : v \in Nat
        BY <1>1 DEF ToSet
      <4>. QED BY <1>2, <1>4, <4>1
    <3>. QED BY <1>2, <3>1
  <2>2. \A v \in ToSet(pre), w \in ToSet(post) \cup Outside : v < w
    BY <1>2, <1>4
  <2>3. /\ taken' = taken \o pre /\ ToSet(pre) \subseteq ToSet(messages) \cup Outside
        /\ \A i, j \in DOMAIN pre : i < j => pre[i] < pre[j]
    BY <1>2, <1>3 DEF Increasing
  <2>4. (ToSet(messages) \cup Outside)' = ToSet(post) \cup Outside
    BY <1>3
  <2>5. SubSeq(taken', Len(taken) + 1, Len(taken')) = pre
    BY <1>5
  <2> DEFINE handed == SubSeq(taken', Len(taken) + 1, Len(taken'))
             content == ToSet(messages) \cup Outside
  <2>6. /\ taken' = taken \o handed /\ ToSet(handed) \subseteq content
        /\ \A i, j \in DOMAIN handed : i < j => handed[i] < handed[j]
        /\ content' = content \ ToSet(handed)
        /\ \A v \in ToSet(handed), w \in content' : v < w
    <3> HIDE DEF handed
    <3>1. handed = pre
      BY <2>5 DEF handed
    <3>. QED BY <2>1, <2>2, <2>3, <2>4, <3>1
  <2>. QED BY <2>6 DEF Promised!Take, Outside, ToSet, Promised!ToSet
<1>. QED BY <1>9, <1>10 DEF Promised!Next

LEMMA LineLetIn ==
    ASSUME QueueTyped, Line, NEW e \in Outside, \A w \in Outside : e <= w,
           Outside' = Outside \ {e}, messages' = Append(messages, e), UNCHANGED <<taken, last>>
    PROVE  LineStep
<1>1. messages \in Seq(Nat) /\ taken \in Seq(Nat) /\ last \in Nat /\ Outside \subseteq Nat /\ e \in Nat
  BY DEF QueueTyped, Outside
<1>2. /\ \A i \in DOMAIN messages : messages[i] < e
      /\ \A i \in DOMAIN taken : taken[i] < e
      /\ e <= last
  BY DEF Line, Precedes
<1>3. Increasing(messages') /\ ToSet(messages') = ToSet(messages) \cup {e}
  BY <1>1, <1>2, IncreasingAppend, SetOfAppend DEF Line
<1>4. \A v \in ToSet(messages') : /\ v <= last
                                  /\ \A w \in Outside' : v < w
                                  /\ \A i \in DOMAIN taken : taken[i] < v
  <2>1. \A v \in ToSet(messages) : /\ v <= last
                                   /\ \A w \in Outside : v < w
                                   /\ \A i \in DOMAIN taken : taken[i] < v
    BY DEF Line, Precedes, ToSet
  <2>2. \A w \in Outside' : e < w
    BY <1>1
  <2>. QED BY <1>2, <1>3, <2>1, <2>2
<1>5. \A i \in DOMAIN messages' : messages'[i] \in ToSet(messages')
  BY DEF ToSet
<1>6. Line'
  <2>1. Precedes(taken', Outside') /\ Outside' \subseteq 0 .. last
    BY DEF Line, Precedes
  <2>2. Precedes(taken', ToSet(messages')) /\ Precedes(messages', Outside')
    BY <1>4, <1>5 DEF Precedes
  <2>3. \A i \in DOMAIN messages' : messages'[i] <= last'
    BY <1>4, <1>5
  <2>4. Increasing(taken') /\ \A i \in DOMAIN taken' : taken'[i] <= last'
    BY DEF Line
  <2>. QED BY <1>3, <2>1, <2>2, <2>3, <2>4 DEF Line
<1>7. UNCHANGED Promised!vars
  <2>1. ToSet(messages') \cup Outside' = ToSet(messages) \cup Outside
    BY <1>3
  <2>. QED BY <2>1 DEF Promised!vars, Outside
<1>. QED BY <1>6, <1>7

LEMMA LineWithdraw ==
    ASSUME QueueTyped, Line, NEW v, Outside' = Outside \ {v}, UNCHANGED <<messages, taken, last>>
    PROVE  LineStep
<1>1. Line'
  BY DEF Line, Precedes
<1>2. CASE v \in Outside
  <2>1. v \notin ToSet(messages)
    BY <1>2 DEF Line, Precedes, ToSet, QueueTyped, Outside
  <2>2. Promised!Withdraw(v)
    BY <1>2, <2>1 DEF Promised!Withdraw, Outside
  <2>. QED BY <1>1, <1>2, <2>2 DEF Promised!Next, Outside
<1>3. CASE v \notin Outside
  BY <1>3, LineKept
<1>. QED BY <1>2, <1>3

LEMMA LineDiscard ==
    ASSUME Line, messages' = <<>>, Outside' = {}, UNCHANGED <<taken, last>>
    PROVE  LineStep
<1>1. ToSet(<<>>) = {} /\ DOMAIN <<>> = {}
  BY DEF ToSet
<1>2. Line'
  BY <1>1 DEF Line, Precedes, Increasing
<1>3. Promised!Discard
  BY <1>1 DEF Promised!Discard, Outside
<1>. QED BY <1>2, <1>3 DEF Promised!Next

--------------------------------------------------------------------------
(* What the stack does.                                                    *)

LEMMA FrameFacts ==
    /\ \A f \in Fibers : Fiber(f) \in Frames /\ Fiber(f).is = "fiber" /\ Fiber(f).of = f
    /\ \A x \in BOOLEAN : Loop(x) \in Frames /\ Loop(x).is = "takers" /\ Loop(x).first = x
    /\ \A l \in OfferLoops : l \in Frames /\ l.is = "offers" /\ l.n \in Int /\ l.entry \in Nat
    /\ TakersLoop = Loop(TRUE) /\ [TakersLoop EXCEPT !.first = FALSE] = Loop(FALSE)
    /\ \A n \in Int : /\ ReleaseLoop(n) \in OfferLoops
                      /\ ReleaseLoop(n).n = n /\ ReleaseLoop(n).entry = 0
<1>1. \A f \in Fibers : Fiber(f) \in Frames /\ Fiber(f).is = "fiber" /\ Fiber(f).of = f
  BY DEF Frames, Fiber
<1>2. \A x \in BOOLEAN : Loop(x) \in Frames /\ Loop(x).is = "takers" /\ Loop(x).first = x
  BY DEF Frames, Loop
<1>3. \A l \in OfferLoops : l \in Frames /\ l.is = "offers" /\ l.n \in Int /\ l.entry \in Nat
  BY DEF Frames, OfferLoops
<1>4. TakersLoop = Loop(TRUE) /\ [TakersLoop EXCEPT !.first = FALSE] = Loop(FALSE)
  <2>1. /\ TakersLoop \in [is : {"takers"}, first : BOOLEAN] /\ Loop(FALSE) \in [is : {"takers"}, first : BOOLEAN]
        /\ TakersLoop = Loop(TRUE)
    BY DEF TakersLoop, Loop
  <2>2. /\ [TakersLoop EXCEPT !.first = FALSE] \in [is : {"takers"}, first : BOOLEAN]
        /\ [TakersLoop EXCEPT !.first = FALSE].first = FALSE
        /\ [TakersLoop EXCEPT !.first = FALSE].is = "takers"
    BY <2>1
  <2>3. Loop(FALSE).first = FALSE /\ Loop(FALSE).is = "takers"
    BY DEF Loop
  <2>. QED BY <2>1, <2>2, <2>3
<1>5. \A n \in Int : /\ ReleaseLoop(n) \in OfferLoops
                     /\ ReleaseLoop(n).n = n /\ ReleaseLoop(n).entry = 0
  BY DEF OfferLoops, ReleaseLoop
<1>. QED BY <1>1, <1>2, <1>3, <1>4, <1>5

LEMMA OnFacts ==
    ASSUME QueueTyped, NEW f \in Fibers
    PROVE  /\ On(f) \in Seq(Frames) /\ On(f) # <<>> /\ LetInOf(On(f)) = LetIn
           /\ stack # <<>> => On(f) = stack
           /\ stack = <<>> => On(f) = Append(<<>>, Fiber(f))
<1>1. stack \in Seq(Frames) /\ Fiber(f) \in Frames /\ Fiber(f).is = "fiber" /\ <<>> \in Seq(Frames)
  BY FrameFacts DEF QueueTyped
<1>2. LetIn = LetInOf(stack)
  BY DEF LetIn, LetInOf
<1>3. CASE stack = <<>>
  <2>1. On(f) = Append(<<>>, Fiber(f))
    BY <1>3 DEF On
  <2>2. LetInOf(On(f)) = {} /\ LetIn = {}
    BY <1>1, <1>2, <1>3, <2>1, LetInAppend, LetInNone
  <2>. QED BY <1>1, <1>3, <2>1, <2>2, OnTop
<1>4. CASE stack # <<>>
  BY <1>1, <1>2, <1>4 DEF On
<1>. QED BY <1>3, <1>4

LEMMA TopFacts ==
    ASSUME NEW s \in Seq(Frames), s # <<>>
    PROVE  /\ Front(s) \in Seq(Frames) /\ Last(s) \in Frames /\ s = Append(Front(s), Last(s))
           /\ LetInOf(s) = LetInOf(Front(s)) \cup (IF Last(s).is = "offers" THEN {Last(s).entry} ELSE {})
<1>1. Len(s) \in Nat \ {0} /\ DOMAIN s = 1 .. Len(s) /\ Last(s) = s[Len(s)] /\ Last(s) \in Frames
  BY DEF Last
<1>2. /\ Front(s) \in Seq(Frames) /\ Len(Front(s)) = Len(s) - 1
      /\ \A i \in 1 .. Len(s) - 1 : Front(s)[i] = s[i]
  BY <1>1, SubSeqProperties DEF Front
<1>3. s = Append(Front(s), Last(s))
  <2> DEFINE t == Append(Front(s), Last(s))
  <2>1. /\ t \in Seq(Frames) /\ Len(t) = Len(s) /\ t[Len(s)] = s[Len(s)]
        /\ \A i \in 1 .. Len(s) - 1 : t[i] = s[i]
    <3>1. /\ t \in Seq(Frames) /\ Len(t) = Len(Front(s)) + 1 /\ t[Len(Front(s)) + 1] = Last(s)
          /\ \A i \in 1 .. Len(Front(s)) : t[i] = Front(s)[i]
      <4>1. \A a \in Seq(Frames), x \in Frames :
               /\ Append(a, x) \in Seq(Frames) /\ Len(Append(a, x)) = Len(a) + 1
               /\ Append(a, x)[Len(a) + 1] = x
               /\ \A i \in 1 .. Len(a) : Append(a, x)[i] = a[i]
        BY Appended
      <4>. QED BY <1>1, <1>2, <4>1, Zenon
    <3>2. Len(Front(s)) + 1 = Len(s)
      BY <1>1, <1>2
    <3> HIDE DEF t
    <3>. QED BY <1>1, <1>2, <3>1, <3>2
  <2>2. \A i \in 1 .. Len(s) : t[i] = s[i]
    <3> HIDE DEF t
    <3>. QED BY <1>1, <2>1
  <2>. QED BY <2>1, <2>2, SeqEqual
<1>4. LetInOf(Append(Front(s), Last(s)))
      = LetInOf(Front(s)) \cup (IF Last(s).is = "offers" THEN {Last(s).entry} ELSE {})
  BY <1>1, <1>2, LetInAppend
<1>. QED BY <1>1, <1>2, <1>3, <1>4

LEMMA Moves ==
    ASSUME QueueTyped, NEW f \in Fibers, Runs(f), NEW p \in HandoverPlaces
    PROVE  /\ Continues(f, p) => /\ stack' \in Seq(Frames) /\ place' \in [Fibers -> HandoverPlaces]
                                 /\ LetIn' = LetIn
           /\ Leaves(f, p) => /\ stack' \in Seq(Frames) /\ place' \in [Fibers -> HandoverPlaces]
                              /\ LetIn' = LetIn
           /\ \A x \in BOOLEAN : Calls(f, p, Loop(x)) =>
                /\ stack' \in Seq(Frames) /\ place' \in [Fibers -> HandoverPlaces]
                /\ LetIn' = LetIn
           /\ \A n \in Int : Calls(f, p, ReleaseLoop(n)) =>
                /\ stack' \in Seq(Frames) /\ place' \in [Fibers -> HandoverPlaces]
                /\ LetIn' = LetIn \cup {0}
<1>1. On(f) \in Seq(Frames) /\ On(f) # <<>> /\ LetInOf(On(f)) = LetIn
  BY OnFacts
<1>2. [place EXCEPT ![f] = p] \in [Fibers -> HandoverPlaces]
  BY DEF QueueTyped
<1>3. LetIn' = LetInOf(stack')
  BY DEF LetIn, LetInOf
<1>4. Front(On(f)) \in Seq(Frames) /\ LetInOf(Front(On(f))) = LetIn
  <2>1. Last(On(f)).is = "fiber"
    BY FrameFacts DEF Runs
  <2>. QED BY <1>1, <2>1, TopFacts
<1>5. \A x \in BOOLEAN : Append(On(f), Loop(x)) \in Seq(Frames) /\ LetInOf(Append(On(f), Loop(x))) = LetIn
  <2> TAKE x \in BOOLEAN
  <2>1. Loop(x) \in Frames /\ Loop(x).is = "takers"
    BY FrameFacts
  <2>2. LetInOf(Append(On(f), Loop(x)))
        = LetInOf(On(f)) \cup (IF Loop(x).is = "offers" THEN {Loop(x).entry} ELSE {})
    BY <1>1, <2>1, LetInAppend
  <2>3. Append(On(f), Loop(x)) \in Seq(Frames)
    BY <1>1, <2>1, OnTop
  <2>. QED BY <1>1, <2>1, <2>2, <2>3
<1>6. \A n \in Int : /\ Append(On(f), ReleaseLoop(n)) \in Seq(Frames)
                     /\ LetInOf(Append(On(f), ReleaseLoop(n))) = LetIn \cup {0}
  <2> TAKE n \in Int
  <2>1. /\ ReleaseLoop(n) \in Frames /\ ReleaseLoop(n).is = "offers" /\ ReleaseLoop(n).entry = 0
    BY FrameFacts
  <2>. QED BY <1>1, <2>1, OnTop, LetInAppend
<1>7. ASSUME Continues(f, p)
      PROVE  /\ stack' \in Seq(Frames) /\ place' \in [Fibers -> HandoverPlaces]
             /\ LetIn' = LetIn
  BY <1>1, <1>2, <1>3, <1>7 DEF Continues
<1>8. ASSUME Leaves(f, p)
      PROVE  /\ stack' \in Seq(Frames) /\ place' \in [Fibers -> HandoverPlaces]
             /\ LetIn' = LetIn
  BY <1>2, <1>3, <1>4, <1>8 DEF Leaves
<1>9. ASSUME NEW x \in BOOLEAN, Calls(f, p, Loop(x))
      PROVE  /\ stack' \in Seq(Frames) /\ place' \in [Fibers -> HandoverPlaces]
             /\ LetIn' = LetIn
  BY <1>2, <1>3, <1>5, <1>9 DEF Calls
<1>10. ASSUME NEW n \in Int, Calls(f, p, ReleaseLoop(n))
       PROVE  /\ stack' \in Seq(Frames) /\ place' \in [Fibers -> HandoverPlaces]
              /\ LetIn' = LetIn \cup {0}
  BY <1>2, <1>3, <1>6, <1>10 DEF Calls
<1>. QED BY <1>7, <1>8, <1>9, <1>10

--------------------------------------------------------------------------
(* Every step keeps the types, and the line unless it lets a value past.     *)

LEMMA ContinuesOn ==
    ASSUME QueueTyped, NEW f \in Fibers, Runs(f), NEW p \in HandoverPlaces, Continues(f, p)
    PROVE  stack' \in Seq(Frames) /\ place' \in [Fibers -> HandoverPlaces] /\ LetIn' = LetIn
BY Moves

LEMMA LeavesOn ==
    ASSUME QueueTyped, NEW f \in Fibers, Runs(f), NEW p \in HandoverPlaces, Leaves(f, p)
    PROVE  stack' \in Seq(Frames) /\ place' \in [Fibers -> HandoverPlaces] /\ LetIn' = LetIn
BY Moves

LEMMA OfferTyped ==
    ASSUME QueueTyped, Strategy = "sliding" => capacity > 0, NEW f \in Fibers, Offer(f)
    PROVE  /\ QueueTyped'
           /\ Line /\ (last' # last => offers = {}) => LineStep
<1> USE DEF HandoverPlaces
<1>0. /\ Runs(f) /\ messages \in Seq(Nat) /\ last \in Nat /\ releases \in Nat
      /\ UNCHANGED <<offers, waiting, takers, tag, capacity>>
  BY DEF Offer, QueueTyped
<1>1. CASE OfferStays(f)
  <2>1. /\ Continues(f, "idle") /\ UNCHANGED <<messages, scheduleRunning, releases, last, taken>>
    BY <1>1 DEF OfferStays, scheduleVars, history
  <2>2. stack' \in Seq(Frames) /\ place' \in [Fibers -> HandoverPlaces] /\ LetIn' = LetIn
    BY <1>0, <2>1, ContinuesOn
  <2>3. QueueTyped'
    BY <1>0, <2>1, <2>2 DEF QueueTyped
  <2>4. Outside' = Outside
    BY <1>0, <2>2 DEF Outside
  <2>. QED BY <2>1, <2>3, <2>4, LineKept
<1>2. CASE /\ tag = "Open" /\ Continues(f, "idle") /\ NewValue
           /\ messages' = Append(messages, last') /\ ScheduleReleaseTaker
  <2>1. /\ last' = last + 1 /\ UNCHANGED taken /\ messages' = Append(messages, last + 1)
        /\ scheduleRunning' \in BOOLEAN /\ releases' \in Nat
    BY <1>0, <1>2 DEF NewValue, ScheduleReleaseTaker, QueueTyped
  <2>2. stack' \in Seq(Frames) /\ place' \in [Fibers -> HandoverPlaces] /\ LetIn' = LetIn
    BY <1>0, <1>2, ContinuesOn
  <2>3. QueueTyped'
    BY <1>0, <2>1, <2>2 DEF QueueTyped
  <2>4. offers = {} => Outside = {} /\ Outside' = {}
    BY <1>0 DEF Outside
  <2>5. last' # last
    BY <1>0, <2>1
  <2>. QED BY <2>1, <2>3, <2>4, <2>5, LineAdd
<1>3. CASE /\ Len(messages) >= capacity /\ Strategy = "sliding" /\ Continues(f, "idle") /\ NewValue
           /\ messages' = Append(Slid, last') /\ UNCHANGED scheduleVars
  <2>0. messages # <<>> /\ Tail(messages) \in Seq(Nat)
    BY <1>0, <1>3 DEF QueueTyped
  <2>1. /\ last' = last + 1 /\ UNCHANGED <<taken, scheduleRunning, releases>>
        /\ messages' = Append(Tail(messages), last + 1)
    BY <1>0, <1>3 DEF NewValue, Slid, scheduleVars
  <2>2. stack' \in Seq(Frames) /\ place' \in [Fibers -> HandoverPlaces] /\ LetIn' = LetIn
    BY <1>0, <1>3, ContinuesOn
  <2>3. QueueTyped'
    <3>1. messages' \in Seq(Nat) /\ last' \in Nat
      BY <1>0, <2>0, <2>1
    <3>. QED BY <1>0, <2>1, <2>2, <3>1 DEF QueueTyped
  <2>4. offers = {} => Outside = {} /\ Outside' = {}
    BY <1>0 DEF Outside
  <2>5. last' # last
    BY <1>0, <2>1
  <2>. QED BY <2>0, <2>1, <2>3, <2>4, <2>5, LineSlide
<1>4. CASE /\ Calls(f, "idle", TakersLoop) /\ scheduleRunning' = FALSE /\ NewValue
           /\ messages' = Append(messages, last') /\ UNCHANGED releases
  <2>1. /\ last' = last + 1 /\ UNCHANGED <<taken, releases>> /\ messages' = Append(messages, last + 1)
        /\ scheduleRunning' = FALSE
    BY <1>0, <1>4 DEF NewValue
  <2>2. stack' \in Seq(Frames) /\ place' \in [Fibers -> HandoverPlaces] /\ LetIn' = LetIn
    <3>1. Calls(f, "idle", Loop(TRUE))
      BY <1>4, FrameFacts
    <3>. QED BY <1>0, <3>1, Moves
  <2>3. QueueTyped'
    <3>0. last + 1 \in Nat /\ Append(messages, last + 1) \in Seq(Nat)
      BY <1>0, Appended
    <3>1. messages' \in Seq(Nat) /\ last' \in Nat /\ scheduleRunning' \in BOOLEAN /\ releases' \in Nat
      BY <1>0, <2>1, <3>0
    <3>. QED BY <1>0, <2>1, <2>2, <3>1 DEF QueueTyped
  <2>4. offers = {} => Outside = {} /\ Outside' = {}
    BY <1>0 DEF Outside
  <2>5. last' # last
    BY <1>0, <2>1
  <2>. QED BY <2>1, <2>3, <2>4, <2>5, LineAdd
<1>5. CASE Continues(f, "offering") /\ UNCHANGED <<messages, scheduleVars, history>>
  <2>1. UNCHANGED <<messages, scheduleRunning, releases, last, taken>>
    BY <1>5 DEF scheduleVars, history
  <2>2. stack' \in Seq(Frames) /\ place' \in [Fibers -> HandoverPlaces] /\ LetIn' = LetIn
    BY <1>0, <1>5, ContinuesOn
  <2>3. QueueTyped'
    BY <1>0, <2>1, <2>2 DEF QueueTyped
  <2>4. Outside' = Outside
    BY <1>0, <2>2 DEF Outside
  <2>. QED BY <2>1, <2>3, <2>4, LineKept
<1>. QED BY <1>1, <1>2, <1>3, <1>4, <1>5 DEF Offer

LEMMA RegisterTyped ==
    ASSUME QueueTyped, NEW f \in Fibers, RegisterOffer(f)
    PROVE  /\ QueueTyped'
           /\ Line /\ last + 1 \notin LetIn => LineStep
<1> USE DEF HandoverPlaces
<1>0. /\ Runs(f) /\ last \in Nat
      /\ UNCHANGED <<messages, takers, tag, capacity, scheduleRunning, releases>>
  BY DEF RegisterOffer, QueueTyped, scheduleVars
<1>1. CASE Continues(f, "idle") /\ UNCHANGED <<offers, waiting, history>>
  <2>1. UNCHANGED <<offers, waiting, last, taken>>
    BY <1>1 DEF history
  <2>2. stack' \in Seq(Frames) /\ place' \in [Fibers -> HandoverPlaces] /\ LetIn' = LetIn
    BY <1>0, <1>1, ContinuesOn
  <2>3. QueueTyped'
    BY <1>0, <2>1, <2>2 DEF QueueTyped
  <2>4. Outside' = Outside
    BY <2>1, <2>2 DEF Outside
  <2>. QED BY <1>0, <2>1, <2>3, <2>4, LineKept
<1>2. CASE /\ Leaves(f, "offerWaits") /\ NewValue
           /\ offers' = offers \cup {last'} /\ waiting' = [waiting EXCEPT ![f] = last']
  <2>1. /\ last' = last + 1 /\ UNCHANGED taken /\ offers' = offers \cup {last + 1}
        /\ waiting' = [waiting EXCEPT ![f] = last + 1]
    BY <1>2 DEF NewValue
  <2>2. stack' \in Seq(Frames) /\ place' \in [Fibers -> HandoverPlaces] /\ LetIn' = LetIn
    BY <1>0, <1>2, LeavesOn
  <2>3. QueueTyped'
    <3>1. /\ waiting' \in [Fibers -> Nat] /\ offers' \subseteq Nat \ {0} /\ last' \in Nat
      BY <1>0, <2>1 DEF QueueTyped
    <3>. QED BY <1>0, <2>1, <2>2, <3>1 DEF QueueTyped
  <2>4. last + 1 \notin LetIn => Outside' = Outside \cup {last + 1}
    BY <2>1, <2>2 DEF Outside
  <2>. QED BY <1>0, <2>1, <2>3, <2>4, LineRegister
<1>. QED BY <1>1, <1>2 DEF RegisterOffer

LEMMA FinalizeTyped ==
    ASSUME QueueTyped, NEW p \in [Fibers -> HandoverPlaces], Finalize(p)
    PROVE  /\ tag' = "Done" /\ takers' = <<>> /\ takers' \in Seq(Consumers)
           /\ place' \in [Fibers -> HandoverPlaces]
           /\ \A g \in Fibers : place'[g] = IF place[g] = "takeWaits" THEN "idle" ELSE p[g]
BY DEF Finalize, HandoverPlaces

LEMMA ReleaseTyped ==
    ASSUME QueueTyped, NEW f \in Fibers, Runs(f), NEW room \in Int, ReleaseCapacity(f, "took", room)
    PROVE  /\ stack' \in Seq(Frames) /\ place' \in [Fibers -> HandoverPlaces]
           /\ tag' \in {"Open", "Closing", "Done"} /\ takers' \in Seq(Consumers)
           /\ LetIn' = LetIn \/ LetIn' = LetIn \cup {0}
<1>0. "took" \in HandoverPlaces
  BY DEF HandoverPlaces
<1>1. CASE Calls(f, "took", ReleaseLoop(room)) /\ UNCHANGED <<tag, takers>>
  <2>1. stack' \in Seq(Frames) /\ place' \in [Fibers -> HandoverPlaces] /\ LetIn' = LetIn \cup {0}
    BY <1>0, <1>1, Moves
  <2>. QED BY <1>1, <2>1 DEF QueueTyped
<1>2. CASE Finalize([place EXCEPT ![f] = "took"]) /\ stack' = On(f)
  <2>1. [place EXCEPT ![f] = "took"] \in [Fibers -> HandoverPlaces]
    BY <1>0 DEF QueueTyped
  <2>2. LetIn' = LetIn /\ stack' \in Seq(Frames)
    BY <1>2, OnFacts DEF LetIn, LetInOf
  <2>. QED BY <1>2, <2>1, <2>2, FinalizeTyped
<1>3. CASE Continues(f, "took") /\ UNCHANGED <<tag, takers>>
  <2>1. stack' \in Seq(Frames) /\ place' \in [Fibers -> HandoverPlaces] /\ LetIn' = LetIn
    BY <1>0, <1>3, ContinuesOn
  <2>. QED BY <1>3, <2>1 DEF QueueTyped
<1>. QED BY <1>1, <1>2, <1>3 DEF ReleaseCapacity

LEMMA TakesFacts ==
    ASSUME QueueTyped, NEW f \in Fibers, NEW k \in 0 .. Len(messages), Takes(f, k)
    PROVE  /\ messages' \in Seq(Nat) /\ Len(messages') = Len(messages) - k
           /\ taken' \in Seq(Nat)
<1>1. messages \in Seq(Nat) /\ taken \in Seq(Nat)
  BY DEF QueueTyped
<1>2. /\ SubSeq(messages, 1, k) \in Seq(Nat) /\ SubSeq(messages, k + 1, Len(messages)) \in Seq(Nat)
      /\ Len(SubSeq(messages, k + 1, Len(messages))) = Len(messages) - k
  BY <1>1
<1>3. taken \o SubSeq(messages, 1, k) \in Seq(Nat)
  BY <1>1, <1>2
<1>. QED BY <1>2, <1>3 DEF Takes

\* How many values a take that finds enough hands over.
LEMMA Amount ==
    ASSUME QueueAssumption, QueueTyped, NEW min \in {Least, 1},
           Min({min, Max({1, capacity})}) <= Len(messages)
    PROVE  /\ Len(messages) >= 1
           /\ Min({Most, Len(messages)}) \in 1 .. Len(messages)
           /\ Most = 1 => Min({Most, Len(messages)}) = 1
           /\ Len(messages) <= 1 => Min({Most, Len(messages)}) = 1
<1>1. /\ min \in Nat \ {0} /\ Most \in Nat \ {0} /\ capacity \in Int /\ Len(messages) \in Nat /\ min \in Int
      /\ Most \in Int /\ Len(messages) \in Int
  BY DEF QueueAssumption, QueueTyped
<1>2. Max({1, capacity}) = (IF 1 <= capacity THEN capacity ELSE 1)
  <2>1. \A x, y \in Int : Max({x, y}) = (IF x <= y THEN y ELSE x)
    BY LeastOfTwo
  <2>2. 1 \in Int /\ capacity \in Int
    BY <1>1
  <2>. QED BY <2>1, <2>2
<1>3. Max({1, capacity}) \in Int /\ Max({1, capacity}) >= 1
  BY <1>1, <1>2
<1>4. Min({min, Max({1, capacity})}) = (IF min <= Max({1, capacity}) THEN min ELSE Max({1, capacity}))
  BY <1>1, <1>3, LeastOfTwo
<1>5. Len(messages) >= 1
  BY <1>1, <1>3, <1>4
<1>6. Min({Most, Len(messages)}) = (IF Most <= Len(messages) THEN Most ELSE Len(messages))
  BY <1>1, LeastOfTwo
<1>. QED BY <1>1, <1>5, <1>6

LEMMA TakeFromTyped ==
    ASSUME QueueAssumption, QueueTyped, NEW f \in Fibers, Runs(f), NEW min \in {Least, 1},
           TakeFrom(f, min), UNCHANGED <<offers, waiting, scheduleVars, last>>
    PROVE  /\ QueueTyped'
           /\ Line => LineStep
<1> USE DEF HandoverPlaces
<1>0. /\ UNCHANGED <<offers, waiting, scheduleRunning, releases, last>>
      /\ messages \in Seq(Nat) /\ capacity \in Nat /\ Len(messages) \in Nat /\ 0 \notin offers
  BY DEF scheduleVars, QueueTyped
<1>1. ASSUME NEW p \in HandoverPlaces, Continues(f, p), UNCHANGED <<messages, takers, tag, capacity, hand, taken>>
      PROVE  QueueTyped' /\ (Line => LineStep)
  <2>1. stack' \in Seq(Frames) /\ place' \in [Fibers -> HandoverPlaces] /\ LetIn' = LetIn
    BY <1>1, ContinuesOn
  <2>2. Outside' = Outside
    BY <1>0, <2>1 DEF Outside
  <2>3. QueueTyped'
    BY <1>0, <1>1, <2>1 DEF QueueTyped
  <2>. QED BY <1>0, <1>1, <2>2, <2>3, LineKept
<1>2. CASE TakeSome(f, min)
  <2> DEFINE k == Min({Most, Len(messages)})
  <2>1. k \in 0 .. Len(messages) /\ Takes(f, k) /\ UNCHANGED capacity
    <3>1. Min({min, Max({1, capacity})}) <= Len(messages) /\ Takes(f, k) /\ UNCHANGED capacity
      BY <1>2 DEF TakeSome
    <3>2. k \in 1 .. Len(messages)
      BY <3>1, Amount
    <3> HIDE DEF k
    <3>. QED BY <1>0, <3>1, <3>2
  <2>2. messages' \in Seq(Nat) /\ taken' \in Seq(Nat)
    BY <2>1, TakesFacts
  <2>3. /\ stack' \in Seq(Frames) /\ place' \in [Fibers -> HandoverPlaces]
        /\ tag' \in {"Open", "Closing", "Done"} /\ takers' \in Seq(Consumers)
        /\ LetIn' = LetIn \/ LetIn' = LetIn \cup {0}
    <3>1. capacity - Len(messages') \in Int
      BY <1>0, <2>2
    <3>2. ReleaseCapacity(f, "took", capacity - Len(messages'))
      BY <1>2 DEF TakeSome
    <3>. QED BY <3>1, <3>2, ReleaseTyped
  <2>4. Outside' = Outside
    BY <1>0, <2>3 DEF Outside
  <2>5. QueueTyped'
    BY <1>0, <2>1, <2>2, <2>3 DEF QueueTyped
  <2> HIDE DEF k
  <2>. QED BY <1>0, <2>1, <2>4, <2>5, LineTake DEF Takes
<1>3. CASE /\ capacity' = 1 /\ Calls(f, "rendezvous", ReleaseLoop(1 - Len(messages)))
           /\ UNCHANGED <<messages, takers, tag, hand, taken>>
  <2>1. /\ stack' \in Seq(Frames) /\ place' \in [Fibers -> HandoverPlaces]
        /\ LetIn' = LetIn \cup {0}
    <3>1. 1 - Len(messages) \in Int
      BY <1>0
    <3>. QED BY <1>3, <3>1, Moves
  <2>2. Outside' = Outside
    BY <1>0, <2>1 DEF Outside
  <2>3. QueueTyped'
    BY <1>0, <1>3, <2>1 DEF QueueTyped
  <2>. QED BY <1>0, <1>3, <2>2, <2>3, LineKept
<1>. QED BY <1>1, <1>2, <1>3 DEF TakeFrom

LEMMA TakeTyped ==
    ASSUME QueueAssumption, QueueTyped, NEW f \in Fibers, Take(f) \/ TakeAgain(f)
    PROVE  /\ QueueTyped'
           /\ Line => LineStep
<1>1. CASE Take(f)
  <2>1. Runs(f) /\ TakeFrom(f, Least) /\ UNCHANGED <<offers, waiting, scheduleVars, last>>
    BY <1>1 DEF Take
  <2>. QED BY <2>1, TakeFromTyped
<1>2. CASE TakeAgain(f)
  <2>1. Runs(f) /\ TakeFrom(f, 1) /\ UNCHANGED <<offers, waiting, scheduleVars, last>>
    BY <1>2 DEF TakeAgain
  <2>. QED BY <2>1, TakeFromTyped
<1>. QED BY <1>1, <1>2

LEMMA RendezvousTyped ==
    ASSUME QueueTyped, NEW f \in Fibers, TakeRendezvous(f)
    PROVE  /\ QueueTyped'
           /\ Line => LineStep
<1> DEFINE k == Min({1, Len(messages)})
<1>0. /\ UNCHANGED <<offers, waiting, scheduleRunning, releases, last>> /\ capacity' = 0
      /\ messages \in Seq(Nat) /\ Len(messages) \in Nat /\ 0 \notin offers
      /\ Takes(f, k) /\ Runs(f) /\ ReleaseCapacity(f, "took", 0 - Len(messages'))
  BY DEF TakeRendezvous, scheduleVars, QueueTyped
<1>1. k \in 0 .. Len(messages)
  <2>1. k = (IF 1 <= Len(messages) THEN 1 ELSE Len(messages))
    BY <1>0, LeastOfTwo
  <2>. QED BY <1>0, <2>1
<1> HIDE DEF k
<1>2. messages' \in Seq(Nat) /\ taken' \in Seq(Nat)
  BY <1>0, <1>1, TakesFacts
<1>3. /\ stack' \in Seq(Frames) /\ place' \in [Fibers -> HandoverPlaces]
      /\ tag' \in {"Open", "Closing", "Done"} /\ takers' \in Seq(Consumers)
      /\ LetIn' = LetIn \/ LetIn' = LetIn \cup {0}
  <2>1. 0 - Len(messages') \in Int
    BY <1>2
  <2>. QED BY <1>0, <2>1, ReleaseTyped
<1>4. Outside' = Outside
  BY <1>0, <1>3 DEF Outside
<1>5. QueueTyped'
  BY <1>0, <1>2, <1>3 DEF QueueTyped
<1>. QED BY <1>0, <1>1, <1>4, <1>5, LineTake DEF Takes

LEMMA RestTyped ==
    ASSUME QueueTyped, NEW f \in Fibers, AwaitTake(f) \/ Receive(f) \/ Suspend(f),
           place[f] = "awaitTake" => f \in Consumers
    PROVE  /\ QueueTyped'
           /\ Line => LineStep
<1> USE DEF HandoverPlaces
<1>0. UNCHANGED <<messages, offers, waiting, tag, capacity, scheduleRunning, releases, last, taken>>
  BY DEF AwaitTake, Receive, Suspend, scheduleVars, history
<1>1. ASSUME stack' \in Seq(Frames), place' \in [Fibers -> HandoverPlaces], LetIn' = LetIn,
             takers' \in Seq(Consumers)
      PROVE  QueueTyped' /\ (Line => LineStep)
  <2>1. Outside' = Outside
    BY <1>0, <1>1 DEF Outside
  <2>2. QueueTyped'
    BY <1>0, <1>1 DEF QueueTyped
  <2>. QED BY <1>0, <2>1, <2>2, LineKept
<1>2. takers \in Seq(Consumers)
  BY DEF QueueTyped
<1>3. ASSUME NEW p \in HandoverPlaces, Runs(f), Continues(f, p), UNCHANGED takers
      PROVE  QueueTyped' /\ (Line => LineStep)
  BY <1>1, <1>2, <1>3, ContinuesOn
<1>4. CASE AwaitTake(f)
  <2>1. CASE tag = "Done" /\ Continues(f, "idle") /\ UNCHANGED takers
    BY <1>3, <1>4, <2>1 DEF AwaitTake
  <2>2. CASE f \in Consumers /\ Leaves(f, "takeWaits") /\ takers' = Append(takers, f)
    <3>1. stack' \in Seq(Frames) /\ place' \in [Fibers -> HandoverPlaces] /\ LetIn' = LetIn
      BY <1>4, <2>2, LeavesOn DEF AwaitTake
    <3>2. takers' \in Seq(Consumers)
      BY <1>2, <2>2
    <3>. QED BY <1>1, <3>1, <3>2
  <2>3. f \in Consumers
    BY <1>4 DEF AwaitTake
  <2>. QED BY <1>4, <2>1, <2>2, <2>3 DEF AwaitTake
<1>5. CASE Receive(f)
  BY <1>3, <1>5 DEF Receive
<1>6. CASE Suspend(f)
  <2>1. /\ stack # <<>> /\ Last(stack) = Fiber(f) /\ stack' = Front(stack) /\ UNCHANGED <<place, takers>>
        /\ stack \in Seq(Frames)
    BY <1>6 DEF Suspend, QueueTyped
  <2>2. stack' \in Seq(Frames) /\ LetIn' = LetIn
    <3>1. Last(stack).is = "fiber"
      BY <2>1, FrameFacts
    <3>. QED BY <2>1, <3>1, TopFacts DEF LetIn, LetInOf
  <2>3. place' \in [Fibers -> HandoverPlaces]
    BY <2>1 DEF QueueTyped
  <2>. QED BY <1>1, <1>2, <2>1, <2>2, <2>3
<1>. QED BY <1>4, <1>5, <1>6

\* Waiting offers are told apart by their values.
Distinct == \A f, g \in Fibers : waiting[f] = waiting[g] /\ waiting[f] # 0 => f = g

\* A waiting offer is let in and the fiber that waits for it, if there is one, goes on.
LetsIn(l, e) ==
  LET next == [l EXCEPT !.n = @ - 1, !.entry = e]
      woken == {f \in Fibers : waiting[f] = e}
  IN /\ tag # "Done" /\ l.n # 0 /\ e \in offers \ {l.entry} /\ \A w \in offers \ {l.entry} : e <= w
     /\ offers' = offers \ {l.entry} /\ messages' = Append(messages, e)
     /\ place' = [f \in Fibers |-> IF f \in woken THEN "idle" ELSE place[f]]
     /\ waiting' = [f \in Fibers |-> IF f \in woken THEN 0 ELSE waiting[f]]
     /\ next \in OfferLoops /\ next.n = l.n - 1 /\ next.entry = e
     /\ \/ woken = {} /\ stack' = Append(Front(stack), next)
        \/ \E p \in Fibers : woken = {p} /\ stack' = Append(Append(Front(stack), next), Fiber(p))

LEMMA NextLoop ==
    ASSUME NEW l \in OfferLoops, NEW e \in Nat
    PROVE  LET next == [l EXCEPT !.n = @ - 1, !.entry = e]
           IN next \in OfferLoops /\ next.n = l.n - 1 /\ next.entry = e
<1>1. l.n - 1 \in Int /\ l.is = "offers"
  BY DEF OfferLoops
<1>. QED BY <1>1 DEF OfferLoops

LEMMA ReleaseOfferCases ==
    ASSUME QueueTyped, ReleaseOffer, Distinct
    PROVE  LET l == Last(stack)
               rest == offers \ {l.entry}
           IN /\ l \in OfferLoops /\ stack # <<>>
              /\ \/ /\ tag = "Done" /\ l.entry # 0
                    /\ place' = [place EXCEPT ![stack[Len(stack) - 1].of] = "defect"]
                    /\ stack' = Front(stack) /\ UNCHANGED <<messages, offers, waiting>>
                 \/ /\ tag # "Done" \/ l.entry = 0
                    /\ rest = {} \/ l.n = 0
                    /\ offers' = rest /\ stack' = Front(stack) /\ UNCHANGED <<messages, waiting, place>>
                 \/ \E e \in rest : LetsIn(l, e)
<1> DEFINE l == Last(stack)
           rest == offers \ {l.entry}
           e == NextOffer(rest)
           woken == {f \in Fibers : waiting[f] = e}
           next == [l EXCEPT !.n = @ - 1, !.entry = e]
<1>0. /\ stack \in Seq(Frames) /\ stack # <<>> /\ l.is = "offers" /\ l \in Frames
      /\ messages \in Seq(Nat) /\ rest \subseteq Nat /\ offers \subseteq Nat \ {0}
  BY TopFacts DEF ReleaseOffer, QueueTyped
<1>1. l \in OfferLoops /\ l.n \in Int /\ l.entry \in Nat
  <2>1. l \notin {Fiber(f) : f \in Fibers} /\ l \notin {Loop(x) : x \in BOOLEAN}
    BY <1>0, FrameFacts
  <2>. QED BY <1>0, <2>1, FrameFacts DEF Frames
<1>2. CASE /\ tag # "Done" /\ rest # {} /\ l.n # 0
           /\ offers' = rest /\ messages' = Append(messages, e)
           /\ stack' = Append(Front(stack), next) \o SetToSeq({Fiber(f) : f \in woken})
           /\ place' = [f \in Fibers |-> IF f \in woken THEN "idle" ELSE place[f]]
           /\ waiting' = [f \in Fibers |-> IF f \in woken THEN 0 ELSE waiting[f]]
  <2>1. e \in rest /\ \A w \in rest : e <= w
    BY <1>0, <1>2, LeastOf DEF NextOffer
  <2>2. next \in OfferLoops /\ next.n = l.n - 1 /\ next.entry = e /\ next \in Frames
    <3>1. e \in Nat
      BY <1>0, <2>1
    <3> HIDE DEF e, l
    <3>2. next \in OfferLoops /\ next.n = l.n - 1 /\ next.entry = e
      BY <1>1, <3>1, NextLoop
    <3> HIDE DEF next
    <3>. QED BY <3>2, FrameFacts
  <2> DEFINE s == Append(Front(stack), next)
  <2>3. s \in Seq(Frames)
    BY <1>0, <2>2, TopFacts, OnTop
  <2>4. woken = {} \/ \E p \in Fibers : woken = {p}
    <3>1. e # 0
      BY <1>0, <2>1
    <3>. QED BY <3>1 DEF Distinct
  <2>5. CASE woken = {}
    <3>1. {Fiber(f) : f \in woken} = {}
      BY <2>5
    <3>2. s \o <<>> = s
      BY <2>3, ConcatEmptySeq
    <3>3. stack' = s
      BY <1>2, <3>1, <3>2, NoneInSequence
    <3>. QED BY <1>0, <1>1, <1>2, <2>1, <2>2, <2>5, <3>3 DEF LetsIn
  <2>6. ASSUME NEW p \in Fibers, woken = {p}
        PROVE  LetsIn(l, e)
    <3>1. {Fiber(f) : f \in woken} = {Fiber(p)} /\ Fiber(p) \in Frames
      <4> HIDE DEF woken
      <4>. QED BY <2>6, FrameFacts
    <3>2. SetToSeq({Fiber(p)}) = <<Fiber(p)>>
      BY OneInSequence
    <3>3. Append(s, Fiber(p)) = s \o <<Fiber(p)>>
      <4> HIDE DEF s
      <4>. QED BY <2>3, <3>1, AppendIsConcat
    <3>4. stack' = Append(s, Fiber(p))
      BY <1>2, <3>1, <3>2, <3>3
    <3>. QED BY <1>0, <1>1, <1>2, <2>1, <2>2, <2>6, <3>4 DEF LetsIn
  <2>. QED BY <1>0, <1>1, <2>1, <2>4, <2>5, <2>6
<1>. QED BY <1>0, <1>1, <1>2 DEF ReleaseOffer

LEMMA ReleaseOfferTyped ==
    ASSUME QueueTyped, ReleaseOffer, LetIn = {Last(stack).entry}, LetInOf(Front(stack)) = {},
           Distinct, tag = "Done" => offers = {}
    PROVE  /\ QueueTyped'
           /\ Line => LineStep
<1> USE DEF HandoverPlaces
<1> DEFINE l == Last(stack)
           rest == offers \ {l.entry}
<1>0. /\ UNCHANGED <<takers, tag, capacity, scheduleRunning, releases, last, taken>>
      /\ stack \in Seq(Frames) /\ stack # <<>>
      /\ messages \in Seq(Nat) /\ offers \subseteq Nat \ {0} /\ Outside = rest
  BY DEF ReleaseOffer, scheduleVars, history, QueueTyped, Outside
<1>1. Front(stack) \in Seq(Frames) /\ LetIn' = LetInOf(stack')
  BY <1>0, TopFacts DEF LetIn, LetInOf
<1>2. CASE /\ tag = "Done" /\ l.entry # 0
           /\ place' = [place EXCEPT ![stack[Len(stack) - 1].of] = "defect"]
           /\ stack' = Front(stack) /\ UNCHANGED <<messages, offers, waiting>>
  <2>1. QueueTyped'
    <3>1. place' \in [Fibers -> HandoverPlaces]
      BY <1>2 DEF QueueTyped
    <3>. QED BY <1>0, <1>1, <1>2, <3>1 DEF QueueTyped
  <2>2. Outside' = Outside
    BY <1>0, <1>1, <1>2 DEF Outside
  <2>. QED BY <1>0, <1>2, <2>1, <2>2, LineKept
<1>3. CASE /\ offers' = rest /\ stack' = Front(stack) /\ UNCHANGED <<messages, waiting, place>>
  <2>1. QueueTyped'
    BY <1>0, <1>1, <1>3 DEF QueueTyped
  <2>2. Outside' = Outside
    BY <1>0, <1>1, <1>3 DEF Outside
  <2>. QED BY <1>0, <1>3, <2>1, <2>2, LineKept
<1>4. ASSUME NEW e \in rest, LetsIn(l, e)
      PROVE  QueueTyped' /\ (Line => LineStep)
  <2> DEFINE next == [l EXCEPT !.n = @ - 1, !.entry = e]
             s == Append(Front(stack), next)
  <2>0. next \in OfferLoops /\ next.entry = e /\ next \in Frames /\ next.is = "offers" /\ e \in Nat
    BY <1>0, <1>4, FrameFacts DEF LetsIn
  <2>1. /\ offers' = rest /\ messages' = Append(messages, e) /\ \A w \in rest : e <= w
        /\ stack' = s \/ \E p \in Fibers : stack' = Append(s, Fiber(p))
    BY <1>4 DEF LetsIn
  <2> HIDE DEF next
  <2>2. s \in Seq(Frames) /\ LetInOf(s) = {e}
    <3>1. LetInOf(s) = LetInOf(Front(stack)) \cup (IF next.is = "offers" THEN {next.entry} ELSE {})
      BY <1>1, <2>0, LetInAppend
    <3>. QED BY <1>1, <2>0, <3>1, OnTop
  <2>3. stack' \in Seq(Frames) /\ LetIn' = {e}
    <3> HIDE DEF s
    <3>1. ASSUME NEW p \in Fibers
          PROVE  Append(s, Fiber(p)) \in Seq(Frames) /\ LetInOf(Append(s, Fiber(p))) = {e}
      <4>1. Fiber(p) \in Frames /\ Fiber(p).is = "fiber"
        BY FrameFacts
      <4>2. LetInOf(Append(s, Fiber(p)))
            = LetInOf(s) \cup (IF Fiber(p).is = "offers" THEN {Fiber(p).entry} ELSE {})
        BY <2>2, <4>1, LetInAppend
      <4>. QED BY <2>2, <4>1, <4>2, OnTop
    <3>. QED BY <1>1, <2>1, <2>2, <3>1
  <2>4. QueueTyped'
    <3>1. messages' \in Seq(Nat)
      BY <1>0, <2>0, <2>1, Appended
    <3>2. place' \in [Fibers -> HandoverPlaces] /\ waiting' \in [Fibers -> Nat]
      BY <1>4 DEF LetsIn, QueueTyped
    <3>. QED BY <1>0, <2>1, <2>3, <3>1, <3>2 DEF QueueTyped
  <2>5. Outside' = Outside \ {e}
    BY <1>0, <2>1, <2>3 DEF Outside
  <2>. QED BY <1>0, <2>1, <2>4, <2>5, LineLetIn
<1>. QED BY <1>2, <1>3, <1>4, ReleaseOfferCases

LEMMA StartTyped ==
    ASSUME QueueTyped, StartRelease
    PROVE  /\ QueueTyped'
           /\ Line => LineStep
<1>1. /\ UNCHANGED <<messages, offers, waiting, takers, tag, capacity, place, last, taken>>
      /\ stack = <<>> /\ releases' \in Nat /\ scheduleRunning' \in BOOLEAN /\ stack' = <<TakersLoop>>
  <2>1. /\ UNCHANGED <<messages, offers, waiting, takers, tag, capacity, place, last, taken>>
        /\ stack = <<>> /\ stack' = <<TakersLoop>>
        /\ releases > 0 /\ releases' = releases - 1 /\ scheduleRunning' = FALSE
    BY DEF StartRelease, history
  <2>2. releases' \in Nat
    <3>1. releases \in Nat
      BY DEF QueueTyped
    <3>. QED BY <2>1, <3>1
  <2>. QED BY <2>1, <2>2
<1>2. stack' \in Seq(Frames) /\ LetIn' = LetIn
  <2>1. stack' = Append(<<>>, Loop(TRUE)) /\ <<>> \in Seq(Frames)
    BY <1>1, FrameFacts
  <2>2. Loop(TRUE) \in Frames /\ Loop(TRUE).is = "takers"
    BY FrameFacts
  <2>3. LetInOf(stack') = LetInOf(<<>>) \cup (IF Loop(TRUE).is = "offers" THEN {Loop(TRUE).entry} ELSE {})
    BY <2>1, <2>2, LetInAppend
  <2>. QED BY <1>1, <2>1, <2>2, <2>3, OnTop DEF LetIn, LetInOf
<1>3. QueueTyped'
  BY <1>1, <1>2 DEF QueueTyped
<1>4. Outside' = Outside
  BY <1>1, <1>2 DEF Outside
<1>. QED BY <1>1, <1>3, <1>4, LineKept

LEMMA ReleaseTakerTyped ==
    ASSUME QueueTyped, ReleaseTaker
    PROVE  /\ QueueTyped'
           /\ Line => LineStep
           /\ Front(stack) \in Seq(Frames)
           /\ \/ /\ takers = <<>> \/ (messages = <<>> /\ ~Last(stack).first)
                 /\ stack' = Front(stack) /\ UNCHANGED <<takers, place>>
              \/ /\ takers # <<>> /\ takers' = Tail(takers) /\ Head(takers) \in Consumers
                 /\ place' = [place EXCEPT ![Head(takers)] = "woken"]
                 /\ stack' = Append(Append(Front(stack), Loop(FALSE)), Fiber(Head(takers)))
<1> DEFINE h == Head(takers)
           s == Append(Front(stack), Loop(FALSE))
<1>1. /\ UNCHANGED <<messages, offers, waiting, tag, capacity, scheduleRunning, releases, last, taken>>
      /\ stack \in Seq(Frames) /\ stack # <<>> /\ Last(stack).is = "takers" /\ takers \in Seq(Consumers)
  BY DEF ReleaseTaker, history, scheduleVars, QueueTyped
<1>2. /\ Front(stack) \in Seq(Frames) /\ LetIn' = LetInOf(stack') /\ LetIn = LetInOf(Front(stack))
  BY <1>1, TopFacts DEF LetIn, LetInOf
<1>3. ASSUME stack' \in Seq(Frames), LetIn' = LetIn, takers' \in Seq(Consumers),
             place' \in [Fibers -> HandoverPlaces]
      PROVE  QueueTyped' /\ (Line => LineStep)
  <2>1. QueueTyped'
    BY <1>1, <1>3 DEF QueueTyped
  <2>2. Outside' = Outside
    BY <1>1, <1>3 DEF Outside
  <2>. QED BY <1>1, <2>1, <2>2, LineKept
<1>4. CASE /\ takers = <<>> \/ (messages = <<>> /\ ~Last(stack).first)
           /\ stack' = Front(stack) /\ UNCHANGED <<takers, place>>
  BY <1>1, <1>2, <1>3, <1>4 DEF QueueTyped
<1>5. CASE /\ takers # <<>> /\ takers' = Tail(takers)
           /\ place' = [place EXCEPT ![h] = "woken"]
           /\ stack' = Front(stack) \o <<[TakersLoop EXCEPT !.first = FALSE], Fiber(h)>>
  <2>1. h \in Consumers /\ takers' \in Seq(Consumers) /\ h \in Fibers
    BY <1>1, <1>5 DEF Fibers
  <2>2. stack' = Append(s, Fiber(h))
    <3>1. \A a \in Seq(Frames), x, y \in Frames : a \o <<x, y>> = Append(Append(a, x), y)
      OBVIOUS
    <3>2. stack' = Front(stack) \o <<Loop(FALSE), Fiber(h)>>
      BY <1>5, FrameFacts
    <3>3. Loop(FALSE) \in Frames /\ Fiber(h) \in Frames
      BY <2>1, FrameFacts
    <3> HIDE DEF h
    <3>. QED BY <1>2, <3>1, <3>2, <3>3
  <2>3. s \in Seq(Frames) /\ LetInOf(s) = LetIn
    <3>1. Loop(FALSE) \in Frames /\ Loop(FALSE).is = "takers"
      BY FrameFacts
    <3>2. LetInOf(s) = LetInOf(Front(stack)) \cup (IF Loop(FALSE).is = "offers" THEN {Loop(FALSE).entry} ELSE {})
      BY <1>2, <3>1, LetInAppend
    <3>. QED BY <1>2, <3>1, <3>2, OnTop
  <2>4. stack' \in Seq(Frames) /\ LetIn' = LetIn
    <3> HIDE DEF s, h
    <3>1. Fiber(h) \in Frames /\ Fiber(h).is = "fiber"
      BY <2>1, FrameFacts
    <3>2. LetInOf(Append(s, Fiber(h))) = LetInOf(s) \cup (IF Fiber(h).is = "offers" THEN {Fiber(h).entry} ELSE {})
      BY <2>3, <3>1, LetInAppend
    <3>. QED BY <1>2, <2>2, <2>3, <3>1, <3>2, OnTop
  <2>5. place' \in [Fibers -> HandoverPlaces]
    BY <1>5 DEF QueueTyped, HandoverPlaces
  <2>. QED BY <1>2, <1>3, <1>5, <2>1, <2>2, <2>4, <2>5
<1>. QED BY <1>4, <1>5 DEF ReleaseTaker

LEMMA InterruptTyped ==
    ASSUME QueueTyped, NEW f \in Fibers, InterruptFiber(f)
    PROVE  /\ QueueTyped'
           /\ Line => LineStep
           /\ takers' # <<>> => takers # <<>>
<1>1. /\ UNCHANGED <<messages, tag, capacity, scheduleRunning, releases, stack, last, taken>>
      /\ place' = [place EXCEPT ![f] = "idle"] /\ waiting' = [waiting EXCEPT ![f] = 0]
      /\ offers' = IF tag = "Open" THEN offers \ {waiting[f]} ELSE offers
      /\ takers \in Seq(Consumers) /\ LetIn' = LetIn
  BY DEF InterruptFiber, scheduleVars, QueueTyped, LetIn
<1>2. takers' \in Seq(Consumers) /\ (takers' # <<>> => takers # <<>>)
  <2>1. CASE UNCHANGED takers
    BY <1>1, <2>1
  <2>2. ASSUME NEW i \in DOMAIN takers, takers' = RemoveAt(takers, i)
        PROVE  takers' \in Seq(Consumers) /\ takers # <<>>
    <3>1. i \in 1 .. Len(takers) /\ Len(takers) \in Nat
      BY <1>1
    <3>2. SubSeq(takers, 1, i - 1) \in Seq(Consumers) /\ SubSeq(takers, i + 1, Len(takers)) \in Seq(Consumers)
      BY <1>1, <3>1
    <3>3. RemoveAt(takers, i) = SubSeq(takers, 1, i - 1) \o SubSeq(takers, i + 1, Len(takers))
      BY DEF RemoveAt
    <3>4. SubSeq(takers, 1, i - 1) \o SubSeq(takers, i + 1, Len(takers)) \in Seq(Consumers)
      BY <3>2, ConcatProperties
    <3>. QED BY <2>2, <3>1, <3>3, <3>4
  <2>. QED BY <2>1, <2>2 DEF InterruptFiber
<1>3. QueueTyped'
  <2>1. place' \in [Fibers -> HandoverPlaces] /\ waiting' \in [Fibers -> Nat]
    BY <1>1 DEF QueueTyped, HandoverPlaces
  <2>2. offers' \subseteq Nat \ {0}
    BY <1>1 DEF QueueTyped
  <2>. QED BY <1>1, <1>2, <2>1, <2>2 DEF QueueTyped
<1>4. Outside' = Outside \ {waiting[f]} \/ Outside' = Outside
  BY <1>1 DEF Outside
<1>. QED BY <1>1, <1>2, <1>3, <1>4, LineWithdraw, LineKept

LEMMA EndTyped ==
    ASSUME QueueTyped, NEW f \in Fibers, End(f)
    PROVE  /\ QueueTyped'
           /\ Line => LineStep
<1>1. /\ UNCHANGED <<messages, offers, waiting, capacity, scheduleRunning, releases, last, taken>>
      /\ stack' = On(f)
  BY DEF End, scheduleVars, history
<1>2. stack' \in Seq(Frames) /\ LetIn' = LetIn
  BY <1>1, OnFacts DEF LetIn, LetInOf
<1>3. /\ tag' \in {"Open", "Closing", "Done"} /\ takers' \in Seq(Consumers)
      /\ place' \in [Fibers -> HandoverPlaces]
  <2>1. CASE Finalize(place)
    BY <2>1, FinalizeTyped DEF QueueTyped
  <2>2. CASE tag' = "Closing" /\ UNCHANGED <<takers, place>>
    BY <2>2 DEF QueueTyped
  <2>. QED BY <2>1, <2>2 DEF End
<1>4. QueueTyped'
  BY <1>1, <1>2, <1>3 DEF QueueTyped
<1>5. Outside' = Outside
  BY <1>1, <1>2 DEF Outside
<1>. QED BY <1>1, <1>4, <1>5, LineKept

LEMMA ShutdownTyped ==
    ASSUME QueueTyped, NEW f \in Fibers, Shutdown(f)
    PROVE  /\ QueueTyped'
           /\ Line => LineStep
           /\ \A g \in Fibers : place'[g] = IF place[g] \in {"takeWaits", "offerWaits"} THEN "idle" ELSE place[g]
<1> DEFINE p == [g \in Fibers |-> IF place[g] = "offerWaits" THEN "idle" ELSE place[g]]
<1>1. /\ UNCHANGED <<capacity, scheduleRunning, releases, last, taken>>
      /\ stack' = On(f) /\ messages' = <<>> /\ offers' = {} /\ waiting' = [g \in Fibers |-> 0]
      /\ Finalize(p)
  BY DEF Shutdown, scheduleVars, history
<1>2. stack' \in Seq(Frames) /\ LetIn' = LetIn
  BY <1>1, OnFacts DEF LetIn, LetInOf
<1>3. p \in [Fibers -> HandoverPlaces]
  BY DEF QueueTyped, HandoverPlaces
<1>4. /\ tag' = "Done" /\ takers' \in Seq(Consumers) /\ place' \in [Fibers -> HandoverPlaces]
      /\ \A g \in Fibers : place'[g] = IF place[g] = "takeWaits" THEN "idle" ELSE p[g]
  <2> HIDE DEF p
  <2>. QED BY <1>1, <1>3, FinalizeTyped
<1>5. QueueTyped'
  BY <1>1, <1>2, <1>4 DEF QueueTyped
<1>6. Outside' = {}
  BY <1>1 DEF Outside
<1>. QED BY <1>1, <1>4, <1>5, <1>6, LineDiscard

--------------------------------------------------------------------------
(* A queue that drops or slides: no offer waits, whatever the fibers do.     *)

PlainFrames == {Fiber(f) : f \in Fibers} \cup {Loop(x) : x \in BOOLEAN}
Plain == /\ offers = {} /\ capacity = Capacity /\ Len(messages) <= Capacity
         /\ stack \in Seq(PlainFrames)
         /\ \A f \in Fibers : /\ place[f] \notin {"offering", "rendezvous"}
                              /\ place[f] \in {"woken", "awaitTake"} => f \in Consumers

LEMMA PlainFacts ==
    ASSUME stack \in Seq(PlainFrames), NEW f \in Fibers
    PROVE  /\ On(f) \in Seq(PlainFrames) /\ Front(On(f)) \in Seq(PlainFrames)
           /\ Append(On(f), TakersLoop) \in Seq(PlainFrames)
           /\ stack # <<>> => Front(stack) \in Seq(PlainFrames) /\ Last(stack).is # "offers"
           /\ <<TakersLoop>> \in Seq(PlainFrames)
           /\ stack # <<>> => Append(Append(Front(stack), Loop(FALSE)), Fiber(f)) \in Seq(PlainFrames)
<1>1. Fiber(f) \in PlainFrames /\ TakersLoop \in PlainFrames /\ Loop(FALSE) \in PlainFrames
  BY FrameFacts DEF PlainFrames
<1>2. \A s \in Seq(PlainFrames) : s # <<>> => Front(s) \in Seq(PlainFrames) /\ Last(s) \in PlainFrames
  <2> TAKE s \in Seq(PlainFrames)
  <2>1. CASE s # <<>>
    <3>1. Len(s) \in Nat \ {0} /\ Last(s) = s[Len(s)]
      BY <2>1 DEF Last
    <3>. QED BY <2>1, <3>1, SubSeqProperties DEF Front
  <2>. QED BY <2>1
<1>3. On(f) \in Seq(PlainFrames) /\ On(f) # <<>>
  BY <1>1 DEF On
<1>4. \A x \in PlainFrames : x.is # "offers"
  BY FrameFacts DEF PlainFrames
<1>5. <<TakersLoop>> \in Seq(PlainFrames)
  BY <1>1
<1>6. \A s \in Seq(PlainFrames), x \in PlainFrames : Append(s, x) \in Seq(PlainFrames)
  OBVIOUS
<1>. QED BY <1>1, <1>2, <1>3, <1>4, <1>5, <1>6

LEMMA PlainOffer ==
    ASSUME QueueAssumption, QueueTyped, Plain, Strategy # "suspend", NEW f \in Fibers, Offer(f)
    PROVE  Plain'
<1>0. /\ UNCHANGED <<offers, capacity>> /\ messages \in Seq(Nat) /\ capacity \in Nat
      /\ place \in [Fibers -> HandoverPlaces] /\ last + 1 \in Nat
      /\ Strategy = "sliding" => Capacity > 0
  BY DEF Offer, QueueTyped, QueueAssumption
<1>1. Continues(f, "idle") /\ Len(messages') <= capacity
  <2>1. CASE OfferStays(f)
    BY <1>0, <2>1 DEF OfferStays, Plain
  <2>2. CASE /\ Len(messages) < capacity /\ Continues(f, "idle") /\ NewValue
             /\ messages' = Append(messages, last')
    <3>1. Len(messages') = Len(messages) + 1
      BY <1>0, <2>2, Appended DEF NewValue
    <3>. QED BY <1>0, <2>2, <3>1
  <2>3. CASE /\ Len(messages) >= capacity /\ Strategy = "sliding" /\ Continues(f, "idle") /\ NewValue
             /\ messages' = Append(Slid, last')
    <3>1. messages # <<>> /\ Len(messages) <= capacity
      BY <1>0, <2>3 DEF Plain
    <3>2. Tail(messages) \in Seq(Nat) /\ Len(Tail(messages)) = Len(messages) - 1
      BY <1>0, <3>1
    <3>3. Len(messages') = Len(Tail(messages)) + 1
      BY <1>0, <2>3, <3>2, Appended DEF NewValue, Slid
    <3>. QED BY <1>0, <2>3, <3>1, <3>2, <3>3
  <2>. QED BY <2>1, <2>2, <2>3 DEF Offer
<1>2. stack' \in Seq(PlainFrames) /\ place' = [place EXCEPT ![f] = "idle"]
  BY <1>1, PlainFacts DEF Continues, Plain
<1>. QED BY <1>0, <1>1, <1>2 DEF Plain

LEMMA PlainTake ==
    ASSUME QueueAssumption, QueueTyped, Plain, NEW f \in Fibers, f \in Consumers,
           NEW min \in {Least, 1}, TakeFrom(f, min), UNCHANGED offers
    PROVE  Plain'
<1>0. /\ messages \in Seq(Nat) /\ capacity \in Nat /\ place \in [Fibers -> HandoverPlaces] /\ offers = {}
      /\ Len(messages) <= capacity /\ capacity = Capacity
  BY DEF QueueTyped, Plain
<1>1. ASSUME NEW p \in {"idle", "took", "awaitTake"}, place' = [place EXCEPT ![f] = p], stack' = On(f),
             UNCHANGED capacity, Len(messages') <= capacity
      PROVE  Plain'
  <2>1. stack' \in Seq(PlainFrames)
    BY <1>1, PlainFacts DEF Plain
  <2>. QED BY <1>0, <1>1, <2>1 DEF Plain
<1>2. ASSUME NEW p \in {"idle", "took", "awaitTake"}, Continues(f, p), UNCHANGED <<messages, capacity>>
      PROVE  Plain'
  BY <1>0, <1>1, <1>2 DEF Continues
<1>3. CASE TakeSome(f, min)
  <2> DEFINE k == Min({Most, Len(messages)})
  <2>1. Len(messages') <= capacity /\ UNCHANGED capacity
    <3>1. Min({min, Max({1, capacity})}) <= Len(messages) /\ Takes(f, k) /\ UNCHANGED capacity
      BY <1>3 DEF TakeSome
    <3>2. k \in 1 .. Len(messages)
      BY <3>1, Amount
    <3> HIDE DEF k
    <3>3. k \in 0 .. Len(messages) /\ Len(messages) \in Nat
      BY <1>0, <3>2
    <3>4. Len(messages') = Len(messages) - k
      BY <3>1, <3>3, TakesFacts
    <3>. QED BY <1>0, <3>1, <3>3, <3>4
  <2>2. CASE Finalize([place EXCEPT ![f] = "took"]) /\ stack' = On(f)
    <3>1. [place EXCEPT ![f] = "took"] \in [Fibers -> HandoverPlaces]
      BY <1>0 DEF HandoverPlaces
    <3>2. \A g \in Fibers : place'[g] = IF place[g] = "takeWaits" THEN "idle" ELSE [place EXCEPT ![f] = "took"][g]
      BY <2>2, <3>1, FinalizeTyped
    <3>3. \A g \in Fibers : place'[g] \in {place[g], "idle", "took"}
      BY <1>0, <3>2
    <3>4. stack' \in Seq(PlainFrames)
      BY <2>2, PlainFacts DEF Plain
    <3>. QED BY <1>0, <2>1, <3>3, <3>4 DEF Plain
  <2>3. CASE Continues(f, "took")
    BY <1>1, <2>1, <2>3 DEF Continues
  <2>. QED BY <1>0, <1>3, <2>2, <2>3 DEF TakeSome, ReleaseCapacity
<1>. QED BY <1>0, <1>2, <1>3 DEF TakeFrom

LEMMA PlainStep ==
    ASSUME QueueAssumption, QueueTyped, Strategy # "suspend", Plain, QueueNext
    PROVE  QueueTyped' /\ Plain' /\ (Line => LineStep)
<1>0. /\ offers = {} /\ capacity = Capacity /\ place \in [Fibers -> HandoverPlaces]
      /\ stack \in Seq(PlainFrames)
      /\ Strategy = "sliding" => capacity > 0
  BY DEF Plain, QueueTyped, QueueAssumption
<1>1. ASSUME NEW f \in Fibers, Offer(f)
      PROVE  QueueTyped' /\ Plain' /\ (Line => LineStep)
  BY <1>0, <1>1, OfferTyped, PlainOffer
<1>2. ASSUME NEW f \in Fibers, Take(f) \/ TakeAgain(f)
      PROVE  QueueTyped' /\ Plain' /\ (Line => LineStep)
  <2>1. UNCHANGED offers /\ f \in Consumers /\ \E min \in {Least, 1} : TakeFrom(f, min)
    BY <1>2 DEF Take, TakeAgain, Plain
  <2>. QED BY <1>2, <2>1, TakeTyped, PlainTake
<1>3. ASSUME NEW f \in Fibers, RegisterOffer(f) \/ TakeRendezvous(f)
      PROVE  FALSE
  BY <1>3 DEF RegisterOffer, TakeRendezvous, Plain
<1>4. ASSUME NEW f \in Fibers, AwaitTake(f) \/ Receive(f) \/ Suspend(f)
      PROVE  QueueTyped' /\ Plain' /\ (Line => LineStep)
  <2>1. QueueTyped' /\ (Line => LineStep)
    BY <1>4, RestTyped DEF Plain
  <2>2. stack' \in Seq(PlainFrames)
    <3>1. stack' = On(f) \/ stack' = Front(On(f)) \/ (stack # <<>> /\ stack' = Front(stack))
      BY <1>4 DEF AwaitTake, Receive, Suspend, Continues, Leaves
    <3>. QED BY <1>0, <3>1, PlainFacts
  <2>3. \A g \in Fibers : place'[g] \in {place[g], "idle", "takeWaits"}
    BY <1>0, <1>4 DEF AwaitTake, Receive, Suspend, Continues, Leaves
  <2>4. UNCHANGED <<offers, capacity, messages>>
    BY <1>4 DEF AwaitTake, Receive, Suspend
  <2>. QED BY <2>1, <2>2, <2>3, <2>4 DEF Plain
<1>5. ASSUME NEW f \in Fibers, InterruptFiber(f)
      PROVE  QueueTyped' /\ Plain' /\ (Line => LineStep)
  <2>1. QueueTyped' /\ (Line => LineStep)
    BY <1>5, InterruptTyped
  <2>2. UNCHANGED <<capacity, messages, stack>> /\ offers' = {} /\ place' = [place EXCEPT ![f] = "idle"]
    BY <1>0, <1>5 DEF InterruptFiber
  <2>. QED BY <1>0, <2>1, <2>2 DEF Plain
<1>6. ASSUME NEW f \in Fibers, End(f)
      PROVE  QueueTyped' /\ Plain' /\ (Line => LineStep)
  <2>1. QueueTyped' /\ (Line => LineStep)
    BY <1>6, EndTyped
  <2>2. \A g \in Fibers : place'[g] \in {place[g], "idle"}
    <3>1. CASE Finalize(place)
      BY <1>0, <3>1, FinalizeTyped
    <3>. QED BY <1>6, <3>1 DEF End
  <2>3. UNCHANGED <<capacity, messages, offers>> /\ stack' = On(f)
    BY <1>6 DEF End
  <2>. QED BY <1>0, <2>1, <2>2, <2>3, PlainFacts DEF Plain
<1>7. ASSUME NEW f \in Fibers, Shutdown(f)
      PROVE  QueueTyped' /\ Plain' /\ (Line => LineStep)
  <2>1. QueueTyped' /\ (Line => LineStep) /\ \A g \in Fibers : place'[g] \in {place[g], "idle"}
    BY <1>7, ShutdownTyped
  <2>2. UNCHANGED capacity /\ messages' = <<>> /\ offers' = {} /\ stack' = On(f)
    BY <1>7 DEF Shutdown
  <2>3. Len(messages') <= Capacity
    BY <2>2 DEF QueueAssumption
  <2>. QED BY <1>0, <2>1, <2>2, <2>3, PlainFacts DEF Plain
<1>8. ASSUME ReleaseOffer
      PROVE  FALSE
  <2>1. stack # <<>> /\ Last(stack).is = "offers"
    BY <1>8 DEF ReleaseOffer
  <2>2. stack \in Seq(Frames)
    BY DEF QueueTyped
  <2>3. Last(stack) \in PlainFrames
    <3>1. Len(stack) \in Nat \ {0} /\ Last(stack) = stack[Len(stack)]
      BY <2>1, <2>2 DEF Last
    <3>. QED BY <1>0, <3>1
  <2>. QED BY <2>1, <2>3, FrameFacts DEF PlainFrames
<1>9. CASE StartRelease
  <2>1. QueueTyped' /\ (Line => LineStep)
    BY <1>9, StartTyped
  <2>2. UNCHANGED <<capacity, messages, offers, place>> /\ stack' = <<TakersLoop>>
    BY <1>9 DEF StartRelease
  <2>3. stack' \in Seq(PlainFrames)
    <3>1. TakersLoop \in PlainFrames
      BY FrameFacts DEF PlainFrames
    <3>. QED BY <2>2, <3>1
  <2>. QED BY <1>0, <2>1, <2>2, <2>3 DEF Plain
<1>10. CASE ReleaseTaker
  <2>1. QueueTyped' /\ (Line => LineStep)
    BY <1>10, ReleaseTakerTyped
  <2>2. UNCHANGED <<capacity, messages, offers>> /\ stack # <<>>
    BY <1>10 DEF ReleaseTaker
  <2>3. CASE stack' = Front(stack) /\ UNCHANGED place
    <3>1. stack' \in Seq(PlainFrames)
      <4>1. Len(stack) \in Nat \ {0}
        BY <1>0, <2>2
      <4>. QED BY <1>0, <2>3, <4>1, SubSeqProperties DEF Front
    <3>. QED BY <1>0, <2>1, <2>2, <2>3, <3>1 DEF Plain
  <2>4. CASE /\ Head(takers) \in Consumers /\ place' = [place EXCEPT ![Head(takers)] = "woken"]
             /\ stack' = Append(Append(Front(stack), Loop(FALSE)), Fiber(Head(takers)))
    <3>1. stack' \in Seq(PlainFrames)
      BY <1>0, <2>2, <2>4, PlainFacts DEF Fibers
    <3>. QED BY <1>0, <2>1, <2>2, <2>4, <3>1 DEF Plain
  <2>. QED BY <1>10, <2>3, <2>4, ReleaseTakerTyped
<1>. QED BY <1>1, <1>2, <1>3, <1>4, <1>5, <1>6, <1>7, <1>8, <1>9, <1>10 DEF QueueNext, FiberStep, Loops

--------------------------------------------------------------------------
(* Tame fibers: a turn of the event loop is a loop of releaseTakers and       *)
(* above it at most one consumer, a loop that it started, and a producer.     *)

\* What a turn began with: nothing, releaseTakers, or an offer that runs it.
Below(b, x) ==
  /\ \/ b = <<>>
     \/ Capacity > 0 /\ b = Append(<<>>, Loop(x))
     \/ Capacity = 0 /\ \E q \in Producers : place[q] = "idle" /\ b = Append(Append(<<>>, Fiber(q)), Loop(x))
  /\ Capacity = 0 /\ b # <<>> => offers = {}
  /\ takers # <<>> /\ (messages # <<>> \/ offers # {}) => releases > 0 \/ b # <<>>

Resting(S) == \A g \in Fibers \ S : place[g] \in {"idle", "offerWaits", "takeWaits", "defect"}

Producing(p) ==
  /\ p \in Producers /\ place[p] \in {"idle", "offering"}
  /\ place[p] = "offering" => /\ tag = "Open" /\ Strategy = "suspend" /\ Len(messages) >= capacity
                              /\ Capacity = 0 => takers = <<>>

Consuming(c, b) ==
  /\ c \in Consumers
  /\ place[c] \in {"idle", "woken", "awaitTake", "took", "rendezvous", "defect"}
  /\ place[c] = "awaitTake" => messages = <<>> /\ offers = {}
  /\ place[c] = "rendezvous" => Capacity = 0 /\ capacity = 1 /\ tag # "Done" /\ Len(messages) = 1 /\ b = <<>>
  /\ Capacity = 0 /\ place[c] = "woken" => b # <<>>

\* The loop l of releaseCapacity, started by c.
Letting(b, c, l) ==
  /\ c \in Consumers /\ place[c] \in {"took", "rendezvous"} /\ l \in OfferLoops
  /\ Strategy = "suspend" /\ (Capacity = 0 => b = <<>>)
  /\ l.n \in 0 .. 1 /\ l.entry <= last
  /\ l.entry = 0 => tag # "Done" /\ offers # {} /\ l.n = capacity - Len(messages)
  /\ l.entry # 0 => l.n = 0 /\ (tag # "Done" => Len(messages) >= capacity)
  /\ place[c] = "took" => capacity = Capacity /\ (Capacity = 0 => messages = <<>> /\ l.entry = 0)
  /\ place[c] = "rendezvous" => Capacity = 0 /\ capacity = 1 /\ Len(messages) <= 1

\* No fiber runs.
Between(b, x) ==
  /\ stack = b /\ b \in Seq(Frames) /\ Below(b, x) /\ Resting({})
  /\ capacity = Capacity \/ tag = "Done"
  /\ offers # {} => Len(messages) >= capacity
  /\ Capacity = 0 => IF b # <<>> /\ x THEN takers # <<>> /\ Len(messages) = 1 ELSE messages = <<>>

\* f runs, on top of the stack s.
Running(s, b, f) ==
  /\ s = Append(b, Fiber(f)) /\ b \in Seq(Frames) /\ Below(b, FALSE) /\ Resting({f})
  /\ f \in Producers => b = <<>> /\ Producing(f)
  /\ f \in Consumers => Consuming(f, b)
  /\ capacity = Capacity \/ tag = "Done" \/ place[f] = "rendezvous"
  /\ offers # {} => Len(messages) >= capacity
  /\ Capacity = 0 /\ messages # <<>> => place[f] \in {"woken", "rendezvous"} /\ Len(messages) = 1

\* What is below a producer that the loop l of c has resumed.
Under(b, c, l) == Append(Append(b, Fiber(c)), l)

\* The loop of c looks for offers.
Releasing(b, c, l) ==
  /\ stack = Under(b, c, l) /\ b \in Seq(Frames) /\ Below(b, FALSE) /\ Resting({c})
  /\ Letting(b, c, l)

\* p runs, resumed by the loop of c.
Resumed(s, b, c, l, p) ==
  /\ s = Append(Under(b, c, l), Fiber(p)) /\ b \in Seq(Frames) /\ Below(b, FALSE)
  /\ Resting({c, p}) /\ Letting(b, c, l) /\ l.entry # 0 /\ Producing(p)

Turn == \E b \in Seq(Frames) :
  \/ \E x \in BOOLEAN : Between(b, x)
  \/ \E f \in Fibers : Running(stack, b, f)
  \/ \E c \in Consumers, l \in OfferLoops : Releasing(b, c, l)
  \/ \E c \in Consumers, l \in OfferLoops, p \in Producers : Resumed(stack, b, c, l, p)

Room == /\ Capacity > 0 => capacity = Capacity /\ Len(messages) <= Capacity
        /\ Capacity = 0 => capacity \in 0 .. 1 /\ releases = 0 /\ ~scheduleRunning
        /\ scheduleRunning => releases > 0
        /\ tag = "Done" => messages = <<>> /\ offers = {} /\ takers = <<>>
        /\ Strategy # "suspend" => offers = {}
        /\ \A w \in offers : w <= last

Waits == \A f \in Fibers : waiting[f] # 0 =>
  /\ f \in Producers /\ place[f] = "offerWaits" /\ waiting[f] <= last
  /\ \A g \in Fibers : waiting[g] = waiting[f] => g = f

LEMMA BelowFacts ==
    ASSUME NEW b, NEW x \in BOOLEAN, Below(b, x)
    PROVE  /\ b \in Seq(Frames) /\ LetInOf(b) = {}
           /\ b # <<>> => /\ Last(b) = Loop(x)
                          /\ \/ Capacity > 0 /\ Front(b) = <<>>
                             \/ Capacity = 0 /\ \E q \in Producers : /\ place[q] = "idle"
                                                                    /\ Front(b) = Append(<<>>, Fiber(q))
<1>0. <<>> \in Seq(Frames) /\ Loop(x) \in Frames /\ Loop(x).is = "takers"
  BY FrameFacts
<1>1. ASSUME NEW a \in Seq(Frames), LetInOf(a) = {}
      PROVE  /\ Append(a, Loop(x)) \in Seq(Frames) /\ LetInOf(Append(a, Loop(x))) = {}
             /\ Last(Append(a, Loop(x))) = Loop(x) /\ Front(Append(a, Loop(x))) = a
  <2>1. LetInOf(Append(a, Loop(x))) = LetInOf(a) \cup (IF Loop(x).is = "offers" THEN {Loop(x).entry} ELSE {})
    BY <1>0, LetInAppend
  <2>2. /\ Append(a, Loop(x)) \in Seq(Frames)
        /\ Last(Append(a, Loop(x))) = Loop(x) /\ Front(Append(a, Loop(x))) = a
    BY <1>0, OnTop
  <2>. QED BY <1>0, <1>1, <2>1, <2>2
<1>2. CASE b = <<>>
  BY <1>0, <1>2, LetInNone
<1>3. CASE Capacity > 0 /\ b = Append(<<>>, Loop(x))
  BY <1>0, <1>1, <1>3, LetInNone
<1>4. ASSUME Capacity = 0, NEW q \in Producers, place[q] = "idle", b = Append(Append(<<>>, Fiber(q)), Loop(x))
      PROVE  /\ b \in Seq(Frames) /\ LetInOf(b) = {} /\ Last(b) = Loop(x)
             /\ Front(b) = Append(<<>>, Fiber(q))
  <2> DEFINE a == Append(<<>>, Fiber(q))
  <2>1. b = Append(a, Loop(x))
    BY <1>4
  <2>2. Fiber(q) \in Frames /\ Fiber(q).is = "fiber"
    BY FrameFacts DEF Fibers
  <2>3. LetInOf(a) = LetInOf(<<>>) \cup (IF Fiber(q).is = "offers" THEN {Fiber(q).entry} ELSE {})
    BY <1>0, <2>2, LetInAppend
  <2>4. a \in Seq(Frames)
    BY <1>0, <2>2, OnTop
  <2> HIDE DEF a
  <2>. QED BY <1>1, <2>1, <2>2, <2>3, <2>4, LetInNone DEF a
<1>. QED BY <1>2, <1>3, <1>4 DEF Below

LEMMA LetInFiber ==
    ASSUME NEW s \in Seq(Frames), NEW f \in Fibers
    PROVE  /\ Append(s, Fiber(f)) \in Seq(Frames) /\ Append(s, Fiber(f)) # <<>>
           /\ LetInOf(Append(s, Fiber(f))) = LetInOf(s)
           /\ Last(Append(s, Fiber(f))) = Fiber(f) /\ Front(Append(s, Fiber(f))) = s
<1>1. Fiber(f) \in Frames /\ Fiber(f).is = "fiber"
  BY FrameFacts
<1>2. LetInOf(Append(s, Fiber(f))) = LetInOf(s) \cup (IF Fiber(f).is = "offers" THEN {Fiber(f).entry} ELSE {})
  BY <1>1, LetInAppend
<1>. QED BY <1>1, <1>2, OnTop

LEMMA LetInLoop ==
    ASSUME NEW s \in Seq(Frames), NEW l \in OfferLoops
    PROVE  /\ Append(s, l) \in Seq(Frames) /\ Append(s, l) # <<>>
           /\ LetInOf(Append(s, l)) = LetInOf(s) \cup {l.entry}
           /\ Last(Append(s, l)) = l /\ Front(Append(s, l)) = s
           /\ Len(Append(s, l)) = Len(s) + 1
           /\ s # <<>> => Append(s, l)[Len(s)] = s[Len(s)]
<1>1. l \in Frames /\ l.is = "offers"
  BY FrameFacts
<1>2. LetInOf(Append(s, l)) = LetInOf(s) \cup (IF l.is = "offers" THEN {l.entry} ELSE {})
  BY <1>1, LetInAppend
<1>3. ASSUME s # <<>>
      PROVE  Append(s, l)[Len(s)] = s[Len(s)]
  <2>1. Len(s) \in 1 .. Len(s)
    BY <1>3
  <2>. QED BY <1>1, <2>1, Appended
<1>. QED BY <1>1, <1>2, <1>3, OnTop

LEMMA RunningTop ==
    ASSUME NEW s, NEW b, NEW f \in Fibers, Running(s, b, f)
    PROVE  /\ s \in Seq(Frames) /\ s # <<>> /\ Last(s) = Fiber(f) /\ Front(s) = b /\ LetInOf(s) = {}
BY LetInFiber, BelowFacts DEF Running

LEMMA ReleasingTop ==
    ASSUME QueueTyped, NEW b, NEW c \in Consumers, NEW l \in OfferLoops, Releasing(b, c, l)
    PROVE  /\ stack # <<>> /\ Last(stack) = l /\ Front(stack) = Append(b, Fiber(c))
           /\ stack[Len(stack) - 1].of = c
           /\ LetIn = {l.entry} /\ LetInOf(Front(stack)) = {}
<1> DEFINE s == Append(b, Fiber(c))
<1>1. b \in Seq(Frames) /\ LetInOf(b) = {} /\ c \in Fibers
  BY BelowFacts DEF Releasing, Fibers
<1>2. s \in Seq(Frames) /\ LetInOf(s) = {} /\ s # <<>>
  BY <1>1, LetInFiber
<1>3. s[Len(s)] = Fiber(c) /\ Len(s) \in Nat
  BY <1>1, <1>2, LetInFiber DEF Last
<1>4. stack = Append(s, l) /\ LetIn = LetInOf(stack)
  BY DEF Releasing, Under, LetIn, LetInOf
<1> HIDE DEF s
<1>5. /\ stack # <<>> /\ Last(stack) = l /\ Front(stack) = s /\ LetIn = {l.entry}
      /\ Len(stack) = Len(s) + 1 /\ stack[Len(s)] = Fiber(c)
  BY <1>2, <1>3, <1>4, LetInLoop
<1>6. stack[Len(stack) - 1] = Fiber(c)
  BY <1>3, <1>5
<1>. QED BY <1>1, <1>2, <1>5, <1>6, FrameFacts DEF s

LEMMA ResumedTop ==
    ASSUME NEW s, NEW b, NEW c \in Consumers, NEW l \in OfferLoops, NEW p \in Producers, Resumed(s, b, c, l, p)
    PROVE  /\ s \in Seq(Frames) /\ s # <<>> /\ Last(s) = Fiber(p) /\ Front(s) = Under(b, c, l)
           /\ LetInOf(s) = {l.entry}
<1> DEFINE a == Append(b, Fiber(c))
           t == Append(a, l)
<1>1. b \in Seq(Frames) /\ LetInOf(b) = {} /\ c \in Fibers /\ p \in Fibers
  BY BelowFacts DEF Resumed, Fibers
<1>2. a \in Seq(Frames) /\ LetInOf(a) = {}
  BY <1>1, LetInFiber
<1> HIDE DEF a
<1>3. t \in Seq(Frames) /\ LetInOf(t) = {l.entry}
  BY <1>2, LetInLoop
<1>4. s = Append(t, Fiber(p)) /\ t = Under(b, c, l)
  BY DEF Resumed, Under, a
<1> HIDE DEF t
<1>. QED BY <1>1, <1>3, <1>4, LetInFiber

\* Where a fiber on top of the stack is.
LEMMA TopFiber ==
    ASSUME QueueTyped, Turn, NEW f \in Fibers, stack # <<>>, Last(stack) = Fiber(f)
    PROVE  \E b \in Seq(Frames) :
             \/ Running(stack, b, f)
             \/ f \in Producers /\ \E c \in Consumers, l \in OfferLoops : Resumed(stack, b, c, l, f)
<1>1. PICK b \in Seq(Frames) :
        \/ \E x \in BOOLEAN : Between(b, x)
        \/ \E g \in Fibers : Running(stack, b, g)
        \/ \E c \in Consumers, l \in OfferLoops : Releasing(b, c, l)
        \/ \E c \in Consumers, l \in OfferLoops, p \in Producers : Resumed(stack, b, c, l, p)
  BY DEF Turn
<1>0. Last(stack).is = "fiber" /\ Last(stack).of = f
  BY FrameFacts
<1>2. ASSUME NEW x \in BOOLEAN, Between(b, x)
      PROVE  FALSE
  <2>1. Last(stack) = Loop(x)
    BY <1>2, BelowFacts DEF Between
  <2>. QED BY <1>0, <2>1, FrameFacts
<1>3. ASSUME NEW g \in Fibers, Running(stack, b, g)
      PROVE  Running(stack, b, f)
  <2>1. Last(stack) = Fiber(g)
    BY <1>3, RunningTop
  <2>2. g = f
    BY <1>0, <2>1, FrameFacts
  <2>. QED BY <1>3, <2>2
<1>4. ASSUME NEW c \in Consumers, NEW l \in OfferLoops, Releasing(b, c, l)
      PROVE  FALSE
  <2>1. Last(stack) = l
    BY <1>4, ReleasingTop
  <2>. QED BY <1>0, <2>1, FrameFacts
<1>5. ASSUME NEW c \in Consumers, NEW l \in OfferLoops, NEW p \in Producers, Resumed(stack, b, c, l, p)
      PROVE  f \in Producers /\ Resumed(stack, b, c, l, f)
  <2>1. Last(stack) = Fiber(p)
    BY <1>5, ResumedTop
  <2>2. p = f
    BY <1>0, <2>1, FrameFacts DEF Fibers
  <2>. QED BY <1>5, <2>2
<1>. QED BY <1>1, <1>2, <1>3, <1>4, <1>5

\* An empty stack is between turns.
LEMMA EmptyStack ==
    ASSUME QueueTyped, Turn, stack = <<>>
    PROVE  \E x \in BOOLEAN : Between(<<>>, x)
<1>1. PICK b \in Seq(Frames) :
        \/ \E x \in BOOLEAN : Between(b, x)
        \/ \E g \in Fibers : Running(stack, b, g)
        \/ \E c \in Consumers, l \in OfferLoops : Releasing(b, c, l)
        \/ \E c \in Consumers, l \in OfferLoops, p \in Producers : Resumed(stack, b, c, l, p)
  BY DEF Turn
<1>2. \A x : Between(b, x) => b = <<>>
  BY DEF Between
<1>. QED BY <1>1, <1>2, RunningTop, ReleasingTop, ResumedTop

\* Where a fiber is that makes a step.
LEMMA RunsWhere ==
    ASSUME QueueTyped, Turn, NEW f \in Fibers, Runs(f), place[f] \notin {"offerWaits", "takeWaits", "defect"}
    PROVE  \E b \in Seq(Frames) :
             \/ Running(On(f), b, f)
             \/ f \in Producers /\ \E c \in Consumers, l \in OfferLoops : Resumed(On(f), b, c, l, f)
<1>1. CASE stack # <<>>
  BY <1>1, TopFiber, OnFacts DEF Runs
<1>2. CASE stack = <<>>
  <2>1. PICK x \in BOOLEAN : Between(<<>>, x)
    BY <1>2, EmptyStack
  <2>2. place[f] = "idle"
    BY <2>1 DEF Between, Resting
  <2>3. Below(<<>>, FALSE)
    BY <2>1 DEF Between, Below
  <2>4. Running(On(f), <<>>, f)
    BY <1>2, <2>1, <2>2, <2>3, OnFacts DEF Between, Running, Resting, Producing, Consuming, Fibers
  <2>. QED BY <2>1, <2>4 DEF Between
<1>. QED BY <1>1, <1>2

USE DEF Tame

LEMMA WaitsKept ==
    ASSUME Waits, UNCHANGED waiting, last \in Nat, last' \in {last, last + 1}, waiting \in [Fibers -> Nat],
           \A g \in Fibers : place[g] = "offerWaits" => place'[g] = "offerWaits"
    PROVE  Waits'
BY DEF Waits

LEMMA StaysRunning ==
    ASSUME NEW b \in Seq(Frames), NEW f \in Fibers, Running(stack, b, f)'
    PROVE  Turn'
BY DEF Turn

LEMMA StaysResumed ==
    ASSUME NEW b \in Seq(Frames), NEW c \in Consumers, NEW l \in OfferLoops, NEW f \in Producers,
           Resumed(stack, b, c, l, f)'
    PROVE  Turn'
BY DEF Turn

LEMMA StaysBetween ==
    ASSUME NEW b \in Seq(Frames), NEW x \in BOOLEAN, Between(b, x)'
    PROVE  Turn'
BY DEF Turn

LEMMA StaysReleasing ==
    ASSUME NEW b \in Seq(Frames), NEW c \in Consumers, NEW l \in OfferLoops, Releasing(b, c, l)'
    PROVE  Turn'
BY DEF Turn

\* What a producer that runs may rely on.
LEMMA ProducerRuns ==
    ASSUME QueueTyped, Tame, Turn, NEW f \in Producers, Runs(f), place[f] \in {"idle", "offering"}
    PROVE  \/ Running(On(f), <<>>, f)
           \/ \E b \in Seq(Frames), c \in Consumers, l \in OfferLoops : Resumed(On(f), b, c, l, f)
<1>1. f \in Fibers
  BY DEF Fibers
<1>. QED BY <1>1, RunsWhere DEF Running

LEMMA OfferTame ==
    ASSUME QueueAssumption, Tame, QueueTyped, Turn, Room, Waits, NEW f \in Producers, Offer(f)
    PROVE  /\ Turn' /\ Room' /\ Waits'
           /\ last' # last => offers = {}
<1>0. /\ Runs(f) /\ place[f] = "idle" /\ UNCHANGED <<offers, waiting, takers, tag, capacity>> /\ f \in Fibers
      /\ f \notin Consumers /\ messages \in Seq(Nat) /\ capacity \in Nat /\ Capacity \in Nat
      /\ last \in Nat /\ releases \in Nat /\ place \in [Fibers -> HandoverPlaces] /\ Len(messages) \in Nat
      /\ waiting \in [Fibers -> Nat] /\ <<>> \in Seq(Frames)
  BY DEF Offer, Fibers, QueueTyped, QueueAssumption
<1>1. CASE Running(On(f), <<>>, f)
  <2>1. /\ Below(<<>>, FALSE) /\ Resting({f}) /\ (capacity = Capacity \/ tag = "Done")
        /\ offers # {} => Len(messages) >= capacity
        /\ Capacity = 0 => messages = <<>>
    BY <1>0, <1>1 DEF Running
  <2>2. ASSUME Continues(f, "idle"), UNCHANGED <<messages, scheduleVars, last>>
        PROVE  Turn' /\ Room' /\ Waits' /\ (last' # last => offers = {})
    <3>1. UNCHANGED <<place, scheduleRunning, releases>> /\ stack' = On(f)
      BY <1>0, <2>2 DEF Continues, scheduleVars
    <3>2. Running(stack, <<>>, f)'
      BY <1>0, <1>1, <2>1, <2>2, <3>1 DEF Running, Below, Resting, Producing, Consuming
    <3>. QED BY <1>0, <2>2, <3>1, <3>2, StaysRunning, WaitsKept DEF Room
  <2>3. CASE /\ tag = "Open" /\ Len(messages) < capacity /\ Continues(f, "idle") /\ NewValue
             /\ messages' = Append(messages, last') /\ ScheduleReleaseTaker
    <3>1. /\ UNCHANGED place /\ stack' = On(f) /\ last' = last + 1
          /\ Len(messages') = Len(messages) + 1 /\ messages' # <<>> /\ offers = {} /\ capacity = Capacity
          /\ Capacity > 0
      BY <1>0, <2>1, <2>3, Appended DEF Continues, NewValue
    <3>2. /\ takers # <<>> => releases' > 0
          /\ scheduleRunning' => releases' > 0
      <4>1. CASE ~scheduleRunning /\ takers # <<>>
        BY <1>0, <2>3, <4>1 DEF ScheduleReleaseTaker
      <4>2. CASE ~(~scheduleRunning /\ takers # <<>>)
        <5>1. releases' = releases /\ scheduleRunning' = scheduleRunning
          BY <2>3, <4>2 DEF ScheduleReleaseTaker, QueueTyped
        <5>. QED BY <4>2, <5>1 DEF Room
      <4>. QED BY <4>1, <4>2
    <3>3. Running(stack, <<>>, f)'
      BY <1>0, <1>1, <2>1, <3>1, <3>2 DEF Running, Below, Resting, Producing
    <3>4. Room'
      BY <1>0, <2>3, <3>1, <3>2 DEF Room
    <3>. QED BY <1>0, <3>1, <3>3, <3>4, StaysRunning, WaitsKept
  <2>4. CASE /\ tag = "Open" /\ Len(messages) >= capacity /\ Strategy = "sliding" /\ Continues(f, "idle")
             /\ NewValue /\ messages' = Append(Slid, last') /\ UNCHANGED scheduleVars
    <3>1. /\ UNCHANGED <<place, scheduleRunning, releases>> /\ stack' = On(f) /\ last' = last + 1
          /\ offers = {} /\ capacity = Capacity /\ Capacity > 0 /\ messages # <<>>
      BY <1>0, <2>1, <2>4 DEF Continues, NewValue, scheduleVars, Room, QueueAssumption
    <3>2. Len(messages') = Len(messages) /\ messages' # <<>>
      <4>1. Tail(messages) \in Seq(Nat) /\ Len(Tail(messages)) = Len(messages) - 1
        BY <1>0, <3>1
      <4>2. messages' = Append(Tail(messages), last + 1) /\ last + 1 \in Nat
        BY <1>0, <2>4, <3>1 DEF Slid
      <4>3. Len(messages') = Len(Tail(messages)) + 1
        BY <4>1, <4>2, Appended
      <4>4. Len(messages) > 0
        BY <1>0, <3>1
      <4>. QED BY <1>0, <4>1, <4>3, <4>4
    <3>3. Running(stack, <<>>, f)'
      BY <1>0, <1>1, <2>1, <3>1, <3>2 DEF Running, Below, Resting, Producing
    <3>4. Room'
      BY <1>0, <2>4, <3>1, <3>2 DEF Room
    <3>. QED BY <1>0, <3>1, <3>3, <3>4, StaysRunning, WaitsKept
  <2>5. CASE /\ tag = "Open" /\ capacity = 0 /\ takers # <<>> /\ Calls(f, "idle", TakersLoop)
             /\ scheduleRunning' = FALSE /\ NewValue
             /\ messages' = Append(messages, last') /\ UNCHANGED releases
    <3>0. PICK b : b = Append(On(f), Loop(TRUE))
      OBVIOUS
    <3>1. /\ UNCHANGED place /\ stack' = b /\ last' = last + 1
      BY <1>0, <2>5, <3>0, FrameFacts DEF Calls, NewValue
    <3>2. Capacity = 0 /\ messages = <<>> /\ offers = {}
      BY <2>1, <2>5 DEF Below, Room
    <3>3. Len(messages') = 1
      BY <1>0, <2>5, <3>1, <3>2
    <3>4. b = Append(Append(<<>>, Fiber(f)), Loop(TRUE)) /\ b \in Seq(Frames) /\ b # <<>>
      <4>1. On(f) = Append(<<>>, Fiber(f))
        BY <1>1 DEF Running
      <4>2. On(f) \in Seq(Frames) /\ Loop(TRUE) \in Frames
        BY <1>0, OnFacts, FrameFacts
      <4>. QED BY <3>0, <4>1, <4>2, OnTop
    <3>5. Between(b, TRUE)'
      <4>1. Below(b, TRUE)'
        BY <1>0, <3>1, <3>2, <3>4 DEF Below
      <4>2. Resting({})'
        BY <1>0, <2>1, <3>1 DEF Resting
      <4>3. takers' # <<>> /\ Capacity = 0 /\ capacity' = 0 /\ offers' = {} /\ Len(messages') = 1
        BY <1>0, <2>5, <3>2, <3>3
      <4>. QED BY <1>0, <3>1, <3>2, <3>4, <4>1, <4>2, <4>3 DEF Between
    <3>6. Room'
      BY <1>0, <2>5, <3>1, <3>2, <3>3 DEF Room
    <3>. QED BY <1>0, <3>1, <3>2, <3>4, <3>5, <3>6, StaysBetween, WaitsKept
  <2>6. CASE /\ tag = "Open" /\ Len(messages) >= capacity /\ Strategy = "suspend"
             /\ ~(capacity = 0 /\ takers # <<>>)
             /\ Continues(f, "offering") /\ UNCHANGED <<messages, scheduleVars, last>>
    <3>1. /\ place' = [place EXCEPT ![f] = "offering"] /\ stack' = On(f)
          /\ UNCHANGED <<messages, scheduleRunning, releases, last>>
      BY <2>6 DEF Continues, scheduleVars
    <3>2. Running(stack, <<>>, f)'
      BY <1>0, <1>1, <2>1, <2>6, <3>1 DEF Running, Below, Resting, Producing
    <3>3. \A g \in Fibers : place[g] = "offerWaits" => place'[g] = "offerWaits"
      BY <1>0, <3>1
    <3>4. Room'
      BY <1>0, <3>1 DEF Room
    <3>. QED BY <1>0, <3>1, <3>2, <3>3, <3>4, StaysRunning, WaitsKept
  <2>. QED BY <2>2, <2>3, <2>4, <2>5, <2>6 DEF Offer, OfferStays, history
<1>2. ASSUME NEW b \in Seq(Frames), NEW c \in Consumers, NEW l \in OfferLoops, Resumed(On(f), b, c, l, f)
      PROVE  Turn' /\ Room' /\ Waits' /\ (last' # last => offers = {})
  <2>1. /\ Strategy = "suspend" /\ (tag # "Done" => Len(messages) >= capacity)
        /\ (Capacity = 0 => capacity = 1 /\ b = <<>>) /\ l.entry # 0 /\ c # f /\ c \in Fibers
    BY <1>0, <1>2 DEF Resumed, Letting, Fibers
  <2>2. Capacity > 0 => capacity > 0
    BY DEF Room
  <2>3. ASSUME NEW p \in {"idle", "offering"}, Continues(f, p), UNCHANGED <<messages, scheduleVars, last>>,
               p = "offering" => tag = "Open" /\ Len(messages) >= capacity
        PROVE  Turn' /\ Room' /\ Waits' /\ (last' # last => offers = {})
    <3>1. /\ place' = [place EXCEPT ![f] = p] /\ stack' = On(f)
          /\ UNCHANGED <<messages, scheduleRunning, releases, last>>
      BY <2>3 DEF Continues, scheduleVars
    <3>2. tag = "Open" /\ Capacity = 0 => takers = <<>>
      <4>1. tag = "Open" /\ Capacity = 0 => messages # <<>> /\ releases = 0
        BY <1>0, <2>1 DEF Room
      <4>. QED BY <1>2, <2>1, <4>1 DEF Resumed, Below
    <3>3. Producing(f)'
      BY <1>0, <2>1, <2>3, <3>1, <3>2 DEF Producing
    <3>4. Below(b, FALSE)'
      <4>1. \A q \in Fibers : place[q] = "idle" => Capacity # 0 \/ b = <<>>
        BY <2>1
      <4>. QED BY <1>0, <1>2, <2>1, <3>1 DEF Below, Resumed
    <3>5. Letting(b, c, l)' /\ Resting({c, f})'
      BY <1>0, <1>2, <2>1, <3>1 DEF Letting, Resting, Resumed
    <3>6. Resumed(stack, b, c, l, f)'
      BY <1>0, <1>2, <3>1, <3>3, <3>4, <3>5 DEF Resumed
    <3>7. \A g \in Fibers : place[g] = "offerWaits" => place'[g] = "offerWaits"
      BY <1>0, <3>1
    <3>8. Room'
      BY <1>0, <3>1 DEF Room
    <3>. QED BY <1>0, <3>1, <3>6, <3>7, <3>8, StaysResumed, WaitsKept
  <2>. QED BY <1>0, <2>1, <2>2, <2>3 DEF Offer, OfferStays, history
<1>. QED BY <1>0, <1>1, <1>2, ProducerRuns

LEMMA RegisterTame ==
    ASSUME QueueAssumption, Tame, QueueTyped, Turn, Room, Waits, NEW f \in Fibers, RegisterOffer(f)
    PROVE  /\ Turn' /\ Room' /\ Waits'
           /\ last + 1 \notin LetIn
<1>0. /\ Runs(f) /\ place[f] = "offering" /\ UNCHANGED <<messages, takers, tag, capacity, scheduleRunning, releases>>
      /\ messages \in Seq(Nat) /\ capacity \in Nat /\ Capacity \in Nat
      /\ last \in Nat /\ releases \in Nat /\ place \in [Fibers -> HandoverPlaces] /\ Len(messages) \in Nat
      /\ waiting \in [Fibers -> Nat]
  BY DEF RegisterOffer, scheduleVars, QueueTyped, QueueAssumption
<1>1. ASSUME f \in Producers, Producing(f), Front(On(f)) \in Seq(Frames)
      PROVE  /\ tag = "Open" /\ Strategy = "suspend" /\ Len(messages) >= capacity
             /\ Capacity = 0 => takers = <<>>
             /\ place' = [place EXCEPT ![f] = "offerWaits"] /\ stack' = Front(On(f))
             /\ last' = last + 1 /\ offers' = offers \cup {last + 1}
             /\ takers # <<>> => messages # <<>>
             /\ Room' /\ Waits'
  <2>1. /\ tag = "Open" /\ Strategy = "suspend" /\ Len(messages) >= capacity
        /\ Capacity = 0 => takers = <<>>
    BY <1>0, <1>1 DEF Producing
  <2>2. /\ place' = [place EXCEPT ![f] = "offerWaits"] /\ stack' = Front(On(f))
        /\ last' = last + 1 /\ offers' = offers \cup {last + 1} /\ waiting' = [waiting EXCEPT ![f] = last + 1]
    BY <2>1 DEF RegisterOffer, Leaves, NewValue
  <2>3. takers # <<>> => messages # <<>>
    BY <1>0, <2>1 DEF Room
  <2>4. Room'
    <3>1. \A w \in offers : w <= last /\ w \in Nat
      BY DEF Room, QueueTyped
    <3>2. \A w \in offers' : w <= last'
      BY <1>0, <2>2, <3>1
    <3>. QED BY <1>0, <2>1, <2>2, <3>2 DEF Room
  <2>5. Waits'
    <3>1. \A g \in Fibers : g # f => waiting'[g] = waiting[g] /\ place'[g] = place[g]
      BY <1>0, <2>2
    <3>2. waiting'[f] = last + 1 /\ place'[f] = "offerWaits"
      BY <1>0, <2>2
    <3>3. \A g \in Fibers : waiting[g] # last + 1
      BY <1>0 DEF Waits
    <3>. QED BY <1>0, <1>1, <2>2, <3>1, <3>2, <3>3 DEF Waits
  <2>. QED BY <2>1, <2>2, <2>3, <2>4, <2>5
<1>2. ASSUME NEW b \in Seq(Frames), Running(On(f), b, f)
      PROVE  Turn' /\ Room' /\ Waits' /\ last + 1 \notin LetIn
  <2>1. f \in Producers /\ Producing(f) /\ b = <<>> /\ Front(On(f)) = <<>> /\ LetInOf(On(f)) = {}
    BY <1>0, <1>2, RunningTop DEF Running, Consuming, Fibers
  <2>2. LetIn = {}
    BY <2>1, OnFacts
  <2>3. Below(<<>>, FALSE) /\ Resting({f}) /\ (capacity = Capacity \/ tag = "Done")
        /\ (Capacity = 0 => messages = <<>>)
    BY <1>0, <1>2, <2>1 DEF Running
  <2>4. <<>> \in Seq(Frames)
    OBVIOUS
  <2>5. Between(<<>>, FALSE)'
    <3>1. Below(<<>>, FALSE)'
      BY <1>0, <1>1, <2>1, <2>3, <2>4 DEF Below
    <3>2. Resting({})'
      BY <1>0, <1>1, <2>1, <2>3, <2>4 DEF Resting
    <3>. QED BY <1>0, <1>1, <2>1, <2>3, <2>4, <3>1, <3>2 DEF Between
  <2>. QED BY <1>1, <2>1, <2>2, <2>4, <2>5, StaysBetween
<1>3. ASSUME f \in Producers, NEW b \in Seq(Frames), NEW c \in Consumers, NEW l \in OfferLoops,
             Resumed(On(f), b, c, l, f)
      PROVE  Turn' /\ Room' /\ Waits' /\ last + 1 \notin LetIn
  <2>1. /\ Producing(f) /\ LetIn = {l.entry} /\ Front(On(f)) = Under(b, c, l)
        /\ l.entry <= last /\ l.entry # 0 /\ c # f /\ c \in Fibers /\ l.n \in 0 .. 1 /\ l.entry \in Nat
    <3>1. /\ Producing(f) /\ Letting(b, c, l) /\ l.entry # 0
      BY <1>3 DEF Resumed
    <3>2. LetInOf(On(f)) = {l.entry} /\ Front(On(f)) = Under(b, c, l)
      BY <1>3, ResumedTop
    <3>3. LetIn = {l.entry}
      BY <3>2, OnFacts
    <3>4. l.entry \in Nat
      BY FrameFacts
    <3>5. c # f /\ c \in Fibers
      BY <1>3 DEF Fibers
    <3>. QED BY <3>1, <3>2, <3>3, <3>4, <3>5 DEF Letting
  <2>2. Front(On(f)) \in Seq(Frames)
    <3>1. Append(b, Fiber(c)) \in Seq(Frames)
      BY <2>1, LetInFiber
    <3>. QED BY <2>1, <3>1, LetInLoop DEF Under
  <2>3. Letting(b, c, l)'
    BY <1>0, <1>1, <1>3, <2>1, <2>2 DEF Letting, Resumed
  <2>4. Below(b, FALSE)'
    <3>1. Capacity = 0 => b = <<>>
      BY <1>3 DEF Resumed, Letting
    <3>. QED BY <1>0, <1>1, <1>3, <2>1, <2>2, <3>1 DEF Below, Resumed
  <2>5. Resting({c})'
    BY <1>0, <1>1, <1>3, <2>1, <2>2 DEF Resting, Resumed
  <2>6. Releasing(b, c, l)'
    BY <1>1, <1>3, <2>1, <2>2, <2>3, <2>4, <2>5 DEF Releasing
  <2>. QED BY <1>0, <1>1, <1>3, <2>1, <2>2, <2>6, StaysReleasing
<1>4. place[f] \notin {"offerWaits", "takeWaits", "defect"}
  BY <1>0
<1>. QED BY <1>0, <1>2, <1>3, <1>4, RunsWhere

\* A consumer that makes a step.
LEMMA ConsumerRuns ==
    ASSUME QueueTyped, Tame, Turn, NEW f \in Fibers, Runs(f),
           place[f] \in {"awaitTake", "woken", "took", "rendezvous"} \/ (place[f] = "idle" /\ f \in Consumers)
    PROVE  f \in Consumers /\ f \notin Producers /\ \E b \in Seq(Frames) : Running(On(f), b, f)
<1>1. place[f] \notin {"offerWaits", "takeWaits", "defect", "offering"}
  OBVIOUS
<1>2. PICK b \in Seq(Frames) :
        \/ Running(On(f), b, f)
        \/ f \in Producers /\ \E c \in Consumers, l \in OfferLoops : Resumed(On(f), b, c, l, f)
  BY <1>1, RunsWhere
<1>3. f \in Producers => ~Producing(f)
  BY DEF Producing
<1>4. CASE Running(On(f), b, f)
  <2>1. f \notin Producers
    BY <1>3, <1>4 DEF Running
  <2>. QED BY <1>4, <2>1 DEF Fibers
<1>5. ASSUME f \in Producers, NEW c \in Consumers, NEW l \in OfferLoops, Resumed(On(f), b, c, l, f)
      PROVE  FALSE
  BY <1>3, <1>5 DEF Resumed
<1>. QED BY <1>2, <1>4, <1>5

LEMMA AwaitTame ==
    ASSUME QueueAssumption, Tame, QueueTyped, Turn, Room, Waits, NEW f \in Fibers, AwaitTake(f) \/ Receive(f)
    PROVE  Turn' /\ Room' /\ Waits' /\ f \in Consumers
<1>0. /\ Runs(f) /\ place[f] \in {"awaitTake", "took"} /\ place \in [Fibers -> HandoverPlaces]
      /\ UNCHANGED <<messages, offers, waiting, tag, capacity, scheduleRunning, releases, last>>
      /\ last \in Nat /\ waiting \in [Fibers -> Nat]
  BY DEF AwaitTake, Receive, scheduleVars, history, QueueTyped
<1>1. f \in Consumers /\ f \notin Producers
  BY <1>0, ConsumerRuns
<1>2. PICK b \in Seq(Frames) : Running(On(f), b, f)
  BY <1>0, ConsumerRuns
<1>3. On(f) \in Seq(Frames) /\ Front(On(f)) = b
  BY <1>2, RunningTop
<1>4. ASSUME NEW p \in {"idle", "takeWaits"}, place' = [place EXCEPT ![f] = p]
      PROVE  /\ Below(b, FALSE) => \A q \in Producers : place[q] = "idle" => place'[q] = "idle"
             /\ Waits' /\ Resting({f})' /\ place'[f] = p
             /\ p = "takeWaits" => Resting({})'
  BY <1>0, <1>1, <1>2, <1>4, WaitsKept DEF Fibers, Resting, Running
<1>5. ASSUME Continues(f, "idle"), UNCHANGED takers
      PROVE  Turn' /\ Room' /\ Waits'
  <2>1. place' = [place EXCEPT ![f] = "idle"] /\ stack' = On(f)
    BY <1>5 DEF Continues
  <2>2. Below(b, FALSE)'
    BY <1>0, <1>2, <1>4, <1>5, <2>1 DEF Below, Running
  <2>3. Running(stack, b, f)'
    BY <1>0, <1>1, <1>2, <1>4, <2>1, <2>2 DEF Running, Consuming
  <2>4. Room'
    BY <1>0, <1>5 DEF Room
  <2>. QED BY <1>4, <2>1, <2>3, <2>4, StaysRunning
<1>6. CASE AwaitTake(f) /\ tag # "Done" /\ Leaves(f, "takeWaits") /\ takers' = Append(takers, f)
  <2>1. place' = [place EXCEPT ![f] = "takeWaits"] /\ stack' = b
    BY <1>3, <1>6 DEF Leaves
  <2>2. messages = <<>> /\ offers = {} /\ place[f] = "awaitTake"
    BY <1>1, <1>2, <1>6 DEF Running, Consuming, AwaitTake
  <2>3. Below(b, FALSE)'
    BY <1>0, <1>2, <1>4, <2>1, <2>2 DEF Below, Running
  <2>4. Between(b, FALSE)'
    BY <1>0, <1>1, <1>2, <1>4, <2>1, <2>2, <2>3 DEF Between, Running
  <2>5. Room'
    BY <1>0, <1>6, <2>2 DEF Room
  <2>6. Waits'
    BY <1>4, <2>1
  <2>7. Turn'
    BY <2>4, StaysBetween
  <2>. QED BY <1>1, <2>5, <2>6, <2>7
<1>. QED BY <1>1, <1>5, <1>6 DEF AwaitTake, Receive

LEMMA SuspendTame ==
    ASSUME QueueAssumption, Tame, QueueTyped, Turn, Room, Waits, NEW f \in Fibers, Suspend(f)
    PROVE  Turn' /\ Room' /\ Waits'
<1>0. /\ stack # <<>> /\ Last(stack) = Fiber(f) /\ place[f] \in {"idle", "defect"} /\ stack' = Front(stack)
      /\ UNCHANGED <<place, messages, offers, waiting, takers, tag, capacity, scheduleRunning, releases, last>>
      /\ last \in Nat /\ waiting \in [Fibers -> Nat]
  BY DEF Suspend, scheduleVars, history, QueueTyped
<1>1. Room' /\ Waits'
  BY <1>0, WaitsKept DEF Room
<1>2. ASSUME NEW b \in Seq(Frames), Running(stack, b, f)
      PROVE  Turn'
  <2>1. stack' = b
    BY <1>0, <1>2, RunningTop
  <2>2. Below(b, FALSE)' /\ Resting({})'
    BY <1>0, <1>2 DEF Running, Below, Resting
  <2>3. Between(b, FALSE)'
    BY <1>0, <1>2, <2>1, <2>2 DEF Running, Between
  <2>. QED BY <2>3, StaysBetween
<1>3. ASSUME f \in Producers, NEW b \in Seq(Frames), NEW c \in Consumers, NEW l \in OfferLoops,
             Resumed(stack, b, c, l, f)
      PROVE  Turn'
  <2>1. stack' = Under(b, c, l)
    BY <1>0, <1>3, ResumedTop
  <2>2. Below(b, FALSE)' /\ Resting({c})' /\ Letting(b, c, l)'
    BY <1>0, <1>3 DEF Resumed, Below, Resting, Letting
  <2>3. Releasing(b, c, l)'
    BY <1>0, <1>3, <2>1, <2>2 DEF Releasing
  <2>. QED BY <1>3, <2>3, StaysReleasing
<1>. QED BY <1>0, <1>1, <1>2, <1>3, TopFiber

\* What a take asks for, of a queue without capacity as one with a capacity of one.
LEMMA Enough ==
    ASSUME QueueAssumption, Tame, capacity \in Nat, capacity = Capacity, NEW min \in {Least, 1},
           Most = 1 \/ Capacity <= 1
    PROVE  Min({min, Max({1, capacity})}) = 1
<1>1. min \in Int /\ min >= 1 /\ (Most = 1 => min = 1) /\ 1 \in Int /\ capacity \in Int
  BY DEF QueueAssumption
<1>2. Max({1, capacity}) = (IF 1 <= capacity THEN capacity ELSE 1)
  <2>1. \A x, y \in Int : Max({x, y}) = (IF x <= y THEN y ELSE x)
    BY LeastOfTwo
  <2>. QED BY <1>1, <2>1
<1>3. Max({1, capacity}) \in Int /\ Max({1, capacity}) >= 1 /\ (Capacity <= 1 => Max({1, capacity}) = 1)
  BY <1>1, <1>2
<1>4. Min({min, Max({1, capacity})}) = (IF min <= Max({1, capacity}) THEN min ELSE Max({1, capacity}))
  BY <1>1, <1>3, LeastOfTwo
<1>. QED BY <1>1, <1>3, <1>4

LEMMA TakeTame ==
    ASSUME QueueAssumption, Tame, QueueTyped, Turn, Room, Waits, NEW f \in Fibers, Take(f) \/ TakeAgain(f)
    PROVE  Turn' /\ Room' /\ Waits'
<1>0. /\ Runs(f) /\ place \in [Fibers -> HandoverPlaces] /\ messages \in Seq(Nat) /\ Len(messages) \in Nat
      /\ place[f] \in {"idle", "woken"} /\ (place[f] = "idle" => f \in Consumers)
      /\ UNCHANGED <<offers, waiting, scheduleRunning, releases, last>>
      /\ last \in Nat /\ waiting \in [Fibers -> Nat] /\ capacity \in Nat /\ Capacity \in Nat /\ releases \in Nat
  BY DEF Take, TakeAgain, scheduleVars, QueueTyped, QueueAssumption
<1>1. f \in Consumers /\ f \notin Producers
  BY <1>0, ConsumerRuns
<1>2. PICK b \in Seq(Frames) : Running(On(f), b, f)
  BY <1>0, ConsumerRuns
<1>3. PICK min \in {Least, 1} : TakeFrom(f, min)
  BY DEF Take, TakeAgain
<1>4. /\ On(f) = Append(b, Fiber(f)) /\ Below(b, FALSE) /\ Resting({f}) /\ Consuming(f, b)
      /\ capacity = Capacity \/ tag = "Done"
      /\ offers # {} => Len(messages) >= capacity
      /\ Capacity = 0 /\ messages # <<>> => place[f] = "woken" /\ Len(messages) = 1
  BY <1>0, <1>1, <1>2 DEF Running
<1>5. Capacity > 0 => capacity = Capacity /\ Len(messages) <= Capacity
  BY DEF Room
<1>6. ASSUME NEW p \in HandoverPlaces, p # "offerWaits",
             \A g \in Fibers : place'[g] = IF g = f THEN p ELSE place[g]
      PROVE  Waits' /\ Resting({f})' /\ place'[f] = p /\ \A q \in Producers : place'[q] = place[q]
  BY <1>0, <1>1, <1>4, <1>6, WaitsKept DEF Resting, Fibers
<1>7. ASSUME NEW p \in HandoverPlaces, place' = [place EXCEPT ![f] = p], p # "offerWaits"
      PROVE  Waits' /\ Resting({f})' /\ place'[f] = p /\ \A q \in Producers : place'[q] = place[q]
  <2>1. \A g \in Fibers : place'[g] = IF g = f THEN p ELSE place[g]
    BY <1>0, <1>7
  <2>. QED BY <1>6, <1>7, <2>1
<1>8. CASE tag = "Done" /\ Continues(f, "idle") /\ UNCHANGED <<messages, takers, tag, capacity, hand, taken>>
  <2>1. place' = [place EXCEPT ![f] = "idle"] /\ stack' = On(f) /\ messages = <<>> /\ "idle" \in HandoverPlaces
    BY <1>8 DEF Continues, Room, HandoverPlaces
  <2>2. Waits' /\ Resting({f})' /\ place'[f] = "idle" /\ \A q \in Producers : place'[q] = place[q]
    BY <1>7, <2>1
  <2>3. Below(b, FALSE)'
    BY <1>0, <1>4, <1>8, <2>2 DEF Below
  <2>4. Running(stack, b, f)'
    BY <1>0, <1>1, <1>4, <1>8, <2>1, <2>2, <2>3 DEF Running, Consuming
  <2>5. Room'
    BY <1>0, <1>8 DEF Room
  <2>. QED BY <2>2, <2>4, <2>5, StaysRunning
<1>9. CASE /\ tag # "Done" /\ ~(capacity = 0 /\ offers # {})
           /\ Min({min, Max({1, capacity})}) > Len(messages)
           /\ Continues(f, "awaitTake") /\ UNCHANGED <<messages, takers, tag, capacity, hand, taken>>
  <2>1. place' = [place EXCEPT ![f] = "awaitTake"] /\ stack' = On(f) /\ "awaitTake" \in HandoverPlaces
    BY <1>9 DEF Continues, HandoverPlaces
  <2>2. Waits' /\ Resting({f})' /\ place'[f] = "awaitTake" /\ \A q \in Producers : place'[q] = place[q]
    BY <1>7, <2>1
  <2>3. messages = <<>> /\ offers = {}
    <3>1. Min({min, Max({1, capacity})}) = 1
      BY <1>0, <1>4, <1>9, Enough
    <3>2. Len(messages) = 0
      BY <1>0, <1>9, <3>1
    <3>. QED BY <1>0, <1>4, <1>9, <3>2
  <2>4. Below(b, FALSE)'
    BY <1>0, <1>4, <1>9, <2>2 DEF Below
  <2>5. Running(stack, b, f)'
    BY <1>0, <1>1, <1>4, <1>9, <2>1, <2>2, <2>3, <2>4 DEF Running, Consuming
  <2>6. Room'
    BY <1>0, <1>9 DEF Room
  <2>. QED BY <2>2, <2>5, <2>6, StaysRunning
<1>10. CASE /\ tag # "Done" /\ capacity = 0 /\ offers # {} /\ capacity' = 1
            /\ Calls(f, "rendezvous", ReleaseLoop(1 - Len(messages)))
            /\ UNCHANGED <<messages, takers, tag, hand, taken>>
  <2>1. Capacity = 0 /\ b = <<>> /\ messages = <<>> /\ Strategy = "suspend"
    BY <1>0, <1>4, <1>5, <1>10 DEF Below, Consuming, Room
  <2>2. PICK l \in OfferLoops : l = ReleaseLoop(1) /\ l.n = 1 /\ l.entry = 0
    BY FrameFacts
  <2>3. place' = [place EXCEPT ![f] = "rendezvous"] /\ "rendezvous" \in HandoverPlaces
    BY <1>10 DEF Calls, HandoverPlaces
  <2>4. stack' = Under(b, f, l)
    <3>1. Len(messages) = 0 /\ 1 - Len(messages) = 1
      BY <2>1
    <3>. QED BY <1>4, <1>10, <2>2, <3>1 DEF Calls, Under
  <2>5. Waits' /\ Resting({f})' /\ place'[f] = "rendezvous" /\ \A q \in Producers : place'[q] = place[q]
    BY <1>7, <2>3
  <2>6. Below(b, FALSE)'
    BY <1>0, <1>4, <1>10, <2>1 DEF Below
  <2>7. Letting(b, f, l)'
    BY <1>0, <1>1, <1>10, <2>1, <2>2, <2>5 DEF Letting
  <2>8. Releasing(b, f, l)'
    BY <2>4, <2>5, <2>6, <2>7 DEF Releasing
  <2>9. Room'
    BY <1>0, <1>10, <2>1 DEF Room
  <2>. QED BY <1>1, <2>5, <2>8, <2>9, StaysReleasing
<1>11. CASE TakeSome(f, min)
  <2> DEFINE k == Min({Most, Len(messages)})
  <2>1. /\ Len(messages) >= 1 /\ k \in 1 .. Len(messages)
        /\ Most = 1 => k = 1
        /\ Len(messages) <= 1 => k = 1
    BY <1>11, Amount DEF TakeSome
  <2>2. /\ tag # "Done" /\ ~(capacity = 0 /\ offers # {}) /\ Takes(f, k)
        /\ ReleaseCapacity(f, "took", capacity - Len(messages')) /\ UNCHANGED capacity
    BY <1>11 DEF TakeSome
  <2> HIDE DEF k
  <2>3. messages' \in Seq(Nat) /\ Len(messages') = Len(messages) - k /\ Len(messages') \in Nat
    <3>1. k \in 0 .. Len(messages)
      BY <1>0, <2>1
    <3>. QED BY <2>2, <3>1, TakesFacts
  <2>4. /\ capacity = Capacity /\ capacity' = Capacity /\ messages # <<>>
        /\ Capacity = 0 => messages' = <<>>
    <3>1. capacity = Capacity /\ capacity' = Capacity /\ messages # <<>>
      BY <1>0, <1>4, <2>1, <2>2
    <3>2. Capacity = 0 => Len(messages') = 0
      BY <1>0, <1>4, <2>1, <2>3, <3>1
    <3>. QED BY <2>3, <3>1, <3>2
  <2>5. "took" \in HandoverPlaces
    BY DEF HandoverPlaces
  <2>6. Room' <=> /\ tag' = "Done" => messages' = <<>> /\ takers' = <<>> /\ offers = {}
    BY <1>0, <1>5, <2>1, <2>2, <2>3, <2>4 DEF Room
  <2>7. CASE offers # {} /\ Calls(f, "took", ReleaseLoop(capacity - Len(messages'))) /\ UNCHANGED <<tag, takers>>
    <3>1. Capacity > 0 /\ Strategy = "suspend" /\ Len(messages) = Capacity
      BY <1>0, <1>4, <1>5, <2>2, <2>4, <2>7 DEF Room
    <3>2. k = 1 /\ capacity - Len(messages') = 1
      BY <1>0, <2>1, <2>3, <2>4, <3>1
    <3>3. PICK l \in OfferLoops : l = ReleaseLoop(1) /\ l.n = 1 /\ l.entry = 0
      BY FrameFacts
    <3>4. place' = [place EXCEPT ![f] = "took"] /\ stack' = Under(b, f, l)
      BY <1>4, <2>7, <3>2, <3>3 DEF Calls, Under
    <3>5. Waits' /\ Resting({f})' /\ place'[f] = "took" /\ \A q \in Producers : place'[q] = place[q]
      BY <1>7, <2>5, <3>4
    <3>6. Below(b, FALSE)'
      BY <1>0, <1>4, <2>7, <3>1, <3>5 DEF Below
    <3>7. Letting(b, f, l)'
      BY <1>0, <1>1, <2>2, <2>4, <2>7, <3>1, <3>2, <3>3, <3>5 DEF Letting
    <3>8. Releasing(b, f, l)'
      BY <3>4, <3>5, <3>6, <3>7 DEF Releasing
    <3>9. Room'
      BY <2>2, <2>6, <2>7
    <3>. QED BY <1>1, <3>5, <3>8, <3>9, StaysReleasing
  <2>8. ASSUME stack' = On(f), offers = {}, Waits', Resting({f})', place'[f] = "took",
               \A q \in Producers : place'[q] = place[q],
               takers' # <<>> => takers # <<>>, tag' = "Done" => takers' = <<>> /\ messages' = <<>>
        PROVE  Turn' /\ Room' /\ Waits'
    <3>1. Below(b, FALSE)'
      BY <1>0, <1>4, <2>4, <2>8 DEF Below
    <3>2. Running(stack, b, f)'
      BY <1>0, <1>1, <1>4, <2>4, <2>8, <3>1 DEF Running, Consuming
    <3>3. Room'
      BY <2>2, <2>6, <2>8
    <3>. QED BY <2>8, <3>2, <3>3, StaysRunning
  <2>9. CASE /\ offers = {} /\ tag = "Closing" /\ messages' = <<>>
             /\ Finalize([place EXCEPT ![f] = "took"]) /\ stack' = On(f)
    <3>1. /\ tag' = "Done" /\ takers' = <<>>
          /\ \A g \in Fibers : place'[g] = IF place[g] = "takeWaits" THEN "idle"
                                           ELSE IF g = f THEN "took" ELSE place[g]
      <4>1. [place EXCEPT ![f] = "took"] \in [Fibers -> HandoverPlaces]
        BY <1>0, <2>5
      <4>. QED BY <1>0, <2>9, <4>1, FinalizeTyped
    <3>2. Resting({f})' /\ place'[f] = "took"
      BY <1>0, <1>4, <3>1 DEF Resting
    <3>3. \A q \in Producers : place[q] = "idle" => place'[q] = "idle"
      BY <1>1, <3>1 DEF Fibers
    <3>4. Waits'
      <4>1. \A g \in Fibers : place[g] = "offerWaits" => place'[g] = "offerWaits"
        BY <1>0, <3>1
      <4>. QED BY <1>0, <4>1, WaitsKept
    <3>5. Below(b, FALSE)'
      BY <1>0, <1>4, <2>9, <3>1, <3>3 DEF Below
    <3>6. Running(stack, b, f)'
      BY <1>0, <1>1, <1>4, <2>9, <3>1, <3>2, <3>5 DEF Running, Consuming
    <3>7. Room'
      BY <2>6, <2>9, <3>1
    <3>. QED BY <3>4, <3>6, <3>7, StaysRunning
  <2>10. CASE offers = {} /\ Continues(f, "took") /\ UNCHANGED <<tag, takers>>
    <3>1. place' = [place EXCEPT ![f] = "took"] /\ stack' = On(f)
      BY <2>10 DEF Continues
    <3>2. Waits' /\ Resting({f})' /\ place'[f] = "took" /\ \A q \in Producers : place'[q] = place[q]
      BY <1>7, <2>5, <3>1
    <3>3. takers' = takers /\ tag' = tag /\ offers = {}
      BY <2>10
    <3>4. (takers' # <<>> => takers # <<>>) /\ tag' # "Done"
      BY <2>2, <3>3
    <3>5. stack' = On(f) /\ offers = {} /\ Waits' /\ Resting({f})' /\ place'[f] = "took"
      BY <3>1, <3>2, <3>3
    <3>. QED BY <2>8, <3>2, <3>4, <3>5
  <2>. QED BY <2>2, <2>7, <2>9, <2>10 DEF ReleaseCapacity
<1>. QED BY <1>3, <1>8, <1>9, <1>10, <1>11 DEF TakeFrom

LEMMA RendezvousTame ==
    ASSUME QueueAssumption, Tame, QueueTyped, Turn, Room, Waits, NEW f \in Fibers, TakeRendezvous(f)
    PROVE  Turn' /\ Room' /\ Waits'
<1>0. /\ Runs(f) /\ place \in [Fibers -> HandoverPlaces] /\ messages \in Seq(Nat) /\ Len(messages) \in Nat
      /\ place[f] = "rendezvous" /\ capacity' = 0
      /\ UNCHANGED <<offers, waiting, scheduleRunning, releases, last>>
      /\ last \in Nat /\ waiting \in [Fibers -> Nat] /\ Capacity \in Nat /\ releases \in Nat
      /\ "took" \in HandoverPlaces /\ <<>> \in Seq(Frames)
  BY DEF TakeRendezvous, scheduleVars, QueueTyped, QueueAssumption, HandoverPlaces
<1>1. f \in Consumers /\ f \notin Producers
  BY <1>0, ConsumerRuns
<1>2. PICK b \in Seq(Frames) : Running(On(f), b, f)
  BY <1>0, ConsumerRuns
<1>3. /\ On(f) = Append(<<>>, Fiber(f)) /\ Below(<<>>, FALSE) /\ Resting({f})
      /\ Capacity = 0 /\ tag # "Done" /\ Len(messages) = 1 /\ b = <<>>
  BY <1>0, <1>1, <1>2 DEF Running, Consuming
<1>4. messages' = <<>>
  <2>1. Min({1, Len(messages)}) = 1
    <3>1. \A x, y \in Int : Min({x, y}) = (IF x <= y THEN x ELSE y)
      BY LeastOfTwo
    <3>. QED BY <1>3, <3>1
  <2>2. Takes(f, 1) /\ 1 \in 0 .. Len(messages)
    BY <1>3, <2>1 DEF TakeRendezvous
  <2>3. messages' \in Seq(Nat) /\ Len(messages') = Len(messages) - 1
    BY <2>2, TakesFacts
  <2>. QED BY <1>3, <2>3
<1>5. ReleaseCapacity(f, "took", 0 - Len(messages')) /\ Len(messages') = 0
  BY <1>4 DEF TakeRendezvous
<1>6. ASSUME \A g \in Fibers : place[g] \in {"idle", "offerWaits", "defect"} /\ g # f => place'[g] = place[g],
             \A g \in Fibers : place[g] = "takeWaits" => place'[g] \in {"takeWaits", "idle"},
             place'[f] = "took"
      PROVE  Waits' /\ Resting({f})'
  <2>1. \A g \in Fibers : place[g] = "offerWaits" => place'[g] = "offerWaits"
    BY <1>0, <1>6
  <2>. QED BY <1>0, <1>3, <1>6, <2>1, WaitsKept DEF Resting
<1>7. Room' <=> (tag' = "Done" => takers' = <<>> /\ offers = {})
  BY <1>0, <1>3, <1>4 DEF Room
<1>8. CASE offers # {} /\ Calls(f, "took", ReleaseLoop(0 - Len(messages'))) /\ UNCHANGED <<tag, takers>>
  <2>1. PICK l \in OfferLoops : l = ReleaseLoop(0) /\ l.n = 0 /\ l.entry = 0
    BY FrameFacts
  <2>2. place' = [place EXCEPT ![f] = "took"] /\ stack' = Under(<<>>, f, l)
    BY <1>3, <1>5, <1>8, <2>1 DEF Calls, Under
  <2>3. \A g \in Fibers : place'[g] = IF g = f THEN "took" ELSE place[g]
    BY <1>0, <2>2
  <2>4. Waits' /\ Resting({f})'
    BY <1>0, <1>6, <2>3
  <2>5. Below(<<>>, FALSE)'
    BY <1>0, <1>3, <1>8 DEF Below
  <2>6. Letting(<<>>, f, l)'
    BY <1>0, <1>1, <1>3, <1>4, <1>5, <1>8, <2>1, <2>3 DEF Letting, Room
  <2>7. Releasing(<<>>, f, l)'
    BY <1>0, <2>2, <2>4, <2>5, <2>6 DEF Releasing
  <2>8. Room'
    BY <1>3, <1>7, <1>8
  <2>9. Turn'
    BY <1>0, <1>1, <2>7, StaysReleasing
  <2>. QED BY <2>4, <2>8, <2>9
<1>9. ASSUME stack' = On(f), offers = {}, Waits', Resting({f})', place'[f] = "took",
             takers' # <<>> => takers # <<>>, tag' = "Done" => takers' = <<>>
      PROVE  Turn' /\ Room' /\ Waits'
  <2>1. Below(<<>>, FALSE)'
    BY <1>0, <1>3, <1>4, <1>9 DEF Below
  <2>2. Running(stack, <<>>, f)'
    BY <1>0, <1>1, <1>3, <1>4, <1>9, <2>1 DEF Running, Consuming
  <2>3. Room'
    BY <1>3, <1>7, <1>9
  <2>. QED BY <1>0, <1>9, <2>2, <2>3, StaysRunning
<1>10. CASE /\ offers = {} /\ tag = "Closing" /\ messages' = <<>>
            /\ Finalize([place EXCEPT ![f] = "took"]) /\ stack' = On(f)
  <2>1. /\ tag' = "Done" /\ takers' = <<>>
        /\ \A g \in Fibers : place'[g] = IF place[g] = "takeWaits" THEN "idle"
                                         ELSE IF g = f THEN "took" ELSE place[g]
    <3>1. [place EXCEPT ![f] = "took"] \in [Fibers -> HandoverPlaces]
      BY <1>0
    <3>. QED BY <1>0, <1>10, <3>1, FinalizeTyped
  <2>2. Waits' /\ Resting({f})' /\ place'[f] = "took"
    BY <1>0, <1>6, <2>1
  <2>. QED BY <1>9, <1>10, <2>1, <2>2
<1>11. CASE offers = {} /\ Continues(f, "took") /\ UNCHANGED <<tag, takers>>
  <2>1. place' = [place EXCEPT ![f] = "took"] /\ stack' = On(f) /\ takers' = takers /\ tag' = tag
    BY <1>11 DEF Continues
  <2>2. \A g \in Fibers : place'[g] = IF g = f THEN "took" ELSE place[g]
    BY <1>0, <2>1
  <2>3. Waits' /\ Resting({f})' /\ place'[f] = "took"
    BY <1>0, <1>6, <2>2
  <2>4. (takers' # <<>> => takers # <<>>) /\ tag' # "Done"
    BY <1>3, <2>1
  <2>. QED BY <1>9, <1>11, <2>1, <2>3, <2>4
<1>. QED BY <1>5, <1>8, <1>10, <1>11 DEF ReleaseCapacity

\* Where a loop on top of the stack is.
LEMMA TopLoop ==
    ASSUME QueueTyped, Turn, stack # <<>>, Last(stack).is # "fiber"
    PROVE  /\ Last(stack).is = "offers" =>
                \E b \in Seq(Frames), c \in Consumers, l \in OfferLoops : Releasing(b, c, l)
           /\ Last(stack).is = "takers" => \E b \in Seq(Frames), x \in BOOLEAN : Between(b, x) /\ b # <<>>
<1>1. PICK b \in Seq(Frames) :
        \/ \E x \in BOOLEAN : Between(b, x)
        \/ \E g \in Fibers : Running(stack, b, g)
        \/ \E c \in Consumers, l \in OfferLoops : Releasing(b, c, l)
        \/ \E c \in Consumers, l \in OfferLoops, p \in Producers : Resumed(stack, b, c, l, p)
  BY DEF Turn
<1>2. ASSUME NEW x \in BOOLEAN, Between(b, x)
      PROVE  Last(stack).is = "takers" /\ b # <<>>
  <2>1. b # <<>> /\ stack = b
    BY <1>2 DEF Between
  <2>2. Last(stack) = Loop(x)
    BY <1>2, <2>1, BelowFacts DEF Between
  <2>. QED BY <2>1, <2>2, FrameFacts
<1>3. ASSUME NEW g \in Fibers, Running(stack, b, g)
      PROVE  FALSE
  <2>1. Last(stack) = Fiber(g)
    BY <1>3, RunningTop
  <2>. QED BY <2>1, FrameFacts
<1>4. ASSUME NEW c \in Consumers, NEW l \in OfferLoops, Releasing(b, c, l)
      PROVE  Last(stack).is = "offers"
  <2>1. Last(stack) = l
    BY <1>4, ReleasingTop
  <2>. QED BY <2>1, FrameFacts
<1>5. ASSUME NEW c \in Consumers, NEW l \in OfferLoops, NEW p \in Producers, Resumed(stack, b, c, l, p)
      PROVE  FALSE
  <2>1. Last(stack) = Fiber(p)
    BY <1>5, ResumedTop
  <2>. QED BY <2>1, FrameFacts DEF Fibers
<1>6. CASE Last(stack).is = "offers"
  BY <1>1, <1>2, <1>3, <1>4, <1>5, <1>6
<1>7. CASE Last(stack).is = "takers"
  BY <1>1, <1>2, <1>3, <1>4, <1>5, <1>7
<1>. QED BY <1>6, <1>7

LEMMA ReleaseOfferTame ==
    ASSUME QueueAssumption, Tame, QueueTyped, Turn, Room, Waits, ReleaseOffer
    PROVE  /\ Turn' /\ Room' /\ Waits'
           /\ LetIn = {Last(stack).entry} /\ LetInOf(Front(stack)) = {}
           /\ Distinct /\ (tag = "Done" => offers = {})
<1>0. /\ place \in [Fibers -> HandoverPlaces] /\ messages \in Seq(Nat) /\ Len(messages) \in Nat
      /\ UNCHANGED <<takers, tag, capacity, scheduleRunning, releases, last>>
      /\ last \in Nat /\ waiting \in [Fibers -> Nat] /\ capacity \in Nat /\ Capacity \in Nat /\ releases \in Nat
      /\ offers \subseteq Nat \ {0} /\ stack # <<>> /\ Last(stack).is = "offers"
  BY DEF ReleaseOffer, scheduleVars, history, QueueTyped, QueueAssumption
<1>1. Distinct /\ (tag = "Done" => offers = {})
  BY DEF Waits, Distinct, Room
<1>2. PICK b \in Seq(Frames), c \in Consumers, l \in OfferLoops : Releasing(b, c, l)
  BY <1>0, TopLoop
<1>3. /\ Last(stack) = l /\ Front(stack) = Append(b, Fiber(c)) /\ stack[Len(stack) - 1].of = c
      /\ LetIn = {l.entry} /\ LetInOf(Front(stack)) = {}
  BY <1>2, ReleasingTop
<1>4. Below(b, FALSE) /\ Resting({c}) /\ Letting(b, c, l) /\ c \in Fibers /\ c \notin Producers
  BY <1>2 DEF Releasing, Fibers
<1>5. l.n \in Int /\ l.entry \in Nat
  BY FrameFacts
<1>6. CASE /\ tag = "Done" /\ l.entry # 0
           /\ place' = [place EXCEPT ![c] = "defect"]
           /\ stack' = Front(stack) /\ UNCHANGED <<messages, offers, waiting>>
  <2>1. \A g \in Fibers : place'[g] = IF g = c THEN "defect" ELSE place[g]
    BY <1>0, <1>4, <1>6
  <2>2. messages = <<>> /\ offers = {} /\ takers = <<>>
    BY <1>6 DEF Room
  <2>3. Waits'
    <3>1. \A g \in Fibers : place[g] = "offerWaits" => place'[g] = "offerWaits"
      BY <1>4, <2>1 DEF Letting
    <3>. QED BY <1>0, <1>6, <3>1, WaitsKept
  <2>4. Room'
    BY <1>0, <1>6 DEF Room
  <2>5. Resting({c})' /\ Consuming(c, b)'
    BY <1>4, <2>1 DEF Resting, Consuming
  <2>6. Below(b, FALSE)'
    <3>1. \A q \in Producers : place'[q] = place[q]
      BY <1>4, <2>1 DEF Fibers
    <3>. QED BY <1>0, <1>4, <1>6, <2>2, <3>1 DEF Below
  <2>7. Running(stack, b, c)'
    BY <1>0, <1>3, <1>4, <1>6, <2>2, <2>5, <2>6 DEF Running
  <2>8. Turn'
    BY <1>4, <2>7, StaysRunning
  <2>. QED BY <1>1, <1>3, <2>3, <2>4, <2>8
<1>7. CASE /\ tag # "Done" \/ l.entry = 0
           /\ offers \ {l.entry} = {} \/ l.n = 0
           /\ offers' = offers \ {l.entry} /\ stack' = Front(stack) /\ UNCHANGED <<messages, waiting, place>>
  <2>1. tag # "Done"
    BY <1>4, <1>7 DEF Letting
  <2>2. offers' # {} => l.n = 0
    BY <1>7
  <2>3. l.entry = 0 => l.n = 0 /\ Len(messages) = capacity
    <3>1. ASSUME l.entry = 0
          PROVE  l.n = 0 /\ Len(messages) = capacity
      <4>1. offers # {} /\ l.n = capacity - Len(messages)
        BY <1>4, <3>1 DEF Letting
      <4>2. offers \ {l.entry} # {}
        BY <1>0, <3>1, <4>1
      <4>. QED BY <1>0, <1>7, <4>1, <4>2
    <3>. QED BY <3>1
  <2>4. l.entry # 0 => Len(messages) >= capacity
    BY <1>4, <2>1 DEF Letting
  <2>5. Len(messages) >= capacity
    BY <1>0, <2>3, <2>4
  <2>6. Waits' /\ Room'
    BY <1>0, <1>7, <2>1, WaitsKept DEF Room
  <2>7. Resting({c})' /\ Below(b, FALSE)'
    BY <1>0, <1>4, <1>7 DEF Resting, Below
  <2>8. Consuming(c, b)'
    <3>1. CASE place[c] = "took"
      BY <1>2, <1>7, <3>1 DEF Consuming
    <3>2. CASE place[c] = "rendezvous"
      <4>1. Capacity = 0 /\ capacity = 1 /\ Len(messages) <= 1 /\ b = <<>>
        BY <1>4, <3>2 DEF Letting
      <4>2. Len(messages) = 1
        <5>1. Len(messages) >= 1 /\ Len(messages) <= 1 /\ Len(messages) \in Nat
          BY <1>0, <2>5, <4>1
        <5>2. \A n \in Nat : n >= 1 /\ n <= 1 => n = 1
          OBVIOUS
        <5>. QED BY <5>1, <5>2, Zenon
      <4>. QED BY <1>0, <1>2, <1>7, <2>1, <3>2, <4>1, <4>2 DEF Consuming
    <3>. QED BY <1>4, <3>1, <3>2 DEF Letting
  <2>9. /\ capacity = Capacity \/ place[c] = "rendezvous"
        /\ Capacity = 0 /\ messages # <<>> => place[c] = "rendezvous" /\ Len(messages) = 1
    <3>1. CASE place[c] = "took"
      BY <1>4, <3>1 DEF Letting
    <3>2. CASE place[c] = "rendezvous"
      <4>1. Len(messages) <= 1
        BY <1>4, <3>2 DEF Letting
      <4>2. Len(messages) \in Nat /\ (messages # <<>> => Len(messages) # 0)
        BY <1>0
      <4>3. messages # <<>> => Len(messages) = 1
        <5>1. \A n \in Nat : n # 0 /\ n <= 1 => n = 1
          OBVIOUS
        <5>. QED BY <4>1, <4>2, <5>1, Zenon
      <4>4. capacity = Capacity \/ place[c] = "rendezvous"
        BY <3>2
      <4>. QED BY <3>2, <4>3, <4>4
    <3>. QED BY <1>4, <3>1, <3>2 DEF Letting
  <2>10. Running(stack, b, c)'
    BY <1>0, <1>3, <1>4, <1>7, <2>5, <2>7, <2>8, <2>9 DEF Running
  <2>11. Turn'
    BY <1>4, <2>10, StaysRunning
  <2>. QED BY <1>1, <1>3, <2>6, <2>11
<1>8. ASSUME NEW e \in offers \ {l.entry}, LetsIn(l, e)
      PROVE  Turn' /\ Room' /\ Waits'
  <2>1. PICK m \in OfferLoops : m = [l EXCEPT !.n = @ - 1, !.entry = e] /\ m.n = l.n - 1 /\ m.entry = e
    BY <1>8 DEF LetsIn
  <2> DEFINE woken == {f \in Fibers : waiting[f] = e}
  <2>2. /\ tag # "Done" /\ l.n # 0 /\ offers' = offers \ {l.entry} /\ messages' = Append(messages, e)
        /\ place' = [f \in Fibers |-> IF f \in woken THEN "idle" ELSE place[f]]
        /\ waiting' = [f \in Fibers |-> IF f \in woken THEN 0 ELSE waiting[f]]
        /\ \/ woken = {} /\ stack' = Append(Front(stack), m)
           \/ \E p \in Fibers : woken = {p} /\ stack' = Append(Append(Front(stack), m), Fiber(p))
    BY <1>8, <2>1 DEF LetsIn
  <2>3. /\ e # 0 /\ e \in Nat /\ e <= last
        /\ l.n = 1 /\ l.entry = 0 /\ m.n = 0 /\ offers' = offers /\ offers # {}
    <3>1. l.n = 1 /\ l.entry = 0
      BY <1>4, <1>5, <2>2 DEF Letting
    <3>. QED BY <1>0, <1>8, <2>1, <2>2, <3>1 DEF Room
  <2>4. Len(messages') = Len(messages) + 1 /\ Len(messages') = capacity /\ messages' # <<>>
    <3>1. Len(messages') = Len(messages) + 1
      BY <1>0, <2>2, <2>3, Appended
    <3>. QED BY <1>0, <1>4, <2>2, <2>3, <3>1 DEF Letting
  <2>5. \A f \in woken : f \in Producers /\ f # c
    BY <1>4, <2>3 DEF Waits
  <2>6. /\ \A g \in Fibers : place'[g] = IF g \in woken THEN "idle" ELSE place[g]
        /\ \A g \in Fibers : waiting'[g] = IF g \in woken THEN 0 ELSE waiting[g]
        /\ place'[c] = place[c]
    BY <1>4, <2>2, <2>5
  <2>7. Waits'
    BY <1>0, <2>6 DEF Waits
  <2>8. Room'
    BY <1>0, <2>2, <2>3, <2>4 DEF Room
  <2>9. Below(b, FALSE)'
    BY <1>0, <1>4, <2>2, <2>3 DEF Below, Letting
  <2>10. Letting(b, c, m)'
    BY <1>0, <1>4, <2>1, <2>2, <2>3, <2>4, <2>6 DEF Letting
  <2> HIDE DEF woken
  <2>11. CASE woken = {} /\ stack' = Append(Front(stack), m)
    <3>1. stack' = Under(b, c, m)
      BY <1>3, <2>11 DEF Under
    <3>2. Resting({c})'
      BY <1>4, <2>6, <2>11 DEF Resting
    <3>3. Releasing(b, c, m)'
      BY <2>9, <2>10, <3>1, <3>2 DEF Releasing
    <3>4. Turn'
      BY <3>3, StaysReleasing
    <3>. QED BY <2>7, <2>8, <3>4
  <2>12. ASSUME NEW p \in Fibers, woken = {p}, stack' = Append(Append(Front(stack), m), Fiber(p))
         PROVE  Turn' /\ Room' /\ Waits'
    <3>1. stack' = Append(Under(b, c, m), Fiber(p))
      BY <1>3, <2>12 DEF Under
    <3>2. p \in Producers /\ place'[p] = "idle"
      BY <2>5, <2>6, <2>12
    <3>3. Resting({c, p})' /\ Producing(p)'
      BY <1>4, <2>6, <2>12, <3>2 DEF Resting, Producing
    <3>4. Resumed(stack, b, c, m, p)'
      BY <2>1, <2>3, <2>9, <2>10, <3>1, <3>3 DEF Resumed
    <3>5. Turn'
      BY <3>2, <3>4, StaysResumed
    <3>. QED BY <2>7, <2>8, <3>5
  <2>. QED BY <2>2, <2>11, <2>12
<1>9. \/ /\ tag = "Done" /\ l.entry # 0
         /\ place' = [place EXCEPT ![c] = "defect"]
         /\ stack' = Front(stack) /\ UNCHANGED <<messages, offers, waiting>>
      \/ /\ tag # "Done" \/ l.entry = 0
         /\ offers \ {l.entry} = {} \/ l.n = 0
         /\ offers' = offers \ {l.entry} /\ stack' = Front(stack) /\ UNCHANGED <<messages, waiting, place>>
      \/ \E e \in offers \ {l.entry} : LetsIn(l, e)
  BY <1>1, <1>3, ReleaseOfferCases
<1>. QED BY <1>1, <1>3, <1>6, <1>7, <1>8, <1>9

LEMMA StartTame ==
    ASSUME QueueAssumption, Tame, QueueTyped, Turn, Room, Waits, StartRelease
    PROVE  Turn' /\ Room' /\ Waits'
<1>0. /\ stack = <<>> /\ releases > 0 /\ releases' = releases - 1 /\ scheduleRunning' = FALSE
      /\ stack' = <<TakersLoop>> /\ releases \in Nat /\ Capacity \in Nat
      /\ UNCHANGED <<messages, offers, waiting, takers, tag, capacity, place, last>>
      /\ last \in Nat /\ waiting \in [Fibers -> Nat]
  BY DEF StartRelease, history, QueueTyped, QueueAssumption
<1>1. PICK x \in BOOLEAN : Between(<<>>, x)
  BY <1>0, EmptyStack
<1>2. Capacity > 0
  BY <1>0 DEF Room
<1>3. PICK b \in Seq(Frames) : b = Append(<<>>, Loop(TRUE)) /\ b # <<>>
  <2>1. Loop(TRUE) \in Frames
    BY FrameFacts
  <2>2. <<>> \in Seq(Frames)
    OBVIOUS
  <2>. QED BY <2>1, <2>2, OnTop
<1>4. Below(b, TRUE)'
  BY <1>0, <1>2, <1>3 DEF Below
<1>5. Resting({})'
  BY <1>0, <1>1 DEF Between, Resting
<1>6. Between(b, TRUE)'
  <2>1. \A y \in Frames : <<y>> = Append(<<>>, y)
    OBVIOUS
  <2>2. stack' = b
    BY <1>0, <1>3, <2>1, FrameFacts
  <2>3. /\ capacity' = Capacity \/ tag' = "Done"
        /\ offers' # {} => Len(messages') >= capacity'
        /\ Capacity # 0
    BY <1>0, <1>1, <1>2 DEF Between
  <2>. QED BY <1>3, <1>4, <1>5, <2>2, <2>3 DEF Between
<1>7. Turn'
  BY <1>6, StaysBetween
<1>8. Room' /\ Waits'
  BY <1>0, <1>2, WaitsKept DEF Room
<1>. QED BY <1>7, <1>8

LEMMA ReleaseTakerTame ==
    ASSUME QueueAssumption, Tame, QueueTyped, Turn, Room, Waits, ReleaseTaker
    PROVE  Turn' /\ Room' /\ Waits'
<1>0. /\ stack # <<>> /\ Last(stack).is = "takers"
      /\ UNCHANGED <<messages, offers, waiting, tag, capacity, scheduleRunning, releases, last>>
      /\ place \in [Fibers -> HandoverPlaces] /\ messages \in Seq(Nat) /\ Len(messages) \in Nat
      /\ last \in Nat /\ waiting \in [Fibers -> Nat] /\ Capacity \in Nat /\ <<>> \in Seq(Frames)
  BY DEF ReleaseTaker, scheduleVars, history, QueueTyped, QueueAssumption
<1>1. PICK b \in Seq(Frames), x \in BOOLEAN : Between(b, x) /\ b # <<>>
  BY <1>0, TopLoop
<1>2. /\ stack = b /\ Below(b, x) /\ Resting({}) /\ (capacity = Capacity \/ tag = "Done")
      /\ offers # {} => Len(messages) >= capacity
      /\ Capacity = 0 => IF x THEN takers # <<>> /\ Len(messages) = 1 ELSE messages = <<>>
      /\ Capacity = 0 => offers = {}
  BY <1>1 DEF Between, Below
<1>3. /\ Last(stack).first = x
      /\ \/ Capacity > 0 /\ Front(stack) = <<>>
         \/ Capacity = 0 /\ \E q \in Producers : place[q] = "idle" /\ Front(stack) = Append(<<>>, Fiber(q))
  <2>1. /\ Last(b) = Loop(x)
        /\ \/ Capacity > 0 /\ Front(b) = <<>>
           \/ Capacity = 0 /\ \E q \in Producers : place[q] = "idle" /\ Front(b) = Append(<<>>, Fiber(q))
    BY <1>1, <1>2, BelowFacts
  <2>2. Last(stack).first = x
    BY <1>2, <2>1, FrameFacts
  <2>. QED BY <1>2, <2>1, <2>2
<1>4. CASE takers = <<>> \/ (messages = <<>> /\ ~x)
  <2>1. stack' = Front(stack) /\ UNCHANGED <<takers, place>>
    BY <1>3, <1>4 DEF ReleaseTaker
  <2>2. Room' /\ Waits'
    BY <1>0, <2>1, WaitsKept DEF Room
  <2>3. CASE Capacity > 0
    <3>1. stack' = <<>>
      BY <1>3, <2>1, <2>3
    <3>2. takers # <<>> /\ (messages # <<>> \/ offers # {}) => FALSE
      <4>1. capacity = Capacity
        BY <2>3 DEF Room
      <4>. QED BY <1>0, <1>2, <1>4, <2>3, <4>1
    <3>3. Below(<<>>, x)'
      BY <1>0, <2>1, <2>3, <3>2 DEF Below
    <3>4. Resting({})'
      BY <1>2, <2>1 DEF Resting
    <3>5. Between(<<>>, x)'
      BY <1>0, <1>2, <2>1, <2>3, <3>1, <3>3, <3>4 DEF Between
    <3>6. Turn'
      BY <1>0, <3>5, StaysBetween
    <3>. QED BY <2>2, <3>6
  <2>4. CASE Capacity = 0
    <3>1. PICK q \in Producers : place[q] = "idle" /\ stack' = Append(<<>>, Fiber(q))
      BY <1>3, <2>1, <2>4
    <3>2. messages = <<>> /\ offers = {}
      BY <1>2, <1>4, <2>4
    <3>3. Below(<<>>, FALSE)'
      BY <1>0, <2>1, <3>2 DEF Below
    <3>4. q \in Fibers /\ q \notin Consumers
      BY DEF Fibers
    <3>5. Resting({q})' /\ Producing(q)'
      BY <1>2, <2>1, <3>1 DEF Resting, Producing
    <3>6. Running(stack, <<>>, q)'
      BY <1>0, <1>2, <2>1, <3>1, <3>2, <3>3, <3>4, <3>5 DEF Running
    <3>7. Turn'
      BY <1>0, <3>4, <3>6, StaysRunning
    <3>. QED BY <2>2, <3>7
  <2>. QED BY <1>0, <2>3, <2>4
<1>5. CASE ~(takers = <<>> \/ (messages = <<>> /\ ~x))
  <2>1. PICK h \in Consumers : h = Head(takers)
    <3>1. takers \in Seq(Consumers) /\ takers # <<>>
      BY <1>5 DEF QueueTyped
    <3>. QED BY <3>1
  <2>2. PICK a : a = Append(Front(stack), Loop(FALSE))
    OBVIOUS
  <2>3. /\ takers # <<>> /\ place' = [place EXCEPT ![h] = "woken"]
        /\ stack' = Append(a, Fiber(h)) /\ Front(stack) \in Seq(Frames)
    BY <1>3, <1>5, <2>1, <2>2, ReleaseTakerTyped
  <2>4. a \in Seq(Frames) /\ a # <<>>
    <3>1. Loop(FALSE) \in Frames
      BY FrameFacts
    <3>. QED BY <2>2, <2>3, <3>1, OnTop
  <2>5. h \in Fibers /\ h \notin Producers
    BY DEF Fibers
  <2>6. \A g \in Fibers : place'[g] = IF g = h THEN "woken" ELSE place[g]
    BY <1>0, <2>3, <2>5
  <2>7. Below(a, FALSE)'
    <3>1. CASE Capacity > 0
      <4>1. a = Append(<<>>, Loop(FALSE))
        <5>1. Front(stack) = <<>>
          BY <1>3, <3>1
        <5>. QED BY <2>2, <5>1
      <4>. QED BY <2>4, <3>1, <4>1 DEF Below
    <3>2. CASE Capacity = 0
      <4>1. PICK q \in Producers : place[q] = "idle" /\ Front(stack) = Append(<<>>, Fiber(q))
        BY <1>3, <3>2
      <4>2. place'[q] = "idle"
        BY <2>5, <2>6, <4>1 DEF Fibers
      <4>3. a = Append(Append(<<>>, Fiber(q)), Loop(FALSE))
        BY <2>2, <4>1
      <4>. QED BY <1>0, <1>2, <2>4, <3>2, <4>2, <4>3 DEF Below
    <3>. QED BY <1>3, <3>1, <3>2
  <2>8. Resting({h})' /\ Consuming(h, a)'
    BY <1>2, <2>4, <2>5, <2>6 DEF Resting, Consuming
  <2>9. Running(stack, a, h)'
    BY <1>0, <1>2, <2>3, <2>4, <2>5, <2>6, <2>7, <2>8 DEF Running
  <2>10. Turn'
    BY <2>4, <2>5, <2>9, StaysRunning
  <2>11. Waits'
    BY <1>0, <2>5, <2>6 DEF Waits
  <2>12. Room'
    BY <1>0, <1>5 DEF Room
  <2>. QED BY <2>10, <2>11, <2>12
<1>. QED BY <1>4, <1>5

LEMMA InterruptTame ==
    ASSUME QueueAssumption, Tame, QueueTyped, Turn, Room, Waits, NEW f \in Fibers, InterruptFiber(f)
    PROVE  Turn' /\ Room' /\ Waits'
<1>0. /\ stack = <<>> /\ UNCHANGED <<messages, tag, capacity, scheduleRunning, releases, stack, last>>
      /\ place \in [Fibers -> HandoverPlaces] /\ last \in Nat /\ waiting \in [Fibers -> Nat]
      /\ place' = [place EXCEPT ![f] = "idle"] /\ waiting' = [waiting EXCEPT ![f] = 0]
      /\ offers' \subseteq offers /\ <<>> \in Seq(Frames)
  BY DEF InterruptFiber, scheduleVars, QueueTyped
<1>1. takers' # <<>> => takers # <<>>
  BY InterruptTyped
<1>2. PICK x \in BOOLEAN : Between(<<>>, x)
  BY <1>0, EmptyStack
<1>3. \A g \in Fibers : /\ place'[g] = IF g = f THEN "idle" ELSE place[g]
                        /\ waiting'[g] = IF g = f THEN 0 ELSE waiting[g]
  BY <1>0
<1>4. Waits'
  BY <1>0, <1>3 DEF Waits
<1>5. Room'
  BY <1>0, <1>1 DEF Room
<1>6. Resting({})' /\ Below(<<>>, x)'
  BY <1>0, <1>1, <1>2, <1>3 DEF Between, Resting, Below
<1>7. Between(<<>>, x)'
  BY <1>0, <1>2, <1>6 DEF Between
<1>8. Turn'
  BY <1>0, <1>7, StaysBetween
<1>. QED BY <1>4, <1>5, <1>8

LEMMA EndTame ==
    ASSUME QueueAssumption, Tame, QueueTyped, Turn, Room, Waits, NEW f \in Fibers, End(f)
    PROVE  Turn' /\ Room' /\ Waits'
<1>0. /\ f \in Producers /\ f \notin Consumers /\ Runs(f) /\ place[f] = "idle" /\ tag = "Open" /\ stack' = On(f)
      /\ UNCHANGED <<messages, offers, waiting, capacity, scheduleRunning, releases, last>>
      /\ place \in [Fibers -> HandoverPlaces] /\ last \in Nat /\ waiting \in [Fibers -> Nat] /\ tag' # "Open"
      /\ <<>> \in Seq(Frames)
  BY DEF End, Finalize, scheduleVars, history, QueueTyped
<1>1. /\ takers' # <<>> => takers # <<>>
      /\ tag' = "Done" => messages = <<>> /\ offers = {} /\ takers' = <<>>
      /\ \A g \in Fibers : place'[g] = place[g] \/ (place[g] = "takeWaits" /\ place'[g] = "idle")
  <2>1. CASE offers = {} /\ messages = <<>> /\ Finalize(place)
    BY <1>0, <2>1, FinalizeTyped
  <2>2. CASE tag' = "Closing" /\ UNCHANGED <<takers, place>>
    BY <2>2
  <2>. QED BY <2>1, <2>2 DEF End
<1>2. Room' /\ Waits'
  <2>1. \A g \in Fibers : place[g] = "offerWaits" => place'[g] = "offerWaits"
    BY <1>1
  <2>. QED BY <1>0, <1>1, <2>1, WaitsKept DEF Room
<1>3. CASE Running(On(f), <<>>, f)
  <2>1. Below(<<>>, FALSE)'
    BY <1>0, <1>1, <1>3 DEF Running, Below
  <2>2. Resting({f})' /\ Producing(f)'
    BY <1>0, <1>1, <1>3 DEF Running, Resting, Producing
  <2>3. Running(stack, <<>>, f)'
    BY <1>0, <1>1, <1>3, <2>1, <2>2 DEF Running
  <2>4. Turn'
    BY <1>0, <2>3, StaysRunning
  <2>. QED BY <1>2, <2>4
<1>4. ASSUME NEW b \in Seq(Frames), NEW c \in Consumers, NEW l \in OfferLoops, Resumed(On(f), b, c, l, f)
      PROVE  Turn'
  <2>1. c \in Fibers /\ l.entry # 0 /\ Letting(b, c, l) /\ (Capacity = 0 => b = <<>>) /\ Below(b, FALSE)
    BY <1>4 DEF Fibers, Resumed, Letting
  <2>2. Below(b, FALSE)'
    BY <1>0, <1>1, <2>1 DEF Below
  <2>3. Resting({c, f})' /\ Producing(f)'
    BY <1>0, <1>1, <1>4 DEF Resumed, Resting, Producing
  <2>4. place'[c] = place[c]
    BY <1>1, <2>1 DEF Letting
  <2>5. Letting(b, c, l)'
    BY <1>0, <2>1, <2>4 DEF Letting
  <2>6. Resumed(stack, b, c, l, f)'
    BY <1>0, <1>4, <2>1, <2>2, <2>3, <2>5 DEF Resumed
  <2>. QED BY <1>0, <1>4, <2>6, StaysResumed
<1>. QED BY <1>0, <1>2, <1>3, <1>4, ProducerRuns

LEMMA ShutdownTame ==
    ASSUME QueueAssumption, Tame, QueueTyped, Turn, Room, Waits, NEW f \in Fibers, Shutdown(f)
    PROVE  Turn' /\ Room' /\ Waits'
<1>0. /\ Runs(f) /\ place[f] = "idle" /\ stack' = On(f) /\ messages' = <<>> /\ offers' = {} /\ takers' = <<>>
      /\ tag' = "Done" /\ waiting' = [g \in Fibers |-> 0]
      /\ UNCHANGED <<capacity, scheduleRunning, releases, last>>
      /\ place \in [Fibers -> HandoverPlaces] /\ Capacity \in Nat /\ capacity \in Nat
  BY DEF Shutdown, Finalize, scheduleVars, history, QueueTyped, QueueAssumption
<1>1. \A g \in Fibers : place'[g] = IF place[g] \in {"takeWaits", "offerWaits"} THEN "idle" ELSE place[g]
  BY ShutdownTyped
<1>2. Waits'
  BY <1>0 DEF Waits
<1>3. Room'
  <2>1. Len(messages') = 0
    BY <1>0
  <2>. QED BY <1>0, <2>1 DEF Room
<1>4. ASSUME NEW b \in Seq(Frames), Below(b, FALSE)
      PROVE  Below(b, FALSE)'
  <2>1. \A q \in Producers : place[q] = "idle" => place'[q] = "idle"
    BY <1>1 DEF Fibers
  <2>. QED BY <1>0, <1>4, <2>1 DEF Below
<1>5. ASSUME NEW b \in Seq(Frames), Running(On(f), b, f)
      PROVE  Turn'
  <2>1. Below(b, FALSE)'
    BY <1>4, <1>5 DEF Running
  <2>2. Resting({f})' /\ place'[f] = "idle"
    BY <1>0, <1>1, <1>5 DEF Running, Resting
  <2>3. (f \in Producers => b = <<>> /\ Producing(f)') /\ (f \in Consumers => Consuming(f, b)')
    BY <1>5, <2>2 DEF Running, Producing, Consuming
  <2>4. Running(stack, b, f)'
    BY <1>0, <1>5, <2>1, <2>2, <2>3 DEF Running
  <2>. QED BY <1>5, <2>4, StaysRunning
<1>6. ASSUME f \in Producers, NEW b \in Seq(Frames), NEW c \in Consumers, NEW l \in OfferLoops,
             Resumed(On(f), b, c, l, f)
      PROVE  Turn'
  <2>1. c \in Fibers /\ l.entry # 0 /\ Letting(b, c, l) /\ Below(b, FALSE)
    BY <1>6 DEF Fibers, Resumed
  <2>2. Below(b, FALSE)'
    BY <1>4, <1>6, <2>1
  <2>3. Resting({c, f})' /\ place'[f] = "idle"
    BY <1>0, <1>1, <1>6 DEF Resumed, Resting
  <2>4. Producing(f)'
    BY <1>6, <2>3 DEF Producing
  <2>5. place'[c] = place[c] /\ Len(messages') = 0
    BY <1>0, <1>1, <2>1 DEF Letting
  <2>6. Letting(b, c, l)'
    BY <1>0, <2>1, <2>5 DEF Letting
  <2>7. Resumed(stack, b, c, l, f)'
    BY <1>0, <1>6, <2>1, <2>2, <2>3, <2>4, <2>6 DEF Resumed
  <2>. QED BY <1>6, <2>7, StaysResumed
<1>7. place[f] \notin {"offerWaits", "takeWaits", "defect"}
  BY <1>0
<1>8. Turn'
  BY <1>0, <1>5, <1>6, <1>7, RunsWhere
<1>. QED BY <1>2, <1>3, <1>8

LEMMA TameStep ==
    ASSUME QueueAssumption, Tame, QueueTyped, Turn, Room, Waits, QueueNext
    PROVE  QueueTyped' /\ Turn' /\ Room' /\ Waits' /\ (Line => LineStep)
<1>1. ASSUME NEW f \in Fibers, Offer(f)
      PROVE  QueueTyped' /\ Turn' /\ Room' /\ Waits' /\ (Line => LineStep)
  <2>1. f \in Producers
    BY <1>1 DEF Offer
  <2>2. Strategy = "sliding" => capacity > 0
    BY DEF QueueAssumption, Room
  <2>3. Turn' /\ Room' /\ Waits' /\ (last' # last => offers = {})
    BY <1>1, <2>1, OfferTame
  <2>4. QueueTyped' /\ (Line /\ (last' # last => offers = {}) => LineStep)
    BY <1>1, <2>2, OfferTyped
  <2>. QED BY <2>3, <2>4
<1>2. ASSUME NEW f \in Fibers, RegisterOffer(f)
      PROVE  QueueTyped' /\ Turn' /\ Room' /\ Waits' /\ (Line => LineStep)
  <2>1. Turn' /\ Room' /\ Waits' /\ last + 1 \notin LetIn
    BY <1>2, RegisterTame
  <2>2. QueueTyped' /\ (Line /\ last + 1 \notin LetIn => LineStep)
    BY <1>2, RegisterTyped
  <2>. QED BY <2>1, <2>2
<1>3. ASSUME NEW f \in Fibers, Take(f) \/ TakeAgain(f)
      PROVE  QueueTyped' /\ Turn' /\ Room' /\ Waits' /\ (Line => LineStep)
  BY <1>3, TakeTame, TakeTyped
<1>4. ASSUME NEW f \in Fibers, TakeRendezvous(f)
      PROVE  QueueTyped' /\ Turn' /\ Room' /\ Waits' /\ (Line => LineStep)
  BY <1>4, RendezvousTame, RendezvousTyped
<1>5. ASSUME NEW f \in Fibers, AwaitTake(f) \/ Receive(f)
      PROVE  QueueTyped' /\ Turn' /\ Room' /\ Waits' /\ (Line => LineStep)
  BY <1>5, AwaitTame, RestTyped
<1>6. ASSUME NEW f \in Fibers, Suspend(f)
      PROVE  QueueTyped' /\ Turn' /\ Room' /\ Waits' /\ (Line => LineStep)
  <2>1. place[f] # "awaitTake"
    BY <1>6 DEF Suspend
  <2>. QED BY <1>6, <2>1, SuspendTame, RestTyped
<1>7. ASSUME NEW f \in Fibers, InterruptFiber(f)
      PROVE  QueueTyped' /\ Turn' /\ Room' /\ Waits' /\ (Line => LineStep)
  BY <1>7, InterruptTame, InterruptTyped
<1>8. ASSUME NEW f \in Fibers, End(f)
      PROVE  QueueTyped' /\ Turn' /\ Room' /\ Waits' /\ (Line => LineStep)
  BY <1>8, EndTame, EndTyped
<1>9. ASSUME NEW f \in Fibers, Shutdown(f)
      PROVE  QueueTyped' /\ Turn' /\ Room' /\ Waits' /\ (Line => LineStep)
  BY <1>9, ShutdownTame, ShutdownTyped
<1>10. CASE ReleaseOffer
  BY <1>10, ReleaseOfferTame, ReleaseOfferTyped
<1>11. CASE StartRelease
  BY <1>11, StartTame, StartTyped
<1>12. CASE ReleaseTaker
  BY <1>12, ReleaseTakerTame, ReleaseTakerTyped
<1>. QED BY <1>1, <1>2, <1>3, <1>4, <1>5, <1>6, <1>7, <1>8, <1>9, <1>10, <1>11, <1>12
         DEF QueueNext, FiberStep, Loops

--------------------------------------------------------------------------
(* The queue.                                                              *)

QueueInv == Tame \/ Strategy # "suspend" =>
  /\ QueueTyped /\ Line
  /\ Tame => Turn /\ Room /\ Waits
  /\ Strategy # "suspend" => Plain

LEMMA QueueStarts ==
    ASSUME QueueAssumption, QueueInit
    PROVE  QueueInv
<1>0. /\ messages = <<>> /\ offers = {} /\ waiting = [f \in Fibers |-> 0] /\ takers = <<>>
      /\ tag = "Open" /\ capacity = Capacity /\ scheduleRunning = FALSE /\ releases = 0
      /\ place = [f \in Fibers |-> "idle"] /\ stack = <<>> /\ last = 0 /\ taken = <<>>
      /\ Capacity \in Nat
  BY DEF QueueInit, QueueAssumption
<1>1. QueueTyped
  <2>1. messages \in Seq(Nat) /\ taken \in Seq(Nat) /\ takers \in Seq(Consumers) /\ stack \in Seq(Frames)
    BY <1>0
  <2>2. waiting \in [Fibers -> Nat] /\ place \in [Fibers -> HandoverPlaces]
    BY <1>0 DEF HandoverPlaces
  <2>. QED BY <1>0, <2>1, <2>2 DEF QueueTyped
<1>2. Line
  <2>1. LetIn = {} /\ ToSet(messages) = {}
    BY <1>0 DEF LetIn, ToSet
  <2>. QED BY <1>0, <2>1 DEF Line, Increasing, Precedes, Outside
<1>3. Turn /\ Room /\ Waits
  <2>1. <<>> \in Seq(Frames) /\ Len(<<>>) = 0
    OBVIOUS
  <2>2. Between(<<>>, FALSE)
    BY <1>0, <2>1 DEF Between, Below, Resting
  <2>3. Room /\ Waits
    BY <1>0, <2>1 DEF Room, Waits
  <2>. QED BY <2>1, <2>2, <2>3 DEF Turn
<1>4. Plain
  BY <1>0 DEF Plain
<1>. QED BY <1>1, <1>2, <1>3, <1>4 DEF QueueInv

LEMMA QueueSteps ==
    ASSUME QueueAssumption, QueueInv, [QueueNext]_queueVars
    PROVE  /\ QueueInv'
           /\ Tame \/ Strategy # "suspend" => [Promised!Next]_(Promised!vars)
<1>1. CASE ~(Tame \/ Strategy # "suspend")
  BY <1>1 DEF QueueInv
<1>2. CASE Tame /\ QueueNext
  <2>1. QueueTyped' /\ Turn' /\ Room' /\ Waits' /\ LineStep
    BY <1>2, TameStep DEF QueueInv
  <2>2. Strategy # "suspend" => Plain'
    BY <1>2, PlainStep DEF QueueInv
  <2>. QED BY <1>2, <2>1, <2>2 DEF QueueInv
<1>3. CASE ~Tame /\ Strategy # "suspend" /\ QueueNext
  <2>1. QueueTyped' /\ Plain' /\ LineStep
    BY <1>3, PlainStep DEF QueueInv
  <2>. QED BY <1>3, <2>1 DEF QueueInv
<1>4. CASE (Tame \/ Strategy # "suspend") /\ UNCHANGED queueVars
  <2>1. UNCHANGED <<messages, offers, waiting, takers, tag, capacity, scheduleRunning, releases,
                    place, stack, last, taken>>
    BY <1>4 DEF queueVars, scheduleVars, fiberVars, history
  <2>2. QueueTyped' /\ LetIn' = LetIn
    BY <1>4, <2>1 DEF QueueInv, QueueTyped, LetIn
  <2>3. LineStep
    BY <1>4, <2>1, <2>2, LineKept DEF QueueInv, Outside
  <2>4. Tame => Turn' /\ Room' /\ Waits'
    <3>1. ASSUME NEW b, NEW x
          PROVE  (Below(b, x) => Below(b, x)') /\ (Between(b, x) => Between(b, x)')
      BY <2>1 DEF Below, Between, Resting
    <3>2. ASSUME NEW b, NEW f
          PROVE  Running(stack, b, f) => Running(stack, b, f)'
      BY <2>1, <3>1 DEF Running, Resting, Producing, Consuming
    <3>3. ASSUME NEW b, NEW c, NEW l
          PROVE  (Letting(b, c, l) => Letting(b, c, l)') /\ (Releasing(b, c, l) => Releasing(b, c, l)')
      BY <2>1, <3>1 DEF Releasing, Resting, Letting
    <3>4. ASSUME NEW b, NEW c, NEW l, NEW p
          PROVE  Resumed(stack, b, c, l, p) => Resumed(stack, b, c, l, p)'
      BY <2>1, <3>1, <3>3 DEF Resumed, Resting, Producing
    <3>5. Turn => Turn'
      BY <3>1, <3>2, <3>3, <3>4 DEF Turn
    <3>6. Room /\ Waits => Room' /\ Waits'
      BY <2>1 DEF Room, Waits
    <3>. QED BY <1>4, <3>5, <3>6 DEF QueueInv
  <2>5. Strategy # "suspend" => Plain'
    BY <1>4, <2>1 DEF QueueInv, Plain
  <2>. QED BY <1>4, <2>2, <2>3, <2>4, <2>5 DEF QueueInv
<1>. QED BY <1>1, <1>2, <1>3, <1>4

LEMMA QueueKeeps ==
    ASSUME QueueAssumption, QueueInv
    PROVE  QueueSafe
<1>1. ASSUME Tame \/ Strategy # "suspend"
      PROVE  Ordered /\ Bounded
  <2>1. Ordered
    BY <1>1 DEF QueueInv, Line, Increasing, Ordered
  <2>2. ASSUME Tame, stack = <<>>
        PROVE  Len(messages) <= Capacity
    <3>1. QueueTyped /\ Turn /\ Room
      BY <2>2 DEF QueueInv
    <3>2. PICK x \in BOOLEAN : Between(<<>>, x)
      BY <2>2, <3>1, EmptyStack
    <3>3. CASE Capacity > 0
      BY <3>1, <3>3 DEF Room
    <3>4. CASE Capacity = 0
      <4>1. messages = <<>>
        BY <3>2, <3>4 DEF Between
      <4>. QED BY <3>4, <4>1
    <3>. QED BY <3>3, <3>4 DEF QueueAssumption
  <2>3. Strategy # "suspend" => Len(messages) <= Capacity
    BY DEF QueueInv, Plain
  <2>. QED BY <1>1, <2>1, <2>2, <2>3 DEF Bounded
<1>2. ASSUME Tame, stack = <<>>
      PROVE  /\ takers # <<>> /\ messages # <<>> => releases > 0
             /\ offers # {} => Len(messages) >= Capacity
  <2>1. QueueTyped /\ Turn /\ Room
    BY <1>2 DEF QueueInv
  <2>2. PICK x \in BOOLEAN : Between(<<>>, x)
    BY <1>2, <2>1, EmptyStack
  <2>. QED BY <2>1, <2>2 DEF Between, Below, Room
<1>. QED BY <1>1, <1>2 DEF QueueSafe, NoStrandedTaker, NoStrandedOffer

(* Between two turns of the event loop a queue holds no more than it may, its *)
(* values are handed over in order, and no fiber waits for what is there,     *)
(* while fibers do not interrupt one another between two primitives           *)
(* (Queue.ts:640-690, 1803-1863, 1885-1930).                                  *)
THEOREM QueueIsSafe == ASSUME QueueAssumption PROVE QueueSpec => []QueueSafe
<1>1. QueueInit => QueueInv
  BY QueueStarts
<1>2. QueueInv /\ [QueueNext]_queueVars => QueueInv'
  BY QueueSteps
<1>3. QueueInv => QueueSafe
  BY QueueKeeps
<1>. QED BY <1>1, <1>2, <1>3, PTL DEF QueueSpec

(* Each value goes to one consumer, in the order of the offers: a queue that   *)
(* drops or slides whatever its fibers do, one that suspends its producers     *)
(* while fibers do not interrupt one another (Queue.ts:4-5, 1346-1398,         *)
(* 1885-1917).                                                                 *)
THEOREM QueueIsAFifo ==
    ASSUME QueueAssumption, Tame \/ Strategy # "suspend"
    PROVE  QueueSpec => ImplementsFifo
<1>1. QueueInit => QueueInv /\ Promised!Init
  <2>1. ASSUME QueueInit
        PROVE  Promised!Init
    <3>1. ToSet(messages) = {}
      BY <2>1 DEF QueueInit, ToSet
    <3>. QED BY <2>1, <3>1 DEF QueueInit, Promised!Init
  <2>. QED BY <2>1, QueueStarts
<1>2. QueueInv /\ [QueueNext]_queueVars => QueueInv' /\ [Promised!Next]_(Promised!vars)
  BY QueueSteps
<1>. QED BY <1>1, <1>2, PTL DEF QueueSpec, ImplementsFifo, Promised!Spec
============================================================================

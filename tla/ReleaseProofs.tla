---------------------------- MODULE ReleaseProofs ----------------------------
(***************************************************************************)
(* Releases. The gate, for any number of gates, edits and runs in a run      *)
(* root: its types, its Git sentinel and its temporary roots; that an APPLY  *)
(* delivers what was approved as long as gates do not overlap; and that the  *)
(* gate implements ApprovedDelivery. Publishing, for any number of jobs,     *)
(* commits and versions: a green job means its own tarball is served.        *)
(***************************************************************************)
EXTENDS CrossRepoGate, NpmPublish, FiniteSetTheorems, TLAPS

LEMMA PackOrderFacts ==
    /\ PackOrder[1] = "contract" /\ PackOrder[2] = "partita"
    /\ PackOrder[3] = "harness" /\ PackOrder[4] = "prelude"
    /\ \A i \in 1..4 : PackOrder[i] \in Artifacts
    /\ \A a \in Artifacts : \E i \in 1..4 : PackOrder[i] = a
BY DEF PackOrder, Artifacts

LEMMA FirstFile == \A a \in Artifacts : <<a, 1>> \in Files
BY BoundsAssumption DEF Files, Versions

LEMMA NoBundleType == NoBundle \in Bundles
BY FirstFile, BoundsAssumption DEF NoBundle, Bundles, Tarballs, Revisions

LEMMA NoCommandType == NoCommand \in Commands
BY NoBundleType DEF NoCommand, Commands, Bundles, Artifacts

LEMMA NewGateType == NewGate \in GateStates
<1>1. NewGate.paths \in [Artifacts -> Files]
  BY FirstFile DEF NewGate
<1>2. NewGate.before \in SUBSET Files
  BY DEF NewGate
<1> DEFINE c == NoCommand
           b == NoBundle
           p == [a \in Artifacts |-> <<a, 1>>]
<1>3. c \in Commands /\ b \in Bundles /\ p \in [Artifacts -> Files]
  BY NoCommandType, NoBundleType, <1>1 DEF NewGate
<1>4. NewGate = [pc |-> "idle", phase |-> "prepare", next |-> 1, before |-> {},
                 paths |-> p, first |-> 0, approved |-> c, delivered |-> b,
                 calledGit |-> FALSE, why |-> "none"]
  BY DEF NewGate
<1> HIDE DEF c, b, p
<1>. QED BY <1>3, <1>4 DEF GateStates, Steps, Ended

LEMMA InitTypeOK == Init => TypeOK
<1> SUFFICES ASSUME Init PROVE TypeOK
  OBVIOUS
<1>1. 1 \in Versions /\ 1 \in Revisions
  BY BoundsAssumption DEF Versions, Revisions
<1>2. source \in [Artifacts -> [version : Versions, revision : Revisions]]
  BY <1>1 DEF Init
<1>3. plans \in [Targets -> Tarballs]
  BY NoCommandType DEF Init, Commands
<1>4. gate \in [Gates -> GateStates]
  BY NewGateType DEF Init
<1>5. inputs \in [valid : BOOLEAN, bundle : Bundles]
  BY NoBundleType DEF Init
<1>6. command \in Commands /\ granted \in Commands
  BY NoCommandType DEF Init
<1>7. packs \in [Files -> Revisions \cup {Absent}]
  BY DEF Init
<1>. QED BY <1>2, <1>3, <1>4, <1>5, <1>6, <1>7 DEF Init, TypeOK

-----------------------------------------------------------------------------
(* One process's step leaves the other processes' states alone.            *)
LEMMA UpdateType ==
    ASSUME gate \in [Gates -> GateStates], NEW g \in Gates, NEW s \in GateStates,
           Update(g, s)
    PROVE  /\ gate' \in [Gates -> GateStates]
           /\ gate'[g] = s
           /\ \A h \in Gates \ {g} : gate'[h] = gate[h]
BY DEF Update

(* The bytes of tarballs that are there.                                   *)
LEMMA ContentType ==
    ASSUME TypeOK, NEW paths \in [Artifacts -> Files],
           \A a \in Artifacts : packs[paths[a]] # Absent
    PROVE  Content(paths) \in Bundles
BY DEF TypeOK, Content, Bundles, Tarballs

(* The set of running PREPAREs, when the state of one gate changes.        *)
LEMMA PreparingFinite == IsFiniteSet(Preparing) /\ Cardinality(Preparing) \in Nat
<1>1. Preparing \subseteq Gates
  BY DEF Preparing
<1>. QED BY <1>1, GatesAssumption, FS_Subset, FS_CardinalityType

LEMMA PreparingSame ==
    ASSUME NEW g \in Gates,
           \A h \in Gates \ {g} : gate'[h] = gate[h],
           (g \in Preparing)' <=> g \in Preparing
    PROVE  Preparing' = Preparing
BY DEF Preparing, Running

LEMMA PreparingMore ==
    ASSUME NEW g \in Gates,
           \A h \in Gates \ {g} : gate'[h] = gate[h],
           g \notin Preparing, (g \in Preparing)'
    PROVE  Cardinality(Preparing)' = Cardinality(Preparing) + 1
<1>1. Preparing' = Preparing \cup {g}
  BY DEF Preparing, Running
<1>. QED BY <1>1, PreparingFinite, FS_AddElement

LEMMA PreparingFewer ==
    ASSUME NEW g \in Gates,
           \A h \in Gates \ {g} : gate'[h] = gate[h],
           g \in Preparing, ~(g \in Preparing)'
    PROVE  /\ Cardinality(Preparing)' = Cardinality(Preparing) - 1
           /\ Cardinality(Preparing) > 0
<1>1. Preparing' = Preparing \ {g}
  BY DEF Preparing, Running
<1>2. Cardinality(Preparing)' = Cardinality(Preparing) - 1
  BY <1>1, PreparingFinite, FS_RemoveElement
<1>3. IsFiniteSet(Preparing') /\ Cardinality(Preparing') \in Nat
  BY <1>1, PreparingFinite, FS_RemoveElement, FS_CardinalityType
<1>. QED BY <1>2, <1>3, PreparingFinite
-----------------------------------------------------------------------------
(* The part of the invariant that is about one process, and the part of    *)
(* the type invariant that is about the run root.                          *)
Sound(g) == Control(g) /\ Holds(g) /\ Sentinel(g)

WorkspaceOK ==
    /\ packs \in [Files -> Revisions \cup {Absent}]
    /\ inputs \in [valid : BOOLEAN, bundle : Bundles]
    /\ plans \in [Targets -> Tarballs]
    /\ command \in Commands
    /\ gitLog \in BOOLEAN
    /\ repacked \in BOOLEAN

(* Tarballs and log entries stay.                                          *)
Monotone ==
    /\ \A f \in Files : packs[f] # Absent => packs'[f] # Absent
    /\ gitLog => gitLog'

LEMMA OthersKeep ==
    ASSUME TypeOK, Monotone, NEW h \in Gates, gate'[h] = gate[h], Sound(h)
    PROVE  Sound(h)'
<1>1. gate[h] \in GateStates
  BY DEF TypeOK
<1>2. gate[h].paths \in [Artifacts -> Files]
  BY <1>1 DEF GateStates
<1>3. Control(h)'
  BY DEF Sound, Control
<1>4. Holds(h)'
  BY <1>2, PackOrderFacts DEF Sound, Holds, Monotone
<1>5. Sentinel(h)'
  BY DEF Sound, Sentinel, Monotone
<1>. QED BY <1>3, <1>4, <1>5 DEF Sound

(* What is left to show of a step of a running process that keeps on       *)
(* running: its new state and the run root.                                *)
LEMMA StepKeeps ==
    ASSUME IInv, NEW g \in Gates, NEW s \in GateStates, Step(g, s),
           Running(g), s.pc \notin Ended, s.phase = gate[g].phase,
           Monotone, WorkspaceOK', Sound(g)'
    PROVE  IInv'
<1>1. gate \in [Gates -> GateStates] /\ Update(g, s)
  BY DEF IInv, TypeOK, Step
<1>2. /\ gate' \in [Gates -> GateStates]
      /\ gate'[g] = s
      /\ \A h \in Gates \ {g} : gate'[h] = gate[h]
  BY <1>1, UpdateType
<1>3. TypeOK'
  BY <1>2 DEF IInv, TypeOK, WorkspaceOK, Step, temporary, environment
<1>4. (g \in Preparing)' <=> g \in Preparing
  BY <1>2 DEF Preparing, Running
<1>5. Preparing' = Preparing
  BY <1>2, <1>4, PreparingSame
<1>6. TempRootsAccountedFor'
  BY <1>5 DEF IInv, TempRootsAccountedFor, Step, temporary
<1>7. ASSUME NEW h \in Gates PROVE Sound(h)'
  <2>1. CASE h = g
    BY <2>1
  <2>2. CASE h # g
    BY <2>2, <1>2, OthersKeep DEF IInv, Sound
  <2>. QED BY <2>1, <2>2
<1>. QED BY <1>3, <1>6, <1>7 DEF IInv, Sound

(* The same when the run root does not change at all.                      *)
LEMMA SameWorkspace ==
    ASSUME TypeOK, UNCHANGED workspace
    PROVE  Monotone /\ WorkspaceOK'
BY DEF TypeOK, workspace, Monotone, WorkspaceOK

LEMMA FailKeeps ==
    ASSUME IInv, NEW g \in Gates, NEW reason \in {"tool", "inputs", "git"},
           Running(g), Fail(g, reason), UNCHANGED workspace
    PROVE  IInv'
<1> DEFINE s == [gate[g] EXCEPT !.pc = "finally", !.why = reason]
<1>1. gate[g] \in GateStates
  BY DEF IInv, TypeOK
<1>2. s \in GateStates
  BY <1>1 DEF GateStates
<1>3. Step(g, s) /\ s.pc = "finally" /\ s.phase = gate[g].phase
  BY <1>1 DEF Fail, GateStates
<1>4. gate'[g] = s
  BY <1>2, <1>3, UpdateType DEF IInv, TypeOK, Step
<1>5. Monotone /\ WorkspaceOK'
  BY SameWorkspace DEF IInv
<1>6. Sound(g)'
  <2>1. /\ s.next = gate[g].next /\ s.paths = gate[g].paths
        /\ s.calledGit = gate[g].calledGit /\ s.why = reason
    BY <1>1 DEF GateStates
  <2>2. Control(g)'
    BY <1>3, <1>4 DEF Control
  <2>3. Holds(g)'
    BY <1>3, <1>4, <2>1 DEF IInv, Holds, workspace
  <2>4. Sentinel(g)'
    BY <1>3, <1>4, <2>1 DEF IInv, Sentinel, workspace
  <2>. QED BY <2>2, <2>3, <2>4 DEF Sound
<1>7. s.pc \notin Ended
  BY <1>3 DEF Ended
<1> HIDE DEF s
<1>. QED BY <1>2, <1>3, <1>5, <1>6, <1>7, StepKeeps

(* A step that only moves on.                                              *)
LEMMA GotoFacts ==
    ASSUME TypeOK, NEW g \in Gates, NEW step \in Steps \cup {"finally"},
           Goto(g, step)
    PROVE  /\ [gate[g] EXCEPT !.pc = step] \in GateStates
           /\ gate'[g].pc = step
           /\ gate'[g].phase = gate[g].phase
           /\ gate'[g].next = gate[g].next
           /\ gate'[g].paths = gate[g].paths
           /\ gate'[g].calledGit = gate[g].calledGit
           /\ gate'[g].why = gate[g].why
           /\ gate'[g].before = gate[g].before
           /\ gate'[g].approved = gate[g].approved
           /\ gate'[g].delivered = gate[g].delivered
<1> DEFINE s == [gate[g] EXCEPT !.pc = step]
<1>1. gate[g] \in GateStates
  BY DEF TypeOK
<1>2. s \in GateStates
  BY <1>1 DEF GateStates
<1>3. gate'[g] = s
  BY <1>2, UpdateType DEF TypeOK, Goto, Step
<1>. QED BY <1>1, <1>2, <1>3 DEF GateStates

LEMMA GotoKeeps ==
    ASSUME IInv, NEW g \in Gates, NEW step \in Steps \cup {"finally"},
           Running(g), Goto(g, step), Monotone, WorkspaceOK', Sound(g)'
    PROVE  IInv'
<1> DEFINE s == [gate[g] EXCEPT !.pc = step]
<1>1. gate[g] \in GateStates
  BY DEF IInv, TypeOK
<1>2. s \in GateStates
  BY GotoFacts DEF IInv
<1>3. s.pc \notin Ended /\ s.phase = gate[g].phase
  BY <1>1 DEF GateStates, Steps, Ended
<1>4. Step(g, s)
  BY DEF Goto
<1> HIDE DEF s
<1>. QED BY <1>2, <1>3, <1>4, StepKeeps

LEMMA GotoHolds ==
    ASSUME IInv, NEW g \in Gates, NEW step \in Steps \cup {"finally"},
           Goto(g, step), Monotone,
           gate[g].phase = "apply" /\ step \in {"sentinel", "prelude"} =>
               \A a \in Artifacts : packs[gate[g].paths[a]] # Absent
    PROVE  Holds(g)'
<1>1. gate[g].paths \in [Artifacts -> Files] /\ gate[g].next \in 1..5
  BY DEF IInv, TypeOK, GateStates
<1>2. /\ gate'[g].pc = step /\ gate'[g].phase = gate[g].phase
      /\ gate'[g].next = gate[g].next /\ gate'[g].paths = gate[g].paths
  BY GotoFacts DEF IInv
<1>3. Holds(g)
  BY DEF IInv
<1>. QED BY <1>1, <1>2, <1>3, PackOrderFacts DEF Holds, Monotone

LEMMA GotoSentinel ==
    ASSUME IInv, NEW g \in Gates, NEW step \in Steps \cup {"finally"},
           Goto(g, step), Monotone,
           step \in {"writeCommand", "finally"} => ~gate[g].calledGit
    PROVE  Sentinel(g)'
<1>1. /\ gate'[g].pc = step /\ gate'[g].calledGit = gate[g].calledGit
  BY GotoFacts DEF IInv
<1>2. Sentinel(g)
  BY DEF IInv
<1>. QED BY <1>1, <1>2 DEF Sentinel, Monotone, Steps

-----------------------------------------------------------------------------
(* PREPARE packs.                                                          *)

LEMMA VerifyKeeps ==
    ASSUME IInv, NEW g \in Gates, VerifyRepositories(g) PROVE IInv'
<1>1. Goto(g, "list") /\ Running(g) /\ "list" \in Steps \cup {"finally"}
  BY DEF VerifyRepositories, Running, Ended, Steps
<1>2. Monotone /\ WorkspaceOK'
  BY SameWorkspace DEF IInv, VerifyRepositories
<1>3. /\ gate'[g].pc = "list" /\ gate'[g].phase = gate[g].phase
      /\ gate'[g].next = gate[g].next
  BY <1>1, GotoFacts DEF IInv
<1>4. Control(g)'
  BY <1>3 DEF VerifyRepositories, IInv, Control
<1>5. Holds(g)'
  BY <1>1, <1>2, GotoHolds
<1>6. Sentinel(g)'
  BY <1>1, <1>2, GotoSentinel
<1>. QED BY <1>1, <1>2, <1>4, <1>5, <1>6, GotoKeeps DEF Sound

LEMMA ListKeeps ==
    ASSUME IInv, NEW g \in Gates, ListPacks(g) PROVE IInv'
<1> DEFINE s == [gate[g] EXCEPT !.pc = "pack", !.before = Packed]
<1>1. gate[g] \in GateStates /\ gate[g].pc = "list" /\ Running(g)
  BY DEF IInv, TypeOK, ListPacks, Running, Ended
<1>2. s \in GateStates
  <2>1. Packed \in SUBSET Files
    BY DEF Packed
  <2>. QED BY <1>1, <2>1 DEF GateStates, Steps
<1>3. Step(g, s) /\ s.pc = "pack" /\ s.phase = gate[g].phase
  BY <1>1 DEF ListPacks, GateStates
<1>4. gate'[g] = s
  BY <1>2, <1>3, UpdateType DEF IInv, TypeOK, Step
<1>5. Monotone /\ WorkspaceOK'
  BY SameWorkspace DEF IInv, ListPacks
<1>6. /\ s.next = gate[g].next /\ s.paths = gate[g].paths
      /\ s.calledGit = gate[g].calledGit
  BY <1>1 DEF GateStates
<1>7. Sound(g)'
  BY <1>1, <1>3, <1>4, <1>6
     DEF ListPacks, IInv, Sound, Control, Holds, Sentinel, workspace
<1>8. s.pc \notin Ended
  BY <1>3 DEF Ended
<1> HIDE DEF s
<1>. QED BY <1>1, <1>2, <1>3, <1>5, <1>7, <1>8, StepKeeps

(* The artifact being packed.                                              *)
LEMMA PackingType ==
    ASSUME TypeOK, NEW g \in Gates, gate[g].next # 5
    PROVE  /\ gate[g].next \in 1..4
           /\ Packing(g) \in Artifacts
           /\ source[Packing(g)].version \in Versions
           /\ source[Packing(g)].revision \in Revisions
<1>1. gate[g].next \in 1..5
  BY DEF TypeOK, GateStates
<1>2. gate[g].next \in 1..4 /\ Packing(g) \in Artifacts
  BY <1>1, PackOrderFacts DEF Packing
<1>. QED BY <1>2 DEF TypeOK

LEMMA PackKeeps ==
    ASSUME IInv, NEW g \in Gates, PackTarball(g) PROVE IInv'
<1> DEFINE new == source[Packing(g)]
           file == <<Packing(g), new.version>>
<1>1. Goto(g, "take") /\ Running(g) /\ "take" \in Steps \cup {"finally"}
  BY DEF PackTarball, Running, Ended, Steps
<1>2. gate[g].next # 5 /\ gate[g].pc = "pack"
  BY DEF PackTarball, IInv, Control
<1>3. file \in Files /\ new.revision \in Revisions
  BY <1>2, PackingType DEF IInv, Files
<1>4. packs' = [packs EXCEPT ![file] = new.revision]
  BY DEF PackTarball
<1>5. new.revision # Absent
  BY <1>3 DEF Revisions, Absent
<1> HIDE DEF new, file
<1>6. Monotone /\ WorkspaceOK'
  BY <1>3, <1>4, <1>5 DEF PackTarball, IInv, TypeOK, Monotone, WorkspaceOK
<1>7. Control(g)'
  BY <1>1, <1>2, GotoFacts DEF IInv, Control
<1>8. Holds(g)'
  BY <1>1, <1>6, GotoHolds
<1>9. Sentinel(g)'
  BY <1>1, <1>6, GotoSentinel
<1>. QED BY <1>1, <1>6, <1>7, <1>8, <1>9, GotoKeeps DEF Sound

(* The step after each artifact, and its place in the order.               *)
LEMMA AfterTakingFacts ==
    ASSUME NEW n \in 1..4
    PROVE  /\ AfterTaking(PackOrder[n]) \in
                {"list", "publishFirst", "assertHarness", "writeInputs"}
           /\ AfterTaking(PackOrder[n]) = "list" => n = 1
           /\ AfterTaking(PackOrder[n]) = "publishFirst" => n = 2
           /\ AfterTaking(PackOrder[n]) = "assertHarness" => n = 3
           /\ AfterTaking(PackOrder[n]) = "writeInputs" => n = 4
BY PackOrderFacts DEF AfterTaking

LEMMA TakeKeeps ==
    ASSUME IInv, NEW g \in Gates, TakeTarball(g) PROVE IInv'
<1> DEFINE created == Packed \ gate[g].before
<1>1. gate[g] \in GateStates /\ gate[g].pc = "take" /\ Running(g)
  BY DEF IInv, TypeOK, TakeTarball, Running, Ended
<1>2. gate[g].next # 5
  BY <1>1 DEF IInv, Control
<1>3. CASE Cardinality(created) # 1
  <2>1. Fail(g, "tool") /\ UNCHANGED workspace
    BY <1>3 DEF TakeTarball
  <2>. QED BY <1>1, <2>1, FailKeeps
<1>4. CASE Cardinality(created) = 1
  <2> DEFINE S(f) == [gate[g] EXCEPT !.pc = AfterTaking(Packing(g)),
                                     !.next = @ + 1,
                                     !.before = {},
                                     !.paths[Packing(g)] = f]
  <2>1. PICK f \in created : Step(g, S(f))
    BY <1>4 DEF TakeTarball
  <2>2. f \in Files /\ packs[f] # Absent
    BY DEF Packed
  <2> DEFINE n == gate[g].next
             step == AfterTaking(PackOrder[n])
             paths == [gate[g].paths EXCEPT ![PackOrder[n]] = f]
             s == [gate[g] EXCEPT !.pc = step, !.next = n + 1, !.before = {},
                                  !.paths = paths]
  <2>3. n \in 1..4
    BY <1>2, PackingType DEF IInv
  <2>4. S(f) = s
    BY DEF Packing
  <2>5. paths \in [Artifacts -> Files]
    BY <1>1, <2>2, <2>3, PackOrderFacts DEF GateStates
  <2>6. /\ step \in {"list", "publishFirst", "assertHarness", "writeInputs"}
        /\ step = "list" => n = 1
        /\ step = "publishFirst" => n = 2
        /\ step = "assertHarness" => n = 3
        /\ step = "writeInputs" => n = 4
    BY <2>3, AfterTakingFacts
  <2>7. \A i \in 1..4 : i < n + 1 => packs[paths[PackOrder[i]]] # Absent
    <3> SUFFICES ASSUME NEW i \in 1..4, i < n + 1
                 PROVE  packs[paths[PackOrder[i]]] # Absent
      OBVIOUS
    <3>1. CASE PackOrder[i] = PackOrder[n]
      BY <3>1, <1>1, <2>2, <2>3, PackOrderFacts DEF GateStates
    <3>2. CASE PackOrder[i] # PackOrder[n]
      BY <3>2, <1>1, <2>3, PackOrderFacts DEF GateStates, IInv, Holds
    <3>. QED BY <3>1, <3>2
  <2> HIDE DEF created, step, paths
  <2>8. s \in GateStates
    <3>1. step \in Steps /\ n + 1 \in 1..5 /\ {} \in SUBSET Files
      BY <2>3, <2>6 DEF Steps
    <3> HIDE DEF n
    <3>. QED BY <1>1, <2>5, <3>1 DEF GateStates
  <2>9. /\ s.pc = step /\ s.next = n + 1 /\ s.paths = paths
        /\ s.phase = gate[g].phase /\ s.calledGit = gate[g].calledGit
    BY <1>1 DEF GateStates
  <2>10. Step(g, s)
    BY <2>1, <2>4
  <2> HIDE DEF s, S
  <2>11. gate'[g] = s /\ UNCHANGED workspace
    BY <2>8, <2>10, UpdateType DEF IInv, TypeOK, Step, TakeTarball
  <2>12. gate[g].phase = "prepare"
    BY <1>1 DEF IInv, Control
  <2>13. Control(g)'
    BY <2>6, <2>9, <2>11, <2>12, <2>3 DEF Control
  <2>14. Holds(g)'
    BY <2>6, <2>7, <2>9, <2>11, <2>12 DEF Holds, workspace
  <2>15. Sentinel(g)'
    BY <2>6, <2>9, <2>11 DEF IInv, Sentinel, workspace
  <2>16. s.pc \notin Ended
    BY <2>6, <2>9 DEF Ended
  <2>17. Monotone /\ WorkspaceOK'
    BY <2>11, SameWorkspace DEF IInv
  <2>. QED BY <1>1, <2>8, <2>9, <2>10, <2>13, <2>14, <2>15, <2>16, <2>17, StepKeeps
           DEF Sound
<1>. QED BY <1>3, <1>4

LEMMA PublishFirstKeeps ==
    ASSUME IInv, NEW g \in Gates, PublishFirst(g) PROVE IInv'
<1> DEFINE pin == PinOf[source["harness"].revision]
           s == [gate[g] EXCEPT !.pc = "publishSecond", !.first = pin]
<1>1. gate[g] \in GateStates /\ gate[g].pc = "publishFirst" /\ Running(g)
  BY DEF IInv, TypeOK, PublishFirst, Running, Ended
<1>2. pin \in Nat
  BY FacetsAssumption DEF IInv, TypeOK, Artifacts
<1>3. Step(g, s) /\ UNCHANGED workspace
  BY DEF PublishFirst
<1> HIDE DEF pin
<1>4. s \in GateStates
  BY <1>1, <1>2 DEF GateStates, Steps
<1>5. /\ s.pc = "publishSecond" /\ s.phase = gate[g].phase
      /\ s.next = gate[g].next /\ s.paths = gate[g].paths
      /\ s.calledGit = gate[g].calledGit
  BY <1>1 DEF GateStates
<1>6. gate'[g] = s
  BY <1>3, <1>4, UpdateType DEF IInv, TypeOK, Step
<1> HIDE DEF s
<1>7. Sound(g)'
  BY <1>1, <1>3, <1>5, <1>6 DEF IInv, Sound, Control, Holds, Sentinel, workspace
<1>8. Monotone /\ WorkspaceOK' /\ s.pc \notin Ended
  BY <1>3, <1>5, SameWorkspace DEF IInv, Ended
<1>. QED BY <1>1, <1>3, <1>4, <1>5, <1>7, <1>8, StepKeeps

(* A step of PREPARE that only moves on, between two artifacts.            *)
LEMMA ListNextKeeps ==
    ASSUME IInv, NEW g \in Gates,
           gate[g].pc \in {"publishSecond", "assertHarness"},
           Goto(g, "list"), UNCHANGED workspace
    PROVE  IInv'
<1>1. Running(g) /\ "list" \in Steps \cup {"finally"}
  BY DEF Running, Ended, Steps
<1>2. Monotone /\ WorkspaceOK'
  BY SameWorkspace DEF IInv
<1>3. /\ gate'[g].pc = "list" /\ gate'[g].phase = gate[g].phase
      /\ gate'[g].next = gate[g].next
  BY <1>1, GotoFacts DEF IInv
<1>4. Control(g)'
  BY <1>3 DEF IInv, Control
<1>5. Holds(g)'
  BY <1>1, <1>2, GotoHolds
<1>6. Sentinel(g)'
  BY <1>1, <1>2, GotoSentinel
<1>. QED BY <1>1, <1>2, <1>4, <1>5, <1>6, GotoKeeps DEF Sound

LEMMA PublishSecondKeeps ==
    ASSUME IInv, NEW g \in Gates, PublishSecond(g) PROVE IInv'
<1>1. CASE Goto(g, "list")
  BY <1>1, ListNextKeeps DEF PublishSecond
<1>2. CASE Fail(g, "tool")
  BY <1>2, FailKeeps DEF PublishSecond, Running, Ended
<1>. QED BY <1>1, <1>2 DEF PublishSecond

LEMMA AssertHarnessKeeps ==
    ASSUME IInv, NEW g \in Gates, AssertHarness(g) PROVE IInv'
<1>1. CASE Goto(g, "list")
  BY <1>1, ListNextKeeps DEF AssertHarness
<1>2. CASE Fail(g, "tool")
  BY <1>2, FailKeeps DEF AssertHarness, Running, Ended
<1>. QED BY <1>1, <1>2 DEF AssertHarness

(* The four tarballs a finished PREPARE or a checked APPLY names.          *)
LEMMA HeldBundle ==
    ASSUME IInv, NEW g \in Gates,
           gate[g].pc \in {"writeInputs", "sentinel", "prelude"}
    PROVE  /\ gate[g].paths \in [Artifacts -> Files]
           /\ Content(gate[g].paths) \in Bundles
<1>1. gate[g].paths \in [Artifacts -> Files] /\ gate[g].phase \in {"prepare", "apply"}
  BY DEF IInv, TypeOK, GateStates
<1>2. \A a \in Artifacts : packs[gate[g].paths[a]] # Absent
  <2>1. CASE gate[g].next = 5
    BY <2>1, PackOrderFacts DEF IInv, Holds
  <2>2. CASE gate[g].next # 5
    BY <2>2, <1>1 DEF IInv, Holds, Control
  <2>. QED BY <2>1, <2>2
<1>. QED BY <1>1, <1>2, ContentType DEF IInv

LEMMA WriteInputsKeeps ==
    ASSUME IInv, NEW g \in Gates, WriteInputs(g) PROVE IInv'
<1>1. /\ Goto(g, "sentinel") /\ Running(g) /\ gate[g].pc = "writeInputs"
      /\ "sentinel" \in Steps \cup {"finally"}
  BY DEF WriteInputs, Running, Ended, Steps
<1>2. Content(gate[g].paths) \in Bundles
  BY <1>1, HeldBundle
<1>3. Monotone /\ WorkspaceOK'
  BY <1>2 DEF WriteInputs, Monotone, WorkspaceOK, IInv, TypeOK
<1>4. /\ gate'[g].pc = "sentinel" /\ gate'[g].phase = gate[g].phase
      /\ gate'[g].next = gate[g].next
  BY <1>1, GotoFacts DEF IInv
<1>5. Control(g)'
  BY <1>1, <1>4 DEF IInv, Control
<1>6. gate[g].phase = "prepare"
  BY <1>1 DEF IInv, Control
<1>7. Holds(g)'
  BY <1>1, <1>3, <1>6, GotoHolds
<1>8. Sentinel(g)'
  BY <1>1, <1>3, GotoSentinel
<1>. QED BY <1>1, <1>3, <1>5, <1>7, <1>8, GotoKeeps DEF Sound

-----------------------------------------------------------------------------
(* APPLY checks its evidence.                                              *)
LEMMA ReadInputsKeeps ==
    ASSUME IInv, NEW g \in Gates, ReadInputs(g) PROVE IInv'
<1> DEFINE paths == [a \in Artifacts |-> inputs.bundle[a].file]
           s == [gate[g] EXCEPT !.pc = "sentinel", !.paths = paths]
<1>1. gate[g] \in GateStates /\ gate[g].pc = "readInputs" /\ Running(g)
  BY DEF IInv, TypeOK, ReadInputs, Running, Ended
<1>2. CASE Fail(g, "inputs")
  BY <1>1, <1>2, FailKeeps DEF ReadInputs
<1>3. CASE inputs.bundle = Content(paths) /\ Step(g, s)
  <2>1. inputs.bundle \in Bundles
    BY DEF IInv, TypeOK
  <2>2. paths \in [Artifacts -> Files]
    BY <2>1 DEF Bundles, Tarballs
  <2>3. \A a \in Artifacts : packs[paths[a]] # Absent
    <3> SUFFICES ASSUME NEW a \in Artifacts PROVE packs[paths[a]] # Absent
      OBVIOUS
    <3>1. inputs.bundle[a].revision = packs[paths[a]]
      <4>1. PICK p : p = paths
        OBVIOUS
      <4>2. inputs.bundle = Content(p)
        BY <1>3, <4>1
      <4>3. Content(p)[a] = [file |-> p[a], revision |-> packs[p[a]]]
        BY DEF Content
      <4>4. Content(p)[a].revision = packs[p[a]]
        BY <4>3
      <4> HIDE DEF paths
      <4>. QED BY <4>1, <4>2, <4>4
    <3>2. inputs.bundle[a].revision \in Revisions
      BY <2>1 DEF Bundles, Tarballs
    <3>. QED BY <3>1, <3>2 DEF Revisions, Absent
  <2> HIDE DEF paths
  <2>4. s \in GateStates
    BY <1>1, <2>2 DEF GateStates, Steps
  <2>5. /\ s.pc = "sentinel" /\ s.phase = gate[g].phase
        /\ s.next = gate[g].next /\ s.paths = paths
        /\ s.calledGit = gate[g].calledGit
    BY <1>1 DEF GateStates
  <2>6. gate'[g] = s /\ UNCHANGED workspace
    BY <1>3, <2>4, UpdateType DEF IInv, TypeOK, Step, ReadInputs
  <2> HIDE DEF s
  <2>7. gate[g].phase = "apply"
    BY <1>1 DEF IInv, Control
  <2>8. Control(g)'
    BY <2>5, <2>6, <2>7 DEF Control
  <2>9. Holds(g)'
    <3>1. gate[g].next = 1
      BY <1>1 DEF IInv, Control
    <3>. QED BY <3>1, <2>3, <2>5, <2>6 DEF Holds, workspace
  <2>10. Sentinel(g)'
    BY <2>5, <2>6 DEF IInv, Sentinel, workspace
  <2>11. Monotone /\ WorkspaceOK' /\ s.pc \notin Ended
    BY <2>5, <2>6, SameWorkspace DEF IInv, Ended
  <2>. QED BY <1>1, <1>3, <2>4, <2>5, <2>8, <2>9, <2>10, <2>11, StepKeeps
           DEF Sound
<1>. QED BY <1>2, <1>3 DEF ReadInputs

-----------------------------------------------------------------------------
(* Both phases, behind the sentinel.                                       *)
LEMMA SentinelKeeps ==
    ASSUME IInv, NEW g \in Gates, InstallGitSentinel(g) PROVE IInv'
<1>1. /\ Goto(g, "prelude") /\ Running(g) /\ gate[g].pc = "sentinel"
      /\ "prelude" \in Steps \cup {"finally"}
  BY DEF InstallGitSentinel, Running, Ended, Steps
<1>2. Monotone /\ WorkspaceOK'
  BY SameWorkspace DEF IInv, InstallGitSentinel
<1>3. /\ gate'[g].pc = "prelude" /\ gate'[g].phase = gate[g].phase
      /\ gate'[g].next = gate[g].next
  BY <1>1, GotoFacts DEF IInv
<1>4. Control(g)'
  BY <1>1, <1>3 DEF IInv, Control
<1>5. Holds(g)'
  <2>1. gate[g].phase = "apply" =>
            \A a \in Artifacts : packs[gate[g].paths[a]] # Absent
    BY <1>1 DEF IInv, Holds
  <2>. QED BY <1>1, <1>2, <2>1, GotoHolds
<1>6. Sentinel(g)'
  BY <1>1, <1>2, GotoSentinel
<1>. QED BY <1>1, <1>2, <1>4, <1>5, <1>6, GotoKeeps DEF Sound

LEMMA ConvergeKeeps ==
    ASSUME IInv, NEW g \in Gates, NEW ok \in BOOLEAN, Converge(g, ok),
           plans' \in [Targets -> Tarballs]
    PROVE  IInv'
<1>1. PICK git \in BOOLEAN :
          /\ gitLog' = (gitLog \/ git)
          /\ Step(g, [gate[g] EXCEPT !.pc = IF ok THEN "check" ELSE "finally",
                                     !.delivered = Content(gate[g].paths),
                                     !.calledGit = git,
                                     !.why = IF ok THEN "none" ELSE "tool"])
  BY DEF Converge
<1> DEFINE pc == IF ok THEN "check" ELSE "finally"
           reason == IF ok THEN "none" ELSE "tool"
           bundle == Content(gate[g].paths)
           s == [gate[g] EXCEPT !.pc = pc, !.delivered = bundle,
                                !.calledGit = git, !.why = reason]
<1>2. gate[g] \in GateStates /\ gate[g].pc = "prelude" /\ Running(g)
  BY DEF IInv, TypeOK, Converge, Running, Ended
<1>3. bundle \in Bundles
  BY <1>2, HeldBundle
<1>4. pc \in {"check", "finally"} /\ reason \in {"none", "tool"}
  OBVIOUS
<1>5. pc = "finally" => reason # "none"
  OBVIOUS
<1>6. Step(g, s)
  BY <1>1
<1> HIDE DEF pc, reason, bundle
<1>7. s \in GateStates
  BY <1>2, <1>3, <1>4 DEF GateStates, Steps
<1>8. /\ s.pc = pc /\ s.why = reason /\ s.phase = gate[g].phase
      /\ s.next = gate[g].next /\ s.paths = gate[g].paths /\ s.calledGit = git
  BY <1>2 DEF GateStates
<1>9. gate'[g] = s
  BY <1>6, <1>7, UpdateType DEF IInv, TypeOK, Step
<1> HIDE DEF s
<1>10. Monotone /\ WorkspaceOK'
  BY <1>1 DEF Converge, IInv, TypeOK, Monotone, WorkspaceOK
<1>11. Control(g)'
  BY <1>4, <1>8, <1>9 DEF Control
<1>12. Holds(g)'
  BY <1>4, <1>8, <1>9 DEF IInv, Holds, Converge
<1>13. Sentinel(g)'
  BY <1>1, <1>4, <1>5, <1>8, <1>9 DEF Sentinel
<1>14. s.pc \notin Ended
  BY <1>4, <1>8 DEF Ended
<1>. QED BY <1>2, <1>6, <1>7, <1>8, <1>10, <1>11, <1>12, <1>13, <1>14, StepKeeps
         DEF Sound

LEMMA PreludePrepareKeeps ==
    ASSUME IInv, NEW g \in Gates, PreludePrepare(g) PROVE IInv'
<1>1. PICK planned \in SUBSET Targets, ok \in BOOLEAN :
          /\ plans' = [t \in Targets |->
                IF t \in planned THEN Content(gate[g].paths)["harness"] ELSE plans[t]]
          /\ Converge(g, ok)
  BY DEF PreludePrepare
<1>2. Content(gate[g].paths)["harness"] \in Tarballs
  BY <1>1, HeldBundle DEF Converge, Bundles, Artifacts
<1>3. plans' \in [Targets -> Tarballs]
  BY <1>1, <1>2 DEF IInv, TypeOK
<1>. QED BY <1>1, <1>3, ConvergeKeeps

LEMMA PreludeApplyKeeps ==
    ASSUME IInv, NEW g \in Gates, PreludeApply(g) PROVE IInv'
<1>1. PICK ok \in BOOLEAN : Converge(g, ok)
  BY DEF PreludeApply
<1>2. plans' \in [Targets -> Tarballs]
  BY DEF PreludeApply, IInv, TypeOK
<1>. QED BY <1>1, <1>2, ConvergeKeeps

LEMMA CheckKeeps ==
    ASSUME IInv, NEW g \in Gates, CheckGitLog(g) PROVE IInv'
<1>1. Running(g) /\ gate[g].pc = "check" /\ UNCHANGED workspace
  BY DEF CheckGitLog, Running, Ended
<1>2. CASE gitLog
  BY <1>1, <1>2, FailKeeps DEF CheckGitLog
<1>3. CASE ~gitLog
  <2> DEFINE step == IF gate[g].phase = "prepare" THEN "writeCommand" ELSE "finally"
  <2>1. Goto(g, step)
    BY <1>3 DEF CheckGitLog
  <2>2. /\ step \in Steps \cup {"finally"}
        /\ step \in {"writeCommand", "finally"}
        /\ step = "writeCommand" => gate[g].phase = "prepare"
    BY DEF Steps
  <2> HIDE DEF step
  <2>3. Monotone /\ WorkspaceOK'
    BY <1>1, SameWorkspace DEF IInv
  <2>4. gate'[g].pc = step /\ gate'[g].phase = gate[g].phase
    BY <2>1, <2>2, GotoFacts DEF IInv
  <2>5. Control(g)'
    BY <2>2, <2>4 DEF Control
  <2>6. Holds(g)'
    BY <2>1, <2>2, <2>3, GotoHolds
  <2>7. ~gate[g].calledGit
    BY <1>3 DEF IInv, Sentinel
  <2>8. Sentinel(g)'
    BY <2>1, <2>2, <2>3, <2>7, GotoSentinel
  <2>. QED BY <1>1, <2>1, <2>2, <2>3, <2>5, <2>6, <2>8, GotoKeeps DEF Sound
<1>. QED BY <1>2, <1>3

LEMMA WriteCommandKeeps ==
    ASSUME IInv, NEW g \in Gates, WriteCommand(g) PROVE IInv'
<1>1. /\ Goto(g, "finally") /\ Running(g) /\ gate[g].pc = "writeCommand"
      /\ "finally" \in Steps \cup {"finally"}
  BY DEF WriteCommand, Running, Ended
<1>2. gate[g].delivered \in Bundles
  BY DEF IInv, TypeOK, GateStates
<1>3. Monotone /\ WorkspaceOK'
  BY <1>2 DEF WriteCommand, Monotone, WorkspaceOK, IInv, TypeOK, Commands
<1>4. gate'[g].pc = "finally"
  BY <1>1, GotoFacts DEF IInv
<1>5. Control(g)'
  BY <1>4 DEF Control
<1>6. Holds(g)'
  BY <1>1, <1>3, GotoHolds
<1>7. ~gate[g].calledGit
  BY <1>1 DEF IInv, Sentinel
<1>8. Sentinel(g)'
  BY <1>1, <1>3, <1>7, GotoSentinel
<1>. QED BY <1>1, <1>3, <1>5, <1>6, <1>8, GotoKeeps DEF Sound

LEMMA ToolFailureKeeps ==
    ASSUME IInv, NEW g \in Gates, ToolFailure(g) PROVE IInv'
BY FailKeeps DEF ToolFailure, Running, Steps, Ended

-----------------------------------------------------------------------------
(* A process starts or ends.                                               *)

LEMMA OthersSound ==
    ASSUME IInv, NEW g \in Gates, Monotone, Sound(g)',
           \A h \in Gates \ {g} : gate'[h] = gate[h]
    PROVE  \A h \in Gates : Sound(h)'
<1> SUFFICES ASSUME NEW h \in Gates PROVE Sound(h)'
  OBVIOUS
<1>1. CASE h = g
  BY <1>1
<1>2. CASE h # g
  BY <1>2, OthersKeep DEF IInv, Sound
<1>. QED BY <1>1, <1>2

LEMMA EndKeeps ==
    ASSUME IInv, NEW g \in Gates, NEW s \in GateStates, Update(g, s),
           Running(g), s.pc \in Ended, Monotone, WorkspaceOK', Sound(g)',
           UNCHANGED environment,
           gate[g].phase # "prepare" => UNCHANGED temporary,
           gate[g].phase = "prepare" =>
               \/ tempRoots' = tempRoots - 1 /\ leftovers' = leftovers
               \/ tempRoots' = tempRoots /\ leftovers' = leftovers + 1
    PROVE  IInv'
<1>1. /\ gate' \in [Gates -> GateStates]
      /\ gate'[g] = s
      /\ \A h \in Gates \ {g} : gate'[h] = gate[h]
  BY UpdateType DEF IInv, TypeOK
<1>2. ~(g \in Preparing)'
  BY <1>1 DEF Preparing, Running
<1>3. Cardinality(Preparing) \in Nat /\ tempRoots \in Nat /\ leftovers \in Nat
  BY PreparingFinite DEF IInv, TypeOK
<1>4. tempRoots = leftovers + Cardinality(Preparing)
  BY DEF IInv, TempRootsAccountedFor
<1>5. /\ tempRoots' \in Nat /\ leftovers' \in Nat
      /\ tempRoots' = leftovers' + Cardinality(Preparing)'
  <2>1. CASE gate[g].phase = "prepare"
    <3>1. g \in Preparing
      BY <2>1 DEF Preparing
    <3>2. /\ Cardinality(Preparing)' = Cardinality(Preparing) - 1
          /\ Cardinality(Preparing) > 0
      BY <1>1, <1>2, <3>1, PreparingFewer
    <3>. QED BY <1>3, <1>4, <2>1, <3>2
  <2>2. CASE gate[g].phase # "prepare"
    <3>1. g \notin Preparing
      BY <2>2 DEF Preparing
    <3>2. Preparing' = Preparing
      BY <1>1, <1>2, <3>1, PreparingSame
    <3>. QED BY <1>3, <1>4, <2>2, <3>2 DEF temporary
  <2>. QED BY <2>1, <2>2
<1>6. TypeOK'
  BY <1>1, <1>5 DEF IInv, TypeOK, WorkspaceOK, environment
<1>7. \A h \in Gates : Sound(h)'
  BY <1>1, OthersSound
<1>. QED BY <1>5, <1>6, <1>7 DEF IInv, TempRootsAccountedFor, Sound

LEMMA FinallyKeeps ==
    ASSUME IInv, NEW g \in Gates, Finally(g) PROVE IInv'
<1>1. PICK cleaned \in BOOLEAN :
          /\ gate[g].phase = "apply" => cleaned
          /\ Update(g, [gate[g] EXCEPT
                 !.pc = IF gate[g].why = "none" /\ cleaned THEN "passed" ELSE "failed"])
          /\ tempRoots' = IF gate[g].phase = "prepare" /\ cleaned THEN tempRoots - 1
                          ELSE tempRoots
          /\ leftovers' = IF cleaned THEN leftovers ELSE leftovers + 1
  BY DEF Finally
<1> DEFINE pc == IF gate[g].why = "none" /\ cleaned THEN "passed" ELSE "failed"
           s == [gate[g] EXCEPT !.pc = pc]
<1>2. gate[g] \in GateStates /\ gate[g].pc = "finally" /\ Running(g)
  BY DEF IInv, TypeOK, Finally, Running, Ended
<1>3. pc \in {"passed", "failed"} /\ (pc = "passed" => gate[g].why = "none")
  OBVIOUS
<1>4. Update(g, s)
  BY <1>1
<1> HIDE DEF pc
<1>5. s \in GateStates
  BY <1>2, <1>3 DEF GateStates, Ended
<1>6. /\ s.pc = pc /\ s.phase = gate[g].phase /\ s.next = gate[g].next
      /\ s.paths = gate[g].paths /\ s.calledGit = gate[g].calledGit
      /\ s.why = gate[g].why /\ gate[g].phase \in {"prepare", "apply"}
  BY <1>2 DEF GateStates
<1>7. gate'[g] = s /\ UNCHANGED workspace /\ UNCHANGED environment
  BY <1>4, <1>5, UpdateType DEF IInv, TypeOK, Finally
<1> HIDE DEF s
<1>8. Control(g)'
  BY <1>3, <1>6, <1>7 DEF Control
<1>9. Holds(g)'
  BY <1>3, <1>6, <1>7 DEF IInv, Holds, workspace
<1>10. Sentinel(g)'
  BY <1>2, <1>3, <1>6, <1>7 DEF IInv, Sentinel, workspace
<1>11. Monotone /\ WorkspaceOK' /\ s.pc \in Ended
  BY <1>3, <1>6, <1>7, SameWorkspace DEF IInv, Ended
<1>12. gate[g].phase # "prepare" => UNCHANGED temporary
  BY <1>1, <1>6 DEF temporary
<1>13. gate[g].phase = "prepare" =>
           \/ tempRoots' = tempRoots - 1 /\ leftovers' = leftovers
           \/ tempRoots' = tempRoots /\ leftovers' = leftovers + 1
  BY <1>1
<1>. QED BY <1>2, <1>4, <1>5, <1>7, <1>8, <1>9, <1>10, <1>11, <1>12, <1>13, EndKeeps
         DEF Sound

(* A process that is not running holds nothing.                            *)
LEMMA NewGateFacts ==
    /\ NewGate.pc = "idle" /\ NewGate.phase = "prepare" /\ NewGate.next = 1
    /\ NewGate.calledGit = FALSE /\ NewGate.why = "none"
BY DEF NewGate

LEMMA KillKeeps ==
    ASSUME IInv, NEW g \in Gates, Kill(g) PROVE IInv'
<1>1. Running(g) /\ Update(g, NewGate) /\ NewGate.pc \in Ended
  BY NewGateFacts DEF Kill, Ended
<1>2. gate'[g] = NewGate
  BY <1>1, NewGateType, UpdateType DEF IInv, TypeOK
<1>3. Sound(g)'
  BY <1>2, NewGateFacts DEF Sound, Control, Holds, Sentinel
<1>4. /\ inputs' \in [valid : BOOLEAN, bundle : Bundles]
      /\ command' \in Commands
  BY DEF Kill, IInv, TypeOK, Commands
<1>5. Monotone /\ WorkspaceOK'
  BY <1>4 DEF Kill, IInv, TypeOK, Monotone, WorkspaceOK
<1>6. /\ UNCHANGED environment
      /\ gate[g].phase # "prepare" => UNCHANGED temporary
      /\ gate[g].phase = "prepare" =>
            tempRoots' = tempRoots /\ leftovers' = leftovers + 1
  BY DEF Kill, temporary
<1>. QED BY <1>1, <1>3, <1>5, <1>6, NewGateType, EndKeeps

LEMMA StartKeeps ==
    ASSUME IInv, NEW g \in Gates, NEW phase \in {"prepare", "apply"},
           Start(g, phase)
    PROVE  IInv'
<1> DEFINE pc == IF phase = "prepare" THEN "verify" ELSE "readInputs"
           approved == IF phase = "apply" THEN granted ELSE NoCommand
           s == [NewGate EXCEPT !.phase = phase, !.pc = pc, !.approved = approved]
<1>1. approved \in Commands
  BY NoCommandType DEF IInv, TypeOK
<1>2. /\ pc \in {"verify", "readInputs"}
      /\ pc = "verify" <=> phase = "prepare"
  OBVIOUS
<1>3. Update(g, s)
  BY DEF Start
<1> HIDE DEF pc, approved
<1>4. s \in GateStates
  BY <1>1, <1>2, NewGateType DEF GateStates, Steps
<1>5. /\ s.pc = pc /\ s.phase = phase /\ s.next = 1
      /\ s.calledGit = FALSE /\ s.why = "none"
  BY NewGateType, NewGateFacts DEF GateStates
<1>6. /\ gate' \in [Gates -> GateStates]
      /\ gate'[g] = s
      /\ \A h \in Gates \ {g} : gate'[h] = gate[h]
  BY <1>3, <1>4, UpdateType DEF IInv, TypeOK
<1> HIDE DEF s
<1>7. Monotone
  BY DEF Start, workspace, Monotone
<1>8. Sound(g)'
  BY <1>2, <1>5, <1>6 DEF Sound, Control, Holds, Sentinel
<1>9. \A h \in Gates : Sound(h)'
  BY <1>6, <1>7, <1>8, OthersSound
<1>10. g \notin Preparing
  BY DEF Start, Preparing
<1>11. TempRootsAccountedFor'
  <2>1. Cardinality(Preparing) \in Nat /\ tempRoots \in Nat /\ leftovers \in Nat
    BY PreparingFinite DEF IInv, TypeOK
  <2>2. CASE phase = "prepare"
    <3>1. (g \in Preparing)'
      BY <1>2, <1>5, <1>6, <2>2 DEF Preparing, Running, Ended
    <3>2. Cardinality(Preparing)' = Cardinality(Preparing) + 1
      BY <1>6, <1>10, <3>1, PreparingMore
    <3>. QED BY <2>1, <2>2, <3>2 DEF IInv, TempRootsAccountedFor, Start
  <2>3. CASE phase = "apply"
    <3>1. ~(g \in Preparing)'
      BY <1>5, <1>6, <2>3 DEF Preparing
    <3>2. Preparing' = Preparing
      BY <1>6, <1>10, <3>1, PreparingSame
    <3>. QED BY <2>3, <3>2 DEF IInv, TempRootsAccountedFor, Start
  <2>. QED BY <2>2, <2>3
<1>12. TypeOK'
  BY <1>6 DEF IInv, TypeOK, Start, workspace
<1>. QED BY <1>9, <1>11, <1>12 DEF IInv, Sound

-----------------------------------------------------------------------------
(* The operator, the maintainers, and steps of the rest of the world.      *)
LEMMA QuietKeeps ==
    ASSUME IInv, UNCHANGED <<workspace, temporary, gate>>, TypeOK'
    PROVE  IInv'
<1>1. TempRootsAccountedFor'
  BY DEF IInv, TempRootsAccountedFor, Preparing, Running, temporary
<1>2. \A g \in Gates : Sound(g)'
  BY DEF IInv, Sound, Control, Holds, Sentinel, workspace
<1>. QED BY <1>1, <1>2 DEF IInv, Sound

LEMMA GrantKeeps == ASSUME IInv, Grant PROVE IInv'
<1>1. TypeOK'
  BY DEF Grant, IInv, TypeOK, workspace, temporary
<1>. QED BY <1>1, QuietKeeps DEF Grant

LEMMA EditKeeps ==
    ASSUME IInv, NEW S \in EditSets, NEW release \in BOOLEAN, Edit(S, release)
    PROVE  IInv'
<1>1. source' \in [Artifacts -> [version : Versions, revision : Revisions]]
  <2> SUFFICES ASSUME NEW a \in Artifacts
               PROVE  (IF a \notin S THEN source[a]
                       ELSE IF release THEN [source[a] EXCEPT !.version = @ + 1]
                       ELSE [source[a] EXCEPT !.revision = (@ % MaxRevision) + 1])
                      \in [version : Versions, revision : Revisions]
    BY DEF Edit
  <2>1. source[a] \in [version : 1..MaxVersion, revision : 1..MaxRevision]
    BY DEF IInv, TypeOK, Versions, Revisions
  <2>2. CASE a \in S /\ release
    BY <2>1, <2>2, BoundsAssumption DEF Edit, Versions, Revisions
  <2>3. CASE a \in S /\ ~release
    <3>1. (source[a].revision % MaxRevision) + 1 \in 1..MaxRevision
      BY <2>1, BoundsAssumption
    <3>. QED BY <2>1, <2>3, <3>1 DEF Versions, Revisions
  <2>4. CASE a \notin S
    BY <2>1, <2>4 DEF Versions, Revisions
  <2>. QED BY <2>2, <2>3, <2>4
<1>2. TypeOK'
  BY <1>1 DEF Edit, IInv, TypeOK, workspace, temporary
<1>. QED BY <1>2, QuietKeeps DEF Edit

LEMMA StutterKeeps == ASSUME IInv, UNCHANGED vars PROVE IInv'
<1>1. UNCHANGED <<workspace, temporary, environment, gate>>
  BY DEF vars
<1>2. TypeOK'
  BY <1>1 DEF IInv, TypeOK, workspace, temporary, environment
<1>. QED BY <1>1, <1>2, QuietKeeps

-----------------------------------------------------------------------------
(* The inductive invariant (cross-repo.ts:78-131): in every reachable      *)
(* state each process holds only tarballs that are there, knows how many   *)
(* it has packed, and has a Git call it caused in the log.                 *)
THEOREM GateInductive == Spec => []IInv
<1>1. Init => IInv
  <2> SUFFICES ASSUME Init PROVE IInv
    OBVIOUS
  <2>1. TypeOK
    BY InitTypeOK
  <2>2. \A g \in Gates : gate[g] = NewGate
    BY DEF Init
  <2>3. \A g \in Gates : Control(g) /\ Holds(g) /\ Sentinel(g)
    BY <2>2, NewGateFacts DEF Control, Holds, Sentinel
  <2>4. Preparing = {}
    BY <2>2, NewGateFacts DEF Preparing, Running, Ended
  <2>5. Cardinality(Preparing) = 0
    BY <2>4, FS_EmptySet
  <2>6. TempRootsAccountedFor
    BY <2>5 DEF Init, TempRootsAccountedFor
  <2>. QED BY <2>1, <2>3, <2>6 DEF IInv
<1>2. IInv /\ [Next]_vars => IInv'
  <2> SUFFICES ASSUME IInv, [Next]_vars PROVE IInv'
    OBVIOUS
  <2>1. CASE Grant
    BY <2>1, GrantKeeps
  <2>2. ASSUME NEW S \in EditSets, NEW release \in BOOLEAN, Edit(S, release)
        PROVE  IInv'
    BY <2>2, EditKeeps
  <2>3. ASSUME NEW g \in Gates, NEW phase \in {"prepare", "apply"}, Start(g, phase)
        PROVE  IInv'
    BY <2>3, StartKeeps
  <2>4. ASSUME NEW g \in Gates, Advance(g)
        PROVE  IInv'
    BY <2>4, VerifyKeeps, ListKeeps, PackKeeps, TakeKeeps, PublishFirstKeeps,
       PublishSecondKeeps, AssertHarnessKeeps, WriteInputsKeeps, ReadInputsKeeps,
       SentinelKeeps, PreludePrepareKeeps, PreludeApplyKeeps, CheckKeeps,
       WriteCommandKeeps, ToolFailureKeeps, FinallyKeeps DEF Advance
  <2>5. ASSUME NEW g \in Gates, Kill(g)
        PROVE  IInv'
    BY <2>5, KillKeeps
  <2>6. CASE UNCHANGED vars
    BY <2>6, StutterKeeps
  <2>. QED BY <2>1, <2>2, <2>3, <2>4, <2>5, <2>6 DEF Next
<1>. QED BY <1>1, <1>2, PTL DEF Spec

(* Type correctness (cross-repo.ts:78-131), in particular that APPLY and   *)
(* PREPARE hand Prelude four tarballs that exist.                          *)
THEOREM GateTypeCorrect == Spec => []TypeOK
<1>1. IInv => TypeOK
  BY DEF IInv
<1>. QED BY <1>1, GateInductive, PTL

(* The sentinel (cross-repo.ts:86, 105, 374-382): whatever gates overlap   *)
(* in a run root, one that passes made no Git call.                        *)
THEOREM SentinelIsHonest == Spec => []NoGitBehindAPass
<1>1. IInv => NoGitBehindAPass
  BY DEF IInv, Sentinel, NoGitBehindAPass
<1>. QED BY <1>1, GateInductive, PTL

(* Temporary roots (cross-repo.ts:42, 122-131): those on disk are the      *)
(* running PREPAREs' and the ones left by a kill, by a copy of the         *)
(* publication evidence that failed or by a removal that failed.           *)
THEOREM TempRootsExact == Spec => []TempRootsAccountedFor
<1>1. IInv => TempRootsAccountedFor
  BY DEF IInv
<1>. QED BY <1>1, GateInductive, PTL

-----------------------------------------------------------------------------
(* Approvals: what an APPLY delivers is what was approved.                 *)

(* The step of one process.                                                *)
Alone(g) == \A h \in Gates \ {g} : gate'[h] = gate[h]

LEMMA UpdateFacts ==
    ASSUME TypeOK, NEW g \in Gates, NEW s, Update(g, s)
    PROVE  Alone(g) /\ gate'[g] = s
BY DEF TypeOK, Update, Alone

LEMMA ApprovalsSame ==
    ASSUME NEW g \in Gates, Alone(g), gate'[g].approved = gate[g].approved,
           UNCHANGED <<command, granted>>
    PROVE  Approvals' = Approvals
<1>1. \A h \in Gates : gate'[h].approved = gate[h].approved
  BY DEF Alone
<1>. QED BY <1>1 DEF Approvals

(* The others do not run, so what is said of them does not depend on the   *)
(* run root.                                                               *)
LEMMA OthersLineage ==
    ASSUME NEW g \in Gates, Running(g), Exclusive, Alone(g),
           \A h \in Gates : Lineage(h)
    PROVE  \A h \in Gates \ {g} : Lineage(h)'
<1> SUFFICES ASSUME NEW h \in Gates \ {g} PROVE Lineage(h)'
  OBVIOUS
<1>1. gate[h].pc \in {"idle", "passed", "failed"} /\ gate'[h] = gate[h]
  BY DEF Exclusive, Running, Ended, Alone
<1>. QED BY <1>1 DEF Lineage

LEMMA ExclusiveKeeps ==
    ASSUME NEW g \in Gates, Running(g), Exclusive, Alone(g)
    PROVE  Exclusive'
<1>1. \A h \in Gates : Running(h)' => h = g
  BY DEF Exclusive, Running, Alone
<1>. QED BY <1>1 DEF Exclusive

(* What is left to show of a step that writes no evidence.                 *)
LEMMA StepApproval ==
    ASSUME IInv, ApprovalInv, NEW g \in Gates, Running(g), Alone(g),
           gate'[g].approved = gate[g].approved,
           UNCHANGED <<inputs, command, granted, overlapped>>, Monotone,
           EvidenceIntact',
           ~overlapped /\ Undisturbed /\ (\A f : Circulates(f)' <=> Circulates(f)) => Lineage(g)'
    PROVE  ApprovalInv'
<1>1. Approvals' = Approvals
  BY ApprovalsSame
<1>2. \A f : Circulates(f)' <=> Circulates(f)
  BY <1>1 DEF Circulates
<1>3. CASE overlapped
  BY <1>3 DEF ApprovalInv
<1>4. CASE ~overlapped
  <2>1. Undisturbed
    BY <1>4 DEF ApprovalInv
  <2>2. Exclusive'
    BY <2>1, ExclusiveKeeps DEF Undisturbed
  <2>3. NamesTaken'
    BY <1>2, <2>1 DEF Undisturbed, NamesTaken, Monotone
  <2>4. \A c \in Approvals' : Binding(c)'
    BY <1>1, <2>1 DEF Undisturbed, Binding
  <2>5. \A h \in Gates : Lineage(h)'
    BY <1>2, <1>4, <2>1, OthersLineage DEF Undisturbed
  <2>. QED BY <2>2, <2>3, <2>4, <2>5 DEF ApprovalInv, Undisturbed
<1>. QED BY <1>3, <1>4

LEMMA SameEvidence ==
    ASSUME ApprovalInv, UNCHANGED workspace
    PROVE  EvidenceIntact' /\ Monotone /\ UNCHANGED <<inputs, command>>
BY DEF ApprovalInv, EvidenceIntact, Monotone, workspace

LEMMA FailApproval ==
    ASSUME IInv, ApprovalInv, NEW g \in Gates, NEW reason \in {"tool", "inputs", "git"},
           Running(g), Fail(g, reason), UNCHANGED workspace
    PROVE  ApprovalInv'
<1>1. gate[g] \in GateStates
  BY DEF IInv, TypeOK
<1>2. Alone(g) /\ gate'[g] = [gate[g] EXCEPT !.pc = "finally", !.why = reason]
  BY UpdateFacts DEF IInv, Fail, Step
<1>3. /\ gate'[g].pc = "finally" /\ gate'[g].why = reason
      /\ gate'[g].phase = gate[g].phase /\ gate'[g].approved = gate[g].approved
  BY <1>1, <1>2 DEF GateStates
<1>4. Undisturbed => Lineage(g)'
  BY <1>3 DEF Undisturbed, Lineage
<1>5. UNCHANGED <<granted, overlapped>>
  BY DEF Fail, Step, environment
<1>. QED BY <1>2, <1>3, <1>4, <1>5, SameEvidence, StepApproval

(* A step of PREPARE to the next artifact, or within one.                  *)
LEMMA MoveApproval ==
    ASSUME IInv, ApprovalInv, NEW g \in Gates,
           NEW step \in Steps \cup {"finally"}, Running(g), Goto(g, step),
           UNCHANGED workspace,
           Undisturbed /\ (\A f : Circulates(f)' <=> Circulates(f)) => Lineage(g)'
    PROVE  ApprovalInv'
<1>1. Alone(g)
  BY UpdateFacts DEF IInv, Goto, Step
<1>2. gate'[g].approved = gate[g].approved
  BY GotoFacts DEF IInv
<1>3. UNCHANGED <<granted, overlapped>>
  BY DEF Goto, Step, environment
<1>. QED BY <1>1, <1>2, <1>3, SameEvidence, StepApproval

LEMMA ListNextApproval ==
    ASSUME IInv, ApprovalInv, NEW g \in Gates,
           gate[g].pc \in {"verify", "publishSecond", "assertHarness"},
           Goto(g, "list"), UNCHANGED workspace
    PROVE  ApprovalInv'
<1>1. "list" \in Steps \cup {"finally"} /\ Running(g)
  BY DEF Steps, Running, Ended
<1>2. /\ gate'[g].pc = "list" /\ gate'[g].phase = gate[g].phase
      /\ gate'[g].next = gate[g].next /\ gate'[g].paths = gate[g].paths
      /\ gate'[g].approved = gate[g].approved
  BY <1>1, GotoFacts DEF IInv
<1>3. Undisturbed /\ (\A f : Circulates(f)' <=> Circulates(f)) => Lineage(g)'
  BY <1>2 DEF Undisturbed, Lineage
<1>. QED BY <1>1, <1>3, MoveApproval

LEMMA VerifyApproval ==
    ASSUME IInv, ApprovalInv, NEW g \in Gates, VerifyRepositories(g) PROVE ApprovalInv'
BY ListNextApproval DEF VerifyRepositories

LEMMA PublishSecondApproval ==
    ASSUME IInv, ApprovalInv, NEW g \in Gates, PublishSecond(g) PROVE ApprovalInv'
<1>1. CASE Goto(g, "list")
  BY <1>1, ListNextApproval DEF PublishSecond
<1>2. CASE Fail(g, "tool")
  BY <1>2, FailApproval DEF PublishSecond, Running, Ended
<1>. QED BY <1>1, <1>2 DEF PublishSecond

LEMMA AssertHarnessApproval ==
    ASSUME IInv, ApprovalInv, NEW g \in Gates, AssertHarness(g) PROVE ApprovalInv'
<1>1. CASE Goto(g, "list")
  BY <1>1, ListNextApproval DEF AssertHarness
<1>2. CASE Fail(g, "tool")
  BY <1>2, FailApproval DEF AssertHarness, Running, Ended
<1>. QED BY <1>1, <1>2 DEF AssertHarness

LEMMA ToolFailureApproval ==
    ASSUME IInv, ApprovalInv, NEW g \in Gates, ToolFailure(g) PROVE ApprovalInv'
BY FailApproval DEF ToolFailure, Running, Steps, Ended

-----------------------------------------------------------------------------
(* pack(): from the listing on, every name in circulation is an old one.   *)

LEMMA ListApproval ==
    ASSUME IInv, ApprovalInv, NEW g \in Gates, ListPacks(g) PROVE ApprovalInv'
<1>1. gate[g] \in GateStates /\ Running(g) /\ gate[g].pc = "list"
  BY DEF IInv, TypeOK, ListPacks, Running, Ended
<1>2. Alone(g) /\ gate'[g] = [gate[g] EXCEPT !.pc = "pack", !.before = Packed]
  BY UpdateFacts DEF IInv, ListPacks, Step
<1>3. /\ gate'[g].pc = "pack" /\ gate'[g].before = Packed
      /\ gate'[g].phase = gate[g].phase /\ gate'[g].approved = gate[g].approved
      /\ gate'[g].next = gate[g].next /\ gate'[g].paths = gate[g].paths
  BY <1>1, <1>2 DEF GateStates
<1>4. ASSUME Undisturbed, \A f : Circulates(f)' <=> Circulates(f)
      PROVE  Lineage(g)'
  <2>1. \A f \in Files : Circulates(f)' => f \in Packed
    BY <1>4 DEF Undisturbed, NamesTaken, Packed
  <2>. QED BY <1>1, <1>3, <1>4, <2>1 DEF Undisturbed, Lineage
<1>5. UNCHANGED <<granted, overlapped>> /\ UNCHANGED workspace
  BY DEF ListPacks, Step, environment
<1>. QED BY <1>1, <1>2, <1>3, <1>4, <1>5, SameEvidence, StepApproval

LEMMA PackApproval ==
    ASSUME IInv, ApprovalInv, NEW g \in Gates, PackTarball(g) PROVE ApprovalInv'
<1> DEFINE new == source[Packing(g)]
           file == <<Packing(g), new.version>>
<1>1. /\ Goto(g, "take") /\ Running(g) /\ gate[g].pc = "pack"
      /\ "take" \in Steps \cup {"finally"}
  BY DEF PackTarball, Running, Ended, Steps
<1>2. gate[g].next # 5
  BY <1>1 DEF IInv, Control
<1>3. new.revision \in Revisions
  BY <1>2, PackingType DEF IInv
<1>4. packs' = [packs EXCEPT ![file] = new.revision] /\ new.revision # Absent
  BY <1>3 DEF PackTarball, Revisions, Absent
<1> HIDE DEF new, file
<1>5. Monotone /\ EvidenceIntact'
  BY <1>4 DEF PackTarball, IInv, TypeOK, Monotone, EvidenceIntact
<1>6. /\ gate'[g].pc = "take" /\ gate'[g].before = gate[g].before
      /\ gate'[g].phase = gate[g].phase /\ gate'[g].approved = gate[g].approved
      /\ gate'[g].next = gate[g].next /\ gate'[g].paths = gate[g].paths
  BY <1>1, GotoFacts DEF IInv
<1>7. ASSUME Undisturbed, \A f : Circulates(f)' <=> Circulates(f)
      PROVE  Lineage(g)'
  BY <1>1, <1>6, <1>7 DEF Undisturbed, Lineage
<1>8. Alone(g) /\ UNCHANGED <<granted, overlapped, inputs, command>>
  BY <1>1, UpdateFacts DEF IInv, PackTarball, Goto, Step, environment
<1>. QED BY <1>1, <1>5, <1>6, <1>7, <1>8, StepApproval

LEMMA TakeApproval ==
    ASSUME IInv, ApprovalInv, NEW g \in Gates, TakeTarball(g) PROVE ApprovalInv'
<1> DEFINE created == Packed \ gate[g].before
<1>1. gate[g] \in GateStates /\ Running(g) /\ gate[g].pc = "take" /\ gate[g].next # 5
  BY DEF IInv, TypeOK, Control, TakeTarball, Running, Ended
<1>2. CASE Fail(g, "tool")
  BY <1>1, <1>2, FailApproval DEF TakeTarball
<1>3. CASE ~Fail(g, "tool")
  <2>1. PICK f \in created :
            Step(g, [gate[g] EXCEPT !.pc = AfterTaking(Packing(g)),
                                    !.next = @ + 1,
                                    !.before = {},
                                    !.paths[Packing(g)] = f])
    BY <1>3 DEF TakeTarball
  <2> DEFINE n == gate[g].next
             step == AfterTaking(PackOrder[n])
             paths == [gate[g].paths EXCEPT ![PackOrder[n]] = f]
  <2>2. n \in 1..4
    BY <1>1, PackingType DEF IInv
  <2>3. Alone(g) /\ gate'[g] = [gate[g] EXCEPT !.pc = step, !.next = n + 1,
                                               !.before = {}, !.paths = paths]
    BY <2>1, UpdateFacts DEF IInv, Step, Packing
  <2>4. step \in {"list", "publishFirst", "assertHarness", "writeInputs"}
    BY <2>2, AfterTakingFacts
  <2>5. /\ gate'[g].pc = step /\ gate'[g].next = n + 1 /\ gate'[g].paths = paths
        /\ gate'[g].phase = gate[g].phase /\ gate'[g].approved = gate[g].approved
    <3> HIDE DEF step, paths
    <3>. QED BY <1>1, <2>3 DEF GateStates
  <2>6. ASSUME Undisturbed, \A e : Circulates(e)' <=> Circulates(e)
        PROVE  Lineage(g)'
    <3>1. ~Circulates(f)
      BY <1>1, <2>6 DEF Undisturbed, Lineage, Packed
    <3>2. \A i \in 1..4 : i < n + 1 => ~Circulates(paths[PackOrder[i]])
      <4> SUFFICES ASSUME NEW i \in 1..4, i < n + 1
                   PROVE  ~Circulates(paths[PackOrder[i]])
        OBVIOUS
      <4>1. CASE PackOrder[i] = PackOrder[n]
        <5>1. paths[PackOrder[i]] = f
          BY <4>1, <1>1, <2>2, PackOrderFacts DEF GateStates
        <5>. QED BY <5>1, <3>1
      <4>2. CASE PackOrder[i] # PackOrder[n]
        <5>1. paths[PackOrder[i]] = gate[g].paths[PackOrder[i]] /\ i < n
          BY <4>2, <1>1, <2>2, PackOrderFacts DEF GateStates
        <5>. QED BY <5>1, <1>1, <2>6 DEF Undisturbed, Lineage
      <4>. QED BY <4>1, <4>2
    <3>3. gate'[g].phase = "prepare"
      BY <1>1, <2>5 DEF IInv, Control
    <3> HIDE DEF step, paths
    <3>. QED BY <2>4, <2>5, <2>6, <3>2, <3>3 DEF Lineage
  <2>7. UNCHANGED <<granted, overlapped>> /\ UNCHANGED workspace
    BY <2>1 DEF TakeTarball, Step, environment
  <2>. QED BY <1>1, <2>3, <2>5, <2>6, <2>7, SameEvidence, StepApproval
<1>. QED BY <1>2, <1>3

LEMMA PublishFirstApproval ==
    ASSUME IInv, ApprovalInv, NEW g \in Gates, PublishFirst(g) PROVE ApprovalInv'
<1>1. gate[g] \in GateStates /\ Running(g) /\ gate[g].pc = "publishFirst"
  BY DEF IInv, TypeOK, PublishFirst, Running, Ended
<1>2. Alone(g) /\ gate'[g] = [gate[g] EXCEPT !.pc = "publishSecond",
                              !.first = PinOf[source["harness"].revision]]
  BY UpdateFacts DEF IInv, PublishFirst, Step
<1>3. /\ gate'[g].pc = "publishSecond"
      /\ gate'[g].phase = gate[g].phase /\ gate'[g].approved = gate[g].approved
      /\ gate'[g].next = gate[g].next /\ gate'[g].paths = gate[g].paths
  BY <1>1, <1>2 DEF GateStates
<1>4. Undisturbed /\ (\A f : Circulates(f)' <=> Circulates(f)) => Lineage(g)'
  BY <1>1, <1>3 DEF Undisturbed, Lineage
<1>5. UNCHANGED <<granted, overlapped>> /\ UNCHANGED workspace
  BY DEF PublishFirst, Step, environment
<1>. QED BY <1>1, <1>2, <1>3, <1>4, <1>5, SameEvidence, StepApproval

-----------------------------------------------------------------------------
(* The evidence: four names that nobody knew.                              *)

LEMMA WriteInputsFacts ==
    ASSUME IInv, NEW g \in Gates, WriteInputs(g)
    PROVE  /\ gate[g].paths \in [Artifacts -> Files] /\ gate[g].next = 5
           /\ inputs'.valid = TRUE
           /\ \A a \in Artifacts : /\ inputs'.bundle[a].file = gate[g].paths[a]
                                   /\ inputs'.bundle[a].revision = packs[gate[g].paths[a]]
                                   /\ packs[gate[g].paths[a]] # Absent
           /\ inputs'.bundle = Content(gate[g].paths)
<1>1. gate[g].pc = "writeInputs" /\ gate[g].next = 5
  BY DEF IInv, Control, WriteInputs
<1>2. gate[g].paths \in [Artifacts -> Files]
  BY DEF IInv, TypeOK, GateStates
<1>3. \A a \in Artifacts : packs[gate[g].paths[a]] # Absent
  BY <1>1, PackOrderFacts DEF IInv, Holds
<1>. QED BY <1>1, <1>2, <1>3 DEF WriteInputs, Content

(* None of the names a PREPARE has taken circulates.                       *)
LEMMA FreshNames ==
    ASSUME Undisturbed, NEW g \in Gates, gate[g].pc = "writeInputs", gate[g].next = 5
    PROVE  \A a \in Artifacts : ~Circulates(gate[g].paths[a])
<1> SUFFICES ASSUME NEW a \in Artifacts PROVE ~Circulates(gate[g].paths[a])
  OBVIOUS
<1>1. PICK i \in 1..4 : PackOrder[i] = a
  BY PackOrderFacts
<1>2. i < 5 => ~Circulates(gate[g].paths[PackOrder[i]])
  BY DEF Undisturbed, Lineage
<1>. QED BY <1>1, <1>2

LEMMA WriteInputsApproval ==
    ASSUME IInv, ApprovalInv, NEW g \in Gates, WriteInputs(g) PROVE ApprovalInv'
<1>1. /\ Goto(g, "sentinel") /\ Running(g) /\ gate[g].pc = "writeInputs"
      /\ "sentinel" \in Steps \cup {"finally"}
  BY DEF WriteInputs, Running, Ended, Steps
<1>2. /\ gate'[g].pc = "sentinel" /\ gate'[g].paths = gate[g].paths
      /\ gate'[g].phase = gate[g].phase /\ gate'[g].approved = gate[g].approved
  BY <1>1, GotoFacts DEF IInv
<1>3. Alone(g) /\ UNCHANGED <<packs, command, granted, overlapped>>
  BY <1>1, UpdateFacts DEF IInv, WriteInputs, Goto, Step, environment
<1>4. EvidenceIntact'
  BY <1>3, WriteInputsFacts DEF EvidenceIntact
<1>5. CASE overlapped
  BY <1>3, <1>4, <1>5 DEF ApprovalInv
<1>6. CASE ~overlapped
  <2>1. Undisturbed
    BY <1>6 DEF ApprovalInv
  <2>2. Approvals' = Approvals
    BY <1>2, <1>3, ApprovalsSame
  <2>3. Exclusive'
    BY <1>1, <1>3, <2>1, ExclusiveKeeps DEF Undisturbed
  <2>4. NamesTaken'
    <3> SUFFICES ASSUME NEW f \in Files, Circulates(f)' PROVE packs[f] # Absent
      BY <1>3 DEF NamesTaken
    <3>1. CASE \E c \in Approvals, a \in Artifacts : c.bundle[a].file = f
      BY <3>1, <2>1 DEF Undisturbed, NamesTaken, Circulates
    <3>2. CASE \E a \in Artifacts : inputs'.bundle[a].file = f
      <4>1. PICK a \in Artifacts : inputs'.bundle[a].file = f
        BY <3>2
      <4>2. /\ inputs'.bundle[a].file = gate[g].paths[a]
            /\ packs[gate[g].paths[a]] # Absent
        BY WriteInputsFacts
      <4>. QED BY <4>1, <4>2
    <3>. QED BY <2>2, <3>1, <3>2 DEF Circulates
  <2>5. ASSUME NEW c \in Approvals PROVE Binding(c)'
    <3>1. Binding(c)
      BY <2>1 DEF Undisturbed
    <3>2. "harness" \in Artifacts
      BY DEF Artifacts
    <3>3. Circulates(c.bundle["harness"].file)
      BY <3>2 DEF Circulates
    <3>4. c.bundle["harness"].file # gate[g].paths["harness"]
      BY <1>1, <2>1, <3>2, <3>3, FreshNames, WriteInputsFacts
    <3>5. c.bundle["harness"].file # inputs'.bundle["harness"].file
      BY <3>2, <3>4, WriteInputsFacts
    <3>. QED BY <3>1, <3>5 DEF Binding
  <2>6. Lineage(g)'
    <3>1. inputs'.bundle = Content(gate[g].paths)' /\ inputs'.valid
      BY ZenonT(30), <1>2, <1>3, WriteInputsFacts DEF Content
    <3>2. gate[g].phase = "prepare"
      BY <1>1 DEF IInv, Control
    <3>. QED BY <1>2, <3>1, <3>2 DEF Lineage
  <2>7. \A h \in Gates : Lineage(h)'
    BY <1>1, <1>3, <2>1, <2>6, OthersLineage DEF Undisturbed
  <2>. QED BY <1>4, <2>2, <2>3, <2>4, <2>5, <2>7 DEF ApprovalInv, Undisturbed
<1>. QED BY <1>5, <1>6

-----------------------------------------------------------------------------
(* From the evidence on.                                                   *)

LEMMA ReadInputsApproval ==
    ASSUME IInv, ApprovalInv, NEW g \in Gates, ReadInputs(g) PROVE ApprovalInv'
<1> DEFINE paths == [a \in Artifacts |-> inputs.bundle[a].file]
<1>1. gate[g] \in GateStates /\ Running(g) /\ UNCHANGED workspace
  BY DEF IInv, TypeOK, ReadInputs, Running, Ended
<1>2. CASE Fail(g, "inputs")
  BY <1>1, <1>2, FailApproval
<1>3. CASE /\ inputs.valid /\ inputs.bundle = Content(paths)
           /\ Step(g, [gate[g] EXCEPT !.pc = "sentinel", !.paths = paths])
  <2> HIDE DEF paths
  <2>1. /\ Alone(g)
        /\ gate'[g] = [gate[g] EXCEPT !.pc = "sentinel", !.paths = paths]
    BY <1>3, UpdateFacts DEF IInv, Step
  <2>2. /\ gate'[g].pc = "sentinel" /\ gate'[g].paths = paths
        /\ gate'[g].phase = gate[g].phase /\ gate'[g].approved = gate[g].approved
    BY <1>1, <2>1 DEF GateStates
  <2>3. inputs'.valid /\ inputs'.bundle = Content(gate[g].paths)'
    BY <1>1, <1>3, <2>2 DEF workspace, Content
  <2>4. Undisturbed => Lineage(g)'
    BY <2>2, <2>3 DEF Undisturbed, Lineage
  <2>5. UNCHANGED <<granted, overlapped>>
    BY <1>3 DEF Step, environment
  <2>. QED BY <1>1, <2>1, <2>2, <2>4, <2>5, SameEvidence, StepApproval
<1>. QED BY <1>2, <1>3 DEF ReadInputs

LEMMA SentinelApproval ==
    ASSUME IInv, ApprovalInv, NEW g \in Gates, InstallGitSentinel(g) PROVE ApprovalInv'
<1>1. /\ Goto(g, "prelude") /\ Running(g) /\ gate[g].pc = "sentinel"
      /\ "prelude" \in Steps \cup {"finally"} /\ UNCHANGED workspace
  BY DEF InstallGitSentinel, Running, Ended, Steps
<1>2. /\ gate'[g].pc = "prelude" /\ gate'[g].paths = gate[g].paths
      /\ gate'[g].phase = gate[g].phase /\ gate'[g].approved = gate[g].approved
  BY <1>1, GotoFacts DEF IInv
<1>3. ASSUME Undisturbed PROVE Lineage(g)'
  <2>1. inputs'.valid /\ inputs'.bundle = Content(gate[g].paths)'
    BY <1>1, <1>2, <1>3 DEF Undisturbed, Lineage, workspace, Content
  <2>. QED BY <1>2, <1>3, <2>1 DEF Undisturbed, Lineage
<1>. QED BY <1>1, <1>3, MoveApproval

(* An approval that Prelude accepts is for the tarballs of the evidence.   *)
LEMMA ApprovedBundle ==
    ASSUME Undisturbed, NEW g \in Gates, gate[g].phase = "apply",
           \A t \in Targets : gate[g].approved.plans[t] = inputs.bundle["harness"]
    PROVE  gate[g].approved.bundle = inputs.bundle
<1>1. gate[g].approved \in Approvals
  BY DEF Undisturbed, Lineage, Approvals
<1>2. Binding(gate[g].approved) /\ "single" \in Targets
  BY <1>1 DEF Undisturbed, Targets
<1>3. gate[g].approved.bundle["harness"] = inputs.bundle["harness"]
  BY <1>2 DEF Binding
<1>. QED BY <1>2, <1>3 DEF Binding

LEMMA ConvergeApproval ==
    ASSUME IInv, ApprovalInv, NEW g \in Gates, NEW ok \in BOOLEAN, Converge(g, ok),
           ok /\ gate[g].phase = "prepare" =>
               \A t \in Targets : plans'[t] = Content(gate[g].paths)["harness"],
           ok /\ gate[g].phase = "apply" =>
               \A t \in Targets : gate[g].approved.plans[t] = Content(gate[g].paths)["harness"]
    PROVE  ApprovalInv'
<1>1. PICK git \in BOOLEAN :
          /\ gitLog' = (gitLog \/ git)
          /\ Step(g, [gate[g] EXCEPT !.pc = IF ok THEN "check" ELSE "finally",
                                     !.delivered = Content(gate[g].paths),
                                     !.calledGit = git,
                                     !.why = IF ok THEN "none" ELSE "tool"])
  BY DEF Converge
<1> DEFINE bundle == Content(gate[g].paths)
           pc == IF ok THEN "check" ELSE "finally"
           reason == IF ok THEN "none" ELSE "tool"
<1>2. gate[g] \in GateStates /\ Running(g) /\ gate[g].pc = "prelude"
  BY DEF IInv, TypeOK, Converge, Running, Ended
<1>3. /\ Alone(g)
      /\ gate'[g] = [gate[g] EXCEPT !.pc = pc, !.delivered = bundle,
                                    !.calledGit = git, !.why = reason]
  BY <1>1, UpdateFacts DEF IInv, Step
<1>4. (pc = "check" /\ ok) \/ (pc = "finally" /\ reason = "tool")
  OBVIOUS
<1>5. /\ gate'[g].pc = pc /\ gate'[g].why = reason /\ gate'[g].delivered = bundle
      /\ gate'[g].phase = gate[g].phase /\ gate'[g].approved = gate[g].approved
  <2> HIDE DEF pc, reason, bundle
  <2>. QED BY <1>2, <1>3 DEF GateStates
<1>6. /\ UNCHANGED <<packs, inputs, command, repacked, granted, overlapped>>
      /\ Monotone /\ EvidenceIntact'
  BY <1>1 DEF Converge, Step, environment, Monotone, ApprovalInv, EvidenceIntact
<1>7. ASSUME Undisturbed PROVE Lineage(g)'
  <2>1. bundle = inputs.bundle /\ inputs.valid
    BY <1>2, <1>7 DEF Undisturbed, Lineage
  <2>2. gate[g].phase = "apply" => gate[g].approved.valid
    BY <1>7 DEF Undisturbed, Lineage
  <2>3. ok /\ gate[g].phase = "apply" => gate[g].approved.bundle = bundle
    BY <1>7, <2>1, ApprovedBundle
  <2>4. ok /\ gate[g].phase = "prepare" => \A t \in Targets : plans'[t] = bundle["harness"]
    OBVIOUS
  <2> HIDE DEF pc, reason, bundle
  <2>. QED BY <1>4, <1>5, <1>6, <2>1, <2>2, <2>3, <2>4 DEF Lineage
<1>. QED BY <1>2, <1>3, <1>5, <1>6, <1>7, StepApproval

LEMMA PreludePrepareApproval ==
    ASSUME IInv, ApprovalInv, NEW g \in Gates, PreludePrepare(g) PROVE ApprovalInv'
<1>1. PICK planned \in SUBSET Targets, ok \in BOOLEAN :
          /\ plans' = [t \in Targets |->
                IF t \in planned THEN Content(gate[g].paths)["harness"] ELSE plans[t]]
          /\ ok => planned = Targets
          /\ Converge(g, ok)
  BY DEF PreludePrepare
<1>2. gate[g].phase = "prepare"
  BY DEF PreludePrepare
<1>. QED BY <1>1, <1>2, ConvergeApproval

LEMMA PreludeApplyApproval ==
    ASSUME IInv, ApprovalInv, NEW g \in Gates, PreludeApply(g) PROVE ApprovalInv'
<1>1. PICK ok \in BOOLEAN :
          /\ ok => \A t \in Targets :
                gate[g].approved.plans[t] = Content(gate[g].paths)["harness"]
          /\ Converge(g, ok)
  BY DEF PreludeApply
<1>2. gate[g].phase = "apply"
  BY DEF PreludeApply
<1>. QED BY <1>1, <1>2, ConvergeApproval

LEMMA CheckApproval ==
    ASSUME IInv, ApprovalInv, NEW g \in Gates, CheckGitLog(g) PROVE ApprovalInv'
<1>1. Running(g) /\ gate[g].pc = "check" /\ UNCHANGED workspace
  BY DEF CheckGitLog, Running, Ended
<1>2. CASE gitLog
  BY <1>1, <1>2, FailApproval DEF CheckGitLog
<1>3. CASE ~gitLog
  <2> DEFINE step == IF gate[g].phase = "prepare" THEN "writeCommand" ELSE "finally"
  <2>1. Goto(g, step)
    BY <1>3 DEF CheckGitLog
  <2>2. step \in Steps \cup {"finally"} /\ step \in {"writeCommand", "finally"}
    BY DEF Steps
  <2> HIDE DEF step
  <2>3. /\ gate'[g].pc = step /\ gate'[g].delivered = gate[g].delivered
        /\ gate'[g].phase = gate[g].phase /\ gate'[g].approved = gate[g].approved
    BY <2>1, <2>2, GotoFacts DEF IInv
  <2>4. Undisturbed => Lineage(g)'
    BY <1>1, <2>2, <2>3 DEF Undisturbed, Lineage, workspace
  <2>. QED BY <1>1, <2>1, <2>2, <2>4, MoveApproval
<1>. QED BY <1>2, <1>3

-----------------------------------------------------------------------------
(* Steps that change which approvals there are.                            *)

LEMMA WriteCommandApproval ==
    ASSUME IInv, ApprovalInv, NEW g \in Gates, WriteCommand(g) PROVE ApprovalInv'
<1>1. /\ Goto(g, "finally") /\ Running(g) /\ gate[g].pc = "writeCommand"
      /\ "finally" \in Steps \cup {"finally"}
  BY DEF WriteCommand, Running, Ended
<1>2. /\ gate'[g].pc = "finally" /\ gate'[g].phase = gate[g].phase
      /\ gate'[g].approved = gate[g].approved
  BY <1>1, GotoFacts DEF IInv
<1>3. /\ Alone(g)
      /\ UNCHANGED <<packs, inputs, plans, repacked, granted, overlapped>>
  BY <1>1, UpdateFacts DEF IInv, WriteCommand, Goto, Step, environment
<1>4. EvidenceIntact'
  BY <1>3 DEF ApprovalInv, EvidenceIntact
<1>5. CASE overlapped
  BY <1>3, <1>4, <1>5 DEF ApprovalInv
<1>6. CASE ~overlapped
  <2>1. Undisturbed
    BY <1>6 DEF ApprovalInv
  <2>2. gate[g].phase = "prepare"
    BY <1>1 DEF IInv, Control
  <2>3. /\ command'.valid /\ command'.bundle = inputs.bundle
        /\ \A t \in Targets : command'.plans[t] = inputs.bundle["harness"]
        /\ inputs.valid
    BY <1>1, <2>1, <2>2 DEF WriteCommand, Undisturbed, Lineage
  <2>4. \A h \in Gates : gate'[h].approved = gate[h].approved
    BY <1>2, <1>3 DEF Alone
  <2>5. Approvals' \subseteq Approvals \cup {command'}
    BY <1>3, <2>4 DEF Approvals
  <2>6. \A f : Circulates(f)' => Circulates(f)
    BY <1>3, <2>3, <2>5 DEF Circulates
  <2>7. Exclusive'
    BY <1>1, <1>3, <2>1, ExclusiveKeeps DEF Undisturbed
  <2>8. NamesTaken'
    BY <1>3, <2>1, <2>6 DEF Undisturbed, NamesTaken
  <2>9. \A c \in Approvals' : Binding(c)'
    BY <1>3, <2>1, <2>3, <2>5 DEF Undisturbed, Binding
  <2>10. Lineage(g)'
    BY <1>2, <2>2 DEF Lineage
  <2>11. \A h \in Gates : Lineage(h)'
    BY <1>1, <1>3, <2>1, <2>10, OthersLineage DEF Undisturbed
  <2>. QED BY <1>4, <2>7, <2>8, <2>9, <2>11 DEF ApprovalInv, Undisturbed
<1>. QED BY <1>5, <1>6

(* Evidence and approvals may disappear but not change.                    *)
LEMMA ShrinkFacts ==
    ASSUME Undisturbed, Approvals' \subseteq Approvals,
           inputs'.bundle = inputs.bundle, inputs'.valid => inputs.valid,
           UNCHANGED packs
    PROVE  /\ \A f : Circulates(f)' => Circulates(f)
           /\ NamesTaken'
           /\ \A c \in Approvals' : Binding(c)'
<1>1. \A f : Circulates(f)' => Circulates(f)
  BY DEF Circulates
<1>2. NamesTaken'
  BY <1>1 DEF Undisturbed, NamesTaken
<1>3. \A c \in Approvals' : Binding(c)'
  BY DEF Undisturbed, Binding
<1>. QED BY <1>1, <1>2, <1>3

LEMMA FinallyApproval ==
    ASSUME IInv, ApprovalInv, NEW g \in Gates, Finally(g) PROVE ApprovalInv'
<1>1. PICK cleaned \in BOOLEAN :
          Update(g, [gate[g] EXCEPT
              !.pc = IF gate[g].why = "none" /\ cleaned THEN "passed" ELSE "failed"])
  BY DEF Finally
<1> DEFINE pc == IF gate[g].why = "none" /\ cleaned THEN "passed" ELSE "failed"
<1>2. gate[g] \in GateStates /\ gate[g].pc = "finally" /\ Running(g)
  BY DEF IInv, TypeOK, Finally, Running, Ended
<1>3. Alone(g) /\ gate'[g] = [gate[g] EXCEPT !.pc = pc]
  BY <1>1, UpdateFacts DEF IInv
<1>4. pc \in {"passed", "failed"} /\ (pc = "passed" => gate[g].why = "none")
  OBVIOUS
<1> HIDE DEF pc
<1>5. /\ gate'[g].pc = pc /\ gate'[g].delivered = gate[g].delivered
      /\ gate'[g].phase = gate[g].phase /\ gate'[g].approved = gate[g].approved
  BY <1>2, <1>3 DEF GateStates
<1>6. Undisturbed => Lineage(g)'
  BY <1>2, <1>4, <1>5 DEF Undisturbed, Lineage
<1>7. UNCHANGED <<granted, overlapped>> /\ UNCHANGED workspace
  BY DEF Finally, environment
<1>. QED BY <1>2, <1>3, <1>5, <1>6, <1>7, SameEvidence, StepApproval

LEMMA NewGateApproval ==
    NewGate.approved.valid = FALSE /\ NewGate.approved = NoCommand
BY DEF NewGate, NoCommand

LEMMA KillApproval ==
    ASSUME IInv, ApprovalInv, NEW g \in Gates, Kill(g) PROVE ApprovalInv'
<1>1. /\ Running(g) /\ Alone(g) /\ gate'[g] = NewGate
      /\ UNCHANGED <<packs, repacked, granted, overlapped>>
  BY UpdateFacts DEF IInv, Kill, environment
<1>2. /\ inputs'.bundle = inputs.bundle
      /\ inputs'.valid => inputs.valid
      /\ command' = command \/ command'.valid = FALSE
  BY DEF Kill, IInv, TypeOK, Commands
<1>3. EvidenceIntact'
  BY <1>1, <1>2 DEF ApprovalInv, EvidenceIntact
<1>4. CASE overlapped
  BY <1>1, <1>3, <1>4 DEF ApprovalInv
<1>5. CASE ~overlapped
  <2>1. Undisturbed
    BY <1>5 DEF ApprovalInv
  <2>2. \A h \in Gates : gate'[h].approved = gate[h].approved \/ ~gate'[h].approved.valid
    BY <1>1, NewGateApproval DEF Alone
  <2>3. Approvals' \subseteq Approvals
    BY <1>1, <1>2, <2>2 DEF Approvals
  <2>4. NamesTaken' /\ \A c \in Approvals' : Binding(c)'
    BY <1>1, <1>2, <2>1, <2>3, ShrinkFacts
  <2>5. Lineage(g)'
    BY <1>1, NewGateFacts DEF Lineage
  <2>6. \A h \in Gates : Lineage(h)'
    BY <1>1, <2>1, <2>5, OthersLineage DEF Undisturbed
  <2>7. Exclusive'
    BY <1>1, <2>1, ExclusiveKeeps DEF Undisturbed
  <2>. QED BY <1>3, <2>4, <2>6, <2>7 DEF ApprovalInv, Undisturbed
<1>. QED BY <1>4, <1>5

LEMMA StartApproval ==
    ASSUME IInv, ApprovalInv, NEW g \in Gates, NEW phase \in {"prepare", "apply"},
           Start(g, phase)
    PROVE  ApprovalInv'
<1> DEFINE pc == IF phase = "prepare" THEN "verify" ELSE "readInputs"
           approved == IF phase = "apply" THEN granted ELSE NoCommand
<1>1. /\ Alone(g)
      /\ gate'[g] = [NewGate EXCEPT !.phase = phase, !.pc = pc, !.approved = approved]
  BY UpdateFacts DEF IInv, Start
<1>2. \/ pc = "verify" /\ phase = "prepare"
      \/ pc = "readInputs" /\ phase = "apply"
  OBVIOUS
<1>3. /\ approved = granted \/ approved.valid = FALSE
      /\ phase = "apply" => approved.valid
  BY NewGateApproval DEF Start
<1> HIDE DEF pc, approved
<1>4. /\ gate'[g].pc = pc /\ gate'[g].phase = phase /\ gate'[g].next = 1
      /\ gate'[g].approved = approved
  BY <1>1, NewGateType, NewGateFacts DEF GateStates
<1>5. UNCHANGED <<packs, inputs, command, repacked, granted, plans>>
  BY DEF Start, workspace
<1>6. EvidenceIntact'
  BY <1>5 DEF ApprovalInv, EvidenceIntact
<1>7. CASE overlapped'
  BY <1>6, <1>7 DEF ApprovalInv
<1>8. CASE ~overlapped'
  <2>1. Undisturbed /\ \A h \in Gates \ {g} : ~Running(h)
    BY <1>8 DEF ApprovalInv, Start
  <2>2. \A h \in Gates \ {g} : gate'[h] = gate[h]
    BY <1>1 DEF Alone
  <2>3. Exclusive'
    BY <2>1, <2>2 DEF Exclusive, Running
  <2>4. Approvals' \subseteq Approvals
    BY <1>3, <1>4, <1>5, <2>2 DEF Approvals
  <2>5. NamesTaken' /\ \A c \in Approvals' : Binding(c)'
    BY <1>5, <2>1, <2>4, ShrinkFacts
  <2>6. Lineage(g)'
    BY <1>2, <1>3, <1>4 DEF Lineage
  <2>7. ASSUME NEW h \in Gates \ {g} PROVE Lineage(h)'
    <3>1. gate[h].pc \in {"idle", "passed", "failed"}
      BY <2>1 DEF Running, Ended
    <3>. QED BY <2>1, <2>2, <3>1 DEF Undisturbed, Lineage
  <2>. QED BY <1>6, <2>3, <2>5, <2>6, <2>7 DEF ApprovalInv, Undisturbed
<1>. QED BY <1>7, <1>8

(* Steps of the operator, the maintainers and the rest of the world.       *)
LEMMA QuietApproval ==
    ASSUME ApprovalInv, UNCHANGED <<workspace, gate, overlapped>>,
           granted' \in {granted, command}
    PROVE  ApprovalInv'
<1>1. UNCHANGED <<packs, inputs, plans, command, repacked, gate, overlapped>>
  BY DEF workspace
<1>2. EvidenceIntact'
  BY <1>1 DEF ApprovalInv, EvidenceIntact
<1>3. CASE overlapped
  BY <1>1, <1>2, <1>3 DEF ApprovalInv
<1>4. CASE ~overlapped
  <2>1. Undisturbed
    BY <1>4 DEF ApprovalInv
  <2>2. Approvals' \subseteq Approvals
    BY <1>1 DEF Approvals
  <2>3. /\ \A f : Circulates(f)' => Circulates(f)
        /\ NamesTaken' /\ \A c \in Approvals' : Binding(c)'
    BY <1>1, <2>1, <2>2, ShrinkFacts
  <2>4. Exclusive'
    BY <1>1, <2>1 DEF Undisturbed, Exclusive, Running
  <2>5. ASSUME NEW g \in Gates PROVE Lineage(g)'
    BY <1>1, <2>1, <2>3 DEF Undisturbed, Lineage, Content
  <2>. QED BY <1>2, <2>3, <2>4, <2>5 DEF ApprovalInv, Undisturbed
<1>. QED BY <1>3, <1>4

-----------------------------------------------------------------------------
(* The lineage of every approval and of every process (cross-repo.ts:78-   *)
(* 131): a PREPARE only takes names nobody knows, and once the digests are *)
(* on the evidence they are what a gate works with.                        *)
THEOREM ApprovalInductive == Spec => []ApprovalInv
<1>1. Init => ApprovalInv
  <2> SUFFICES ASSUME Init PROVE ApprovalInv
    OBVIOUS
  <2>1. \A g \in Gates : gate[g] = NewGate
    BY DEF Init
  <2>2. inputs.valid = FALSE /\ command = NoCommand /\ granted = NoCommand
    BY DEF Init
  <2>3. Approvals = {}
    BY <2>1, <2>2, NewGateApproval DEF Approvals
  <2>4. \A g \in Gates : Lineage(g) /\ ~Running(g)
    BY <2>1, NewGateFacts DEF Lineage, Running, Ended
  <2>5. EvidenceIntact /\ NamesTaken
    BY <2>2, <2>3 DEF EvidenceIntact, NamesTaken, Circulates
  <2>. QED BY <2>3, <2>4, <2>5 DEF ApprovalInv, Undisturbed, Exclusive
<1>2. IInv /\ ApprovalInv /\ [Next]_vars => ApprovalInv'
  <2> SUFFICES ASSUME IInv, ApprovalInv, [Next]_vars PROVE ApprovalInv'
    OBVIOUS
  <2>1. CASE Grant
    BY <2>1, QuietApproval DEF Grant
  <2>2. ASSUME NEW S \in EditSets, NEW release \in BOOLEAN, Edit(S, release)
        PROVE  ApprovalInv'
    BY <2>2, QuietApproval DEF Edit
  <2>3. ASSUME NEW g \in Gates, NEW phase \in {"prepare", "apply"}, Start(g, phase)
        PROVE  ApprovalInv'
    BY <2>3, StartApproval
  <2>4. ASSUME NEW g \in Gates, Advance(g)
        PROVE  ApprovalInv'
    BY <2>4, VerifyApproval, ListApproval, PackApproval, TakeApproval,
       PublishFirstApproval, PublishSecondApproval, AssertHarnessApproval,
       WriteInputsApproval, ReadInputsApproval, SentinelApproval,
       PreludePrepareApproval, PreludeApplyApproval, CheckApproval,
       WriteCommandApproval, ToolFailureApproval, FinallyApproval DEF Advance
  <2>5. ASSUME NEW g \in Gates, Kill(g)
        PROVE  ApprovalInv'
    BY <2>5, KillApproval
  <2>6. CASE UNCHANGED vars
    BY <2>6, QuietApproval DEF vars, environment
  <2>. QED BY <2>1, <2>2, <2>3, <2>4, <2>5, <2>6 DEF Next
<1>. QED BY <1>1, <1>2, GateInductive, PTL DEF Spec

(* "passed after exact approval" (cross-repo.ts:112, 180-197, 242-248):    *)
(* the four tarballs an APPLY passed with are those of the approved        *)
(* PREPARE, however many runs, failures and repacks came in between.       *)
THEOREM ApplyDeliversTheApproved == Spec => []AppliedIsApproved
<1>1. ApprovalInv => AppliedIsApproved
  BY DEF ApprovalInv, Undisturbed, Lineage, AppliedIsApproved, Applied
<1>. QED BY <1>1, ApprovalInductive, PTL

-----------------------------------------------------------------------------
(* Only WriteInputs makes evidence valid, with other bytes than before.    *)
LEMMA OnlyWriteInputs ==
    ASSUME IInv, [Next]_vars, inputs'.valid, inputs' # inputs
    PROVE  \E g \in Gates : WriteInputs(g)
<1>1. CASE UNCHANGED vars
  BY <1>1 DEF vars, workspace
<1>2. CASE Grant
  BY <1>2 DEF Grant, workspace
<1>3. ASSUME NEW S \in EditSets, NEW release \in BOOLEAN, Edit(S, release)
      PROVE  FALSE
  BY <1>3 DEF Edit, workspace
<1>4. ASSUME NEW g \in Gates, NEW phase \in {"prepare", "apply"}, Start(g, phase)
      PROVE  FALSE
  BY <1>4 DEF Start, workspace
<1>5. ASSUME NEW g \in Gates, Kill(g)
      PROVE  FALSE
  BY <1>5 DEF Kill, IInv, TypeOK
<1>6. ASSUME NEW g \in Gates, Advance(g), ~WriteInputs(g)
      PROVE  FALSE
  BY <1>6 DEF Advance, VerifyRepositories, ListPacks, PackTarball, TakeTarball,
     PublishFirst, PublishSecond, AssertHarness, ReadInputs, InstallGitSentinel,
     PreludePrepare, PreludeApply, Converge, CheckGitLog, WriteCommand,
     ToolFailure, Finally, workspace
<1>. QED BY <1>1, <1>2, <1>3, <1>4, <1>5, <1>6 DEF Next

(* packed-inputs.prepare.json (cross-repo.ts:160-176, 242-248): evidence   *)
(* that replaces evidence names four other files.                          *)
THEOREM EvidenceIsFresh == Spec => EvidenceNeverReusesAName
<1> DEFINE Fresh ==
        inputs.valid /\ inputs'.valid /\ inputs' # inputs /\ ~overlapped =>
            \A a \in Artifacts : inputs'.bundle[a].file # inputs.bundle[a].file
<1>1. IInv /\ ApprovalInv /\ [Next]_vars => [Fresh]_vars
  <2> SUFFICES ASSUME IInv, ApprovalInv, [Next]_vars, inputs.valid, inputs'.valid,
                      inputs' # inputs, ~overlapped, NEW a \in Artifacts
               PROVE  inputs'.bundle[a].file # inputs.bundle[a].file
    OBVIOUS
  <2>1. PICK g \in Gates : WriteInputs(g)
    BY OnlyWriteInputs
  <2>2. gate[g].pc = "writeInputs" /\ gate[g].next = 5
    BY <2>1, WriteInputsFacts DEF WriteInputs
  <2>3. ~Circulates(gate[g].paths[a])
    BY <2>2, FreshNames DEF ApprovalInv
  <2>4. Circulates(inputs.bundle[a].file)
    BY DEF Circulates
  <2>5. inputs'.bundle[a].file = gate[g].paths[a]
    BY <2>1, WriteInputsFacts
  <2>. QED BY <2>3, <2>4, <2>5
<1>. QED BY <1>1, GateInductive, ApprovalInductive, PTL
         DEF Spec, EvidenceNeverReusesAName

-----------------------------------------------------------------------------
(* No step but a refusing ReadInputs charges the evidence.                 *)
LEMMA OnlyReadInputs ==
    ASSUME IInv, NEW g \in Gates, Advance(g), ~ReadInputs(g)
    PROVE  gate'[g].why \in {gate[g].why, "tool", "git", "none"}
<1>1. gate[g] \in GateStates
  BY DEF IInv, TypeOK
<1>2. ASSUME NEW s, Update(g, s)
      PROVE  gate'[g] = s
  BY <1>2, UpdateFacts DEF IInv
<1>3. ASSUME NEW reason \in {"tool", "git"}, Fail(g, reason)
      PROVE  gate'[g].why = reason
  BY <1>1, <1>2, <1>3 DEF Fail, Step, GateStates
<1>4. ASSUME NEW step, Goto(g, step)
      PROVE  gate'[g].why = gate[g].why
  BY <1>1, <1>2, <1>4 DEF Goto, Step, GateStates
<1>5. CASE VerifyRepositories(g) \/ PackTarball(g) \/ WriteInputs(g)
           \/ InstallGitSentinel(g) \/ WriteCommand(g)
  BY <1>4, <1>5 DEF VerifyRepositories, PackTarball, WriteInputs,
     InstallGitSentinel, WriteCommand
<1>6. CASE PublishSecond(g) \/ AssertHarness(g) \/ CheckGitLog(g) \/ ToolFailure(g)
  BY <1>3, <1>4, <1>6 DEF PublishSecond, AssertHarness, CheckGitLog, ToolFailure
<1>7. CASE ListPacks(g)
  BY <1>1, <1>2, <1>7 DEF ListPacks, Step, GateStates
<1>8. CASE PublishFirst(g)
  BY <1>1, <1>2, <1>8 DEF PublishFirst, Step, GateStates
<1>9. CASE TakeTarball(g)
  <2>1. CASE Fail(g, "tool")
    BY <1>3, <2>1
  <2>2. CASE \E f : Step(g, [gate[g] EXCEPT !.pc = AfterTaking(Packing(g)),
                                           !.next = @ + 1,
                                           !.before = {},
                                           !.paths[Packing(g)] = f])
    BY <1>1, <1>2, <2>2 DEF Step, GateStates
  <2>. QED BY <1>9, <2>1, <2>2 DEF TakeTarball
<1>10. ASSUME NEW ok \in BOOLEAN, Converge(g, ok)
       PROVE  gate'[g].why \in {"tool", "none"}
  BY <1>1, <1>2, <1>10 DEF Converge, Step, GateStates
<1>11. CASE PreludePrepare(g) \/ PreludeApply(g)
  BY <1>10, <1>11 DEF PreludePrepare, PreludeApply
<1>12. CASE Finally(g)
  <2>1. PICK pc : Update(g, [gate[g] EXCEPT !.pc = pc])
    BY <1>12 DEF Finally
  <2>. QED BY <1>1, <1>2, <2>1 DEF GateStates
<1>. QED BY <1>5, <1>6, <1>7, <1>8, <1>9, <1>11, <1>12 DEF Advance

(* readPackedInputs (cross-repo.ts:180-197): APPLY refuses the tarballs    *)
(* only without readable evidence or after another PREPARE packed.         *)
THEOREM RefusalsAreJustified == Spec => RefusalIsJustified
<1> DEFINE Justified ==
        \A g \in Gates : gate[g].why # "inputs" /\ gate'[g].why = "inputs" =>
            ~inputs.valid \/ repacked
<1>1. IInv /\ ApprovalInv /\ [Next]_vars => [Justified]_vars
  <2> SUFFICES ASSUME IInv, ApprovalInv, [Next]_vars, NEW g \in Gates,
                      gate[g].why # "inputs", gate'[g].why = "inputs",
                      inputs.valid, ~repacked
               PROVE  FALSE
    OBVIOUS
  <2>1. gate'[g] # gate[g]
    OBVIOUS
  <2>2. CASE Grant \/ UNCHANGED vars \/ \E S \in EditSets, release \in BOOLEAN : Edit(S, release)
    BY <2>1, <2>2 DEF Grant, Edit, vars
  <2>3. ASSUME NEW h \in Gates, NEW s, Update(h, s)
        PROVE  h = g /\ gate'[g] = s
    BY <2>1, <2>3, UpdateFacts DEF IInv, Alone
  <2>4. ASSUME NEW h \in Gates, NEW phase \in {"prepare", "apply"}, Start(h, phase)
        PROVE  FALSE
    BY ZenonT(30), <2>3, <2>4, NewGateFacts, NewGateType DEF Start, GateStates
  <2>5. ASSUME NEW h \in Gates, Kill(h)
        PROVE  FALSE
    BY <2>3, <2>5, NewGateFacts DEF Kill
  <2>6. ASSUME NEW h \in Gates, Advance(h)
        PROVE  h = g
    <3>1. \E s : Update(h, s)
      BY <2>6 DEF Advance, VerifyRepositories, ListPacks, PackTarball, TakeTarball,
         PublishFirst, PublishSecond, AssertHarness, WriteInputs, ReadInputs,
         InstallGitSentinel, PreludePrepare, PreludeApply, Converge, CheckGitLog,
         WriteCommand, ToolFailure, Finally, Fail, Goto, Step
    <3>. QED BY <2>3, <3>1
  <2>7. ASSUME Advance(g)
        PROVE  FALSE
    <3>1. ReadInputs(g)
      BY <2>7, OnlyReadInputs
    <3> DEFINE paths == [a \in Artifacts |-> inputs.bundle[a].file]
    <3>2. inputs.bundle \in Bundles
      BY DEF IInv, TypeOK
    <3>3. \A a \in Artifacts : inputs.bundle[a] =
              [file |-> paths[a], revision |-> packs[paths[a]]]
      BY <3>2 DEF ApprovalInv, EvidenceIntact, Bundles, Tarballs
    <3>4. inputs.bundle = Content(paths)
      BY <3>2, <3>3 DEF Content, Bundles
    <3>5. Step(g, [gate[g] EXCEPT !.pc = "sentinel", !.paths = paths])
      BY <3>1, <3>4 DEF ReadInputs
    <3> HIDE DEF paths
    <3>6. gate[g] \in GateStates /\
          gate'[g] = [gate[g] EXCEPT !.pc = "sentinel", !.paths = paths]
      BY <3>5, UpdateFacts DEF IInv, TypeOK, Step
    <3>. QED BY <3>6 DEF GateStates
  <2>. QED BY <2>2, <2>4, <2>5, <2>6, <2>7 DEF Next
<1>. QED BY <1>1, GateInductive, ApprovalInductive, PTL
         DEF Spec, RefusalIsJustified

-----------------------------------------------------------------------------
(* The refinement mapping at each kind of step.                            *)

LEMMA SomeBundle ==
    /\ \A b \in Bundles : b # <<>>
    /\ \A b, d : [bundle |-> b, done |-> d] # <<>>
<1>1. \A b \in Bundles : DOMAIN b = Artifacts /\ "harness" \in Artifacts
  BY DEF Bundles, Artifacts
<1>2. DOMAIN << >> = {}
  OBVIOUS
<1>3. \A b, d : "done" \in DOMAIN [bundle |-> b, done |-> d]
  OBVIOUS
<1>. QED BY <1>1, <1>2, <1>3

(* A process that is neither over nor about to pass stands for the         *)
(* delivery it began with.                                                 *)
LEMMA SameDelivery ==
    ASSUME TypeOK, NEW g \in Gates, Alone(g), ~overlapped, ~overlapped',
           Running(g), Running(g)', gate'[g].phase = gate[g].phase,
           gate'[g].approved = gate[g].approved
    PROVE  UNCHANGED [h \in Gates |-> DeliveryOf(gate[h])]
<1>1. DeliveryOf(gate[g])' = DeliveryOf(gate[g])
  BY DEF DeliveryOf, Running, Ended
<1>2. \A h \in Gates : DeliveryOf(gate[h])' = DeliveryOf(gate[h])
  BY <1>1 DEF Alone, DeliveryOf
<1>. QED BY <1>2

(* While no APPLY runs, nothing is being delivered.                        *)
LEMMA QuietDelivery ==
    ASSUME ~overlapped, \A h \in Gates : Running(h) => gate[h].phase = "prepare"
    PROVE  Delivery!Quiet
BY DEF Delivery!Quiet, Delivery!Pending, DeliveryOf, Running, Ended

(* Steps of a process between its start and its end.                       *)
Inner(g) ==
    \/ VerifyRepositories(g) \/ ListPacks(g) \/ PackTarball(g) \/ TakeTarball(g)
    \/ PublishFirst(g) \/ PublishSecond(g) \/ AssertHarness(g) \/ WriteInputs(g)
    \/ ReadInputs(g) \/ InstallGitSentinel(g) \/ PreludePrepare(g)
    \/ PreludeApply(g) \/ CheckGitLog(g) \/ ToolFailure(g)

LEMMA InnerStep ==
    ASSUME TypeOK, NEW g \in Gates, NEW s, Step(g, s),
           s.pc \notin Ended, s.phase = gate[g].phase, s.approved = gate[g].approved,
           UNCHANGED command, ~overlapped, Running(g)
    PROVE  UNCHANGED Delivery!vars
<1>1. Alone(g) /\ gate'[g] = s /\ UNCHANGED <<granted, overlapped>>
  BY UpdateFacts DEF Step, environment
<1>2. Running(g)'
  BY <1>1 DEF Running
<1>3. UNCHANGED [h \in Gates |-> DeliveryOf(gate[h])]
  BY <1>1, <1>2, SameDelivery
<1>4. UNCHANGED <<OfferOf(command), OfferOf(granted)>>
  BY <1>1 DEF OfferOf
<1>. QED BY <1>1, <1>3, <1>4 DEF Delivery!vars

LEMMA FailStutters ==
    ASSUME TypeOK, NEW g \in Gates, NEW reason \in {"tool", "inputs", "git"}, Fail(g, reason),
           UNCHANGED workspace, ~overlapped, Running(g)
    PROVE  UNCHANGED Delivery!vars
<1> DEFINE s == [gate[g] EXCEPT !.pc = "finally", !.why = reason]
<1>1. gate[g] \in GateStates
  BY DEF TypeOK
<1>2. s.pc = "finally" /\ s.phase = gate[g].phase /\ s.approved = gate[g].approved
  BY <1>1 DEF GateStates
<1>3. s.pc \notin Ended
  BY <1>2 DEF Ended
<1>4. Step(g, s)
  BY DEF Fail
<1> HIDE DEF s
<1>. QED BY <1>2, <1>3, <1>4, InnerStep DEF workspace

LEMMA GotoStutters ==
    ASSUME TypeOK, NEW g \in Gates, NEW step \in Steps \cup {"finally"}, Goto(g, step),
           UNCHANGED command, ~overlapped, Running(g)
    PROVE  UNCHANGED Delivery!vars
<1> DEFINE s == [gate[g] EXCEPT !.pc = step]
<1>1. gate[g] \in GateStates
  BY DEF TypeOK
<1>2. s.pc = step /\ s.phase = gate[g].phase /\ s.approved = gate[g].approved
  BY <1>1 DEF GateStates
<1>3. s.pc \notin Ended
  BY <1>2 DEF Ended, Steps
<1>4. Step(g, s)
  BY DEF Goto
<1> HIDE DEF s
<1>. QED BY <1>2, <1>3, <1>4, InnerStep

LEMMA TakeStutters ==
    ASSUME IInv, NEW g \in Gates, TakeTarball(g), ~overlapped
    PROVE  UNCHANGED Delivery!vars
<1> DEFINE created == Packed \ gate[g].before
<1>1. gate[g] \in GateStates /\ Running(g) /\ gate[g].next # 5 /\ UNCHANGED workspace
  BY DEF IInv, TypeOK, Control, TakeTarball, Running, Ended
<1>2. CASE Fail(g, "tool")
  BY <1>1, <1>2, FailStutters DEF IInv
<1>3. CASE ~Fail(g, "tool")
  <2>1. PICK f \in created :
            Step(g, [gate[g] EXCEPT !.pc = AfterTaking(Packing(g)),
                                    !.next = @ + 1,
                                    !.before = {},
                                    !.paths[Packing(g)] = f])
    BY <1>3 DEF TakeTarball
  <2> DEFINE pc == AfterTaking(Packing(g))
             s == [gate[g] EXCEPT !.pc = pc, !.next = @ + 1, !.before = {},
                                  !.paths[Packing(g)] = f]
  <2>2. Packing(g) \in Artifacts
    BY <1>1, PackingType DEF IInv
  <2>3. pc \notin Ended
    BY <2>2 DEF AfterTaking, Artifacts, Ended
  <2>4. Step(g, s)
    BY <2>1
  <2> HIDE DEF pc
  <2>5. s.pc = pc /\ s.phase = gate[g].phase /\ s.approved = gate[g].approved
    BY <1>1 DEF GateStates
  <2> HIDE DEF s
  <2>. QED BY <1>1, <2>3, <2>4, <2>5, InnerStep DEF workspace, IInv
<1>. QED BY <1>2, <1>3

LEMMA ConvergeStutters ==
    ASSUME IInv, NEW g \in Gates, NEW ok \in BOOLEAN, Converge(g, ok), ~overlapped
    PROVE  UNCHANGED Delivery!vars
<1>1. PICK git \in BOOLEAN :
          Step(g, [gate[g] EXCEPT !.pc = IF ok THEN "check" ELSE "finally",
                                  !.delivered = Content(gate[g].paths),
                                  !.calledGit = git,
                                  !.why = IF ok THEN "none" ELSE "tool"])
  BY DEF Converge
<1> DEFINE bundle == Content(gate[g].paths)
           pc == IF ok THEN "check" ELSE "finally"
           reason == IF ok THEN "none" ELSE "tool"
           s == [gate[g] EXCEPT !.pc = pc, !.delivered = bundle, !.calledGit = git,
                                !.why = reason]
<1>2. gate[g] \in GateStates /\ Running(g) /\ UNCHANGED command
  BY DEF IInv, TypeOK, Converge, Running, Ended
<1>3. pc \notin Ended
  BY DEF Ended
<1>4. Step(g, s)
  BY <1>1
<1> HIDE DEF pc, bundle, reason
<1>5. s.pc = pc /\ s.phase = gate[g].phase /\ s.approved = gate[g].approved
  BY <1>2 DEF GateStates
<1> HIDE DEF s
<1>. QED BY <1>2, <1>3, <1>4, <1>5, InnerStep DEF IInv

LEMMA InnerStutters ==
    ASSUME IInv, NEW g \in Gates, Inner(g), ~overlapped
    PROVE  UNCHANGED Delivery!vars
<1>1. /\ TypeOK /\ gate[g] \in GateStates
      /\ \A pc \in Steps : gate[g].pc = pc => Running(g)
  BY DEF IInv, TypeOK, Running, Steps, Ended
<1>2. CASE VerifyRepositories(g)
  BY <1>1, <1>2, GotoStutters DEF VerifyRepositories, Steps, workspace
<1>3. CASE ListPacks(g)
  <2> DEFINE s == [gate[g] EXCEPT !.pc = "pack", !.before = Packed]
  <2>1. s.pc = "pack" /\ s.phase = gate[g].phase /\ s.approved = gate[g].approved
    BY <1>1 DEF GateStates
  <2>2. Step(g, s) /\ UNCHANGED command /\ gate[g].pc = "list"
    BY <1>3 DEF ListPacks, workspace
  <2> HIDE DEF s
  <2>. QED BY <1>1, <2>1, <2>2, InnerStep DEF Steps, Ended
<1>4. CASE PackTarball(g)
  BY <1>1, <1>4, GotoStutters DEF PackTarball, Steps
<1>5. CASE TakeTarball(g)
  BY <1>5, TakeStutters
<1>6. CASE PublishFirst(g)
  <2> DEFINE s == [gate[g] EXCEPT !.pc = "publishSecond",
                                  !.first = PinOf[source["harness"].revision]]
  <2>1. s.pc = "publishSecond" /\ s.phase = gate[g].phase /\ s.approved = gate[g].approved
    BY <1>1 DEF GateStates
  <2>2. Step(g, s) /\ UNCHANGED command /\ gate[g].pc = "publishFirst"
    BY <1>6 DEF PublishFirst, workspace
  <2> HIDE DEF s
  <2>. QED BY <1>1, <2>1, <2>2, InnerStep DEF Steps, Ended
<1>7. CASE PublishSecond(g)
  BY <1>1, <1>7, GotoStutters, FailStutters DEF PublishSecond, Steps, workspace
<1>8. CASE AssertHarness(g)
  BY <1>1, <1>8, GotoStutters, FailStutters DEF AssertHarness, Steps, workspace
<1>9. CASE WriteInputs(g)
  BY <1>1, <1>9, GotoStutters DEF WriteInputs, Steps
<1>10. CASE ReadInputs(g)
  <2> DEFINE paths == [a \in Artifacts |-> inputs.bundle[a].file]
             s == [gate[g] EXCEPT !.pc = "sentinel", !.paths = paths]
  <2>1. (Step(g, s) \/ Fail(g, "inputs")) /\ gate[g].pc = "readInputs" /\ UNCHANGED workspace
    BY <1>10 DEF ReadInputs
  <2> HIDE DEF paths
  <2>2. s.pc = "sentinel" /\ s.phase = gate[g].phase /\ s.approved = gate[g].approved
    BY <1>1 DEF GateStates
  <2> HIDE DEF s
  <2>. QED BY <1>1, <2>1, <2>2, InnerStep, FailStutters DEF Steps, Ended, workspace
<1>11. CASE InstallGitSentinel(g)
  BY <1>1, <1>11, GotoStutters DEF InstallGitSentinel, Steps, workspace
<1>12. CASE PreludePrepare(g) \/ PreludeApply(g)
  BY <1>12, ConvergeStutters DEF PreludePrepare, PreludeApply
<1>13. CASE CheckGitLog(g)
  <2> DEFINE step == IF gate[g].phase = "prepare" THEN "writeCommand" ELSE "finally"
  <2>1. (Goto(g, step) \/ Fail(g, "git")) /\ gate[g].pc = "check" /\ UNCHANGED workspace
    BY <1>13 DEF CheckGitLog
  <2>2. step \in Steps \cup {"finally"}
    BY DEF Steps
  <2> HIDE DEF step
  <2>. QED BY <1>1, <2>1, <2>2, GotoStutters, FailStutters DEF Steps, workspace
<1>14. CASE ToolFailure(g)
  BY <1>1, <1>14, FailStutters DEF ToolFailure
<1>. QED BY <1>2, <1>3, <1>4, <1>5, <1>6, <1>7, <1>8, <1>9, <1>10, <1>11, <1>12,
            <1>13, <1>14 DEF Inner

LEMMA WriteCommandOffers ==
    ASSUME IInv, Undisturbed, NEW g \in Gates, WriteCommand(g), ~overlapped
    PROVE  Delivery!Offer /\ UNCHANGED overlapped
<1>1. /\ Goto(g, "finally") /\ Running(g) /\ gate[g].pc = "writeCommand"
      /\ gate[g].phase = "prepare" /\ "finally" \in Steps \cup {"finally"}
  BY DEF WriteCommand, Running, Ended, IInv, Control
<1>2. /\ Alone(g) /\ Running(g)' /\ UNCHANGED <<granted, overlapped>>
      /\ gate'[g].phase = gate[g].phase /\ gate'[g].approved = gate[g].approved
  BY <1>1, GotoFacts, UpdateFacts DEF Goto, Step, IInv, environment, Running, Ended
<1>3. UNCHANGED [h \in Gates |-> DeliveryOf(gate[h])]
  BY <1>1, <1>2, SameDelivery DEF IInv
<1>4. UNCHANGED OfferOf(granted)
  BY <1>2 DEF OfferOf
<1>5. Delivery!Quiet
  BY <1>1, QuietDelivery DEF Undisturbed, Exclusive
<1>6. /\ inputs.valid /\ OfferOf(command)' = inputs.bundle /\ inputs.bundle \in Bundles
  BY <1>1, <1>2 DEF Undisturbed, Lineage, WriteCommand, OfferOf, IInv, TypeOK
<1>7. OfferOf(command)' # <<>>
  BY <1>6, SomeBundle
<1>8. \A c \in {command, granted} : Delivery!Agree(inputs.bundle, OfferOf(c))
  <2> SUFFICES ASSUME NEW c \in {command, granted}, OfferOf(c) # <<>>,
                      inputs.bundle["harness"].file = OfferOf(c)["harness"].file
               PROVE  inputs.bundle = OfferOf(c)
    BY DEF Delivery!Agree
  <2>1. c.valid /\ OfferOf(c) = c.bundle
    BY DEF OfferOf
  <2>2. Binding(c)
    BY <2>1 DEF Approvals, Undisturbed
  <2>. QED BY <2>1, <2>2 DEF Binding
<1>. QED BY <1>2, <1>3, <1>4, <1>5, <1>6, <1>7, <1>8 DEF Delivery!Offer

LEMMA FinallyDelivers ==
    ASSUME IInv, Undisturbed, NEW g \in Gates, Finally(g), ~overlapped
    PROVE  /\ UNCHANGED overlapped
           /\ Delivery!Deliver(g) \/ Delivery!Abandon(g)
<1>1. PICK cleaned \in BOOLEAN :
          Update(g, [gate[g] EXCEPT
              !.pc = IF gate[g].why = "none" /\ cleaned THEN "passed" ELSE "failed"])
  BY DEF Finally
<1> DEFINE pc == IF gate[g].why = "none" /\ cleaned THEN "passed" ELSE "failed"
           d == [h \in Gates |-> DeliveryOf(gate[h])]
<1>2. gate[g] \in GateStates /\ gate[g].pc = "finally" /\ Running(g)
  BY DEF IInv, TypeOK, Finally, Running, Ended
<1>3. Alone(g) /\ gate'[g] = [gate[g] EXCEPT !.pc = pc]
  BY <1>1, UpdateFacts DEF IInv
<1>4. pc \in {"passed", "failed"} /\ (pc = "passed" => gate[g].why = "none")
  OBVIOUS
<1> HIDE DEF pc
<1>5. /\ gate'[g].pc = pc /\ gate'[g].delivered = gate[g].delivered
      /\ gate'[g].phase = gate[g].phase /\ gate'[g].approved = gate[g].approved
  BY <1>2, <1>3 DEF GateStates
<1>6. UNCHANGED <<command, granted, overlapped>>
  BY DEF Finally, environment, workspace
<1>7. UNCHANGED <<OfferOf(command), OfferOf(granted)>>
  BY <1>6 DEF OfferOf
<1>8. \A h \in Gates \ {g} : d'[h] = d[h]
  BY <1>3, <1>6 DEF Alone, DeliveryOf
<1>9. CASE gate[g].phase = "apply" /\ pc = "passed"
  <2>1. gate[g].delivered = gate[g].approved.bundle
    BY <1>2, <1>4, <1>9 DEF Undisturbed, Lineage
  <2>2. /\ d[g] = [bundle |-> gate[g].approved.bundle, done |-> FALSE]
        /\ d'[g] = [bundle |-> gate[g].approved.bundle, done |-> TRUE]
    BY <1>2, <1>5, <1>6, <1>9, <2>1 DEF DeliveryOf
  <2>3. d[g] # <<>> /\ ~d[g].done
    BY <2>2, SomeBundle
  <2>4. d' = [d EXCEPT ![g].done = TRUE]
    <3>1. /\ d = [h \in Gates |-> d[h]]
          /\ d' = [h \in Gates |-> d'[h]]
      OBVIOUS
    <3> HIDE DEF d
    <3>2. d'[g] = [d[g] EXCEPT !.done = TRUE]
      <4>1. PICK q : q = [d[g] EXCEPT !.done = TRUE]
        OBVIOUS
      <4>2. d[g] \in [bundle : {gate[g].approved.bundle}, done : BOOLEAN]
        BY <2>2
      <4>3. q \in [bundle : {gate[g].approved.bundle}, done : BOOLEAN] /\ q.done = TRUE
        BY <2>2, <4>1, <4>2
      <4>. QED BY <2>2, <4>1, <4>3
    <3>. QED BY <1>8, <3>1, <3>2
  <2>5. Delivery!Pending(g)
    BY <2>3 DEF Delivery!Pending
  <2>. QED BY <1>6, <1>7, <2>4, <2>5 DEF Delivery!Deliver
<1>10. CASE ~(gate[g].phase = "apply" /\ pc = "passed")
  <2>1. gate[g].phase \in {"prepare", "apply"}
    BY <1>2 DEF GateStates
  <2>2. d'[g] = <<>>
    BY <1>4, <1>5, <1>10, <2>1 DEF DeliveryOf
  <2>3. d' = [d EXCEPT ![g] = <<>>]
    BY <1>8, <2>2
  <2>. QED BY <1>6, <1>7, <2>3 DEF Delivery!Abandon
<1>. QED BY <1>9, <1>10

LEMMA KillWithdraws ==
    ASSUME IInv, Undisturbed, NEW g \in Gates, Kill(g), ~overlapped
    PROVE  /\ UNCHANGED overlapped
           /\ Delivery!Withdraw \/ Delivery!Abandon(g)
<1> DEFINE d == [h \in Gates |-> DeliveryOf(gate[h])]
<1>1. /\ Running(g) /\ Alone(g) /\ gate'[g] = NewGate
      /\ UNCHANGED <<granted, overlapped>>
  BY UpdateFacts DEF IInv, Kill, environment
<1>2. d'[g] = <<>>
  BY <1>1, NewGateFacts DEF DeliveryOf
<1>3. \A h \in Gates \ {g} : d'[h] = d[h]
  BY <1>1 DEF Alone, DeliveryOf
<1>4. UNCHANGED OfferOf(granted)
  BY <1>1 DEF OfferOf
<1>5. CASE UNCHANGED command
  <2>1. UNCHANGED OfferOf(command)
    BY <1>1, <1>5 DEF OfferOf
  <2>2. d' = [d EXCEPT ![g] = <<>>]
    BY <1>2, <1>3
  <2>. QED BY <1>1, <1>4, <2>1, <2>2 DEF Delivery!Abandon
<1>6. CASE command' # command
  <2>1. gate[g].pc = "writeCommand" /\ command' = [command EXCEPT !.valid = FALSE]
    BY <1>6 DEF Kill
  <2>2. gate[g].phase = "prepare"
    BY <2>1 DEF IInv, Control
  <2>3. OfferOf(command)' = <<>>
    BY <2>1 DEF OfferOf, IInv, TypeOK, Commands
  <2>4. Delivery!Quiet
    BY <1>1, <2>2, QuietDelivery DEF Undisturbed, Exclusive
  <2>5. d[g] = <<>>
    BY <2>2 DEF DeliveryOf
  <2>6. d' = d
    BY <1>2, <1>3, <2>5
  <2>. QED BY <1>1, <1>4, <2>3, <2>4, <2>6 DEF Delivery!Withdraw
<1>. QED BY <1>5, <1>6

LEMMA StartBegins ==
    ASSUME IInv, Undisturbed, NEW g \in Gates, NEW phase \in {"prepare", "apply"},
           Start(g, phase), ~overlapped, ~overlapped'
    PROVE  /\ UNCHANGED overlapped
           /\ Delivery!Begin(g) \/ Delivery!Abandon(g)
<1> DEFINE pc == IF phase = "prepare" THEN "verify" ELSE "readInputs"
           approved == IF phase = "apply" THEN granted ELSE NoCommand
           d == [h \in Gates |-> DeliveryOf(gate[h])]
<1>1. /\ Alone(g) /\ UNCHANGED <<command, granted>>
      /\ gate'[g] = [NewGate EXCEPT !.phase = phase, !.pc = pc, !.approved = approved]
  BY UpdateFacts DEF IInv, Start, workspace
<1>2. \/ phase = "prepare"
      \/ phase = "apply" /\ pc = "readInputs" /\ approved = granted /\ granted.valid
  BY DEF Start
<1> HIDE DEF pc, approved
<1>3. gate'[g].pc = pc /\ gate'[g].phase = phase /\ gate'[g].approved = approved
  BY <1>1, NewGateType, NewGateFacts DEF GateStates
<1>4. \A h \in Gates \ {g} : d'[h] = d[h]
  BY <1>1 DEF Alone, DeliveryOf
<1>5. UNCHANGED <<OfferOf(command), OfferOf(granted)>>
  BY <1>1 DEF OfferOf
<1>6. UNCHANGED overlapped
  BY DEF Start, IInv, TypeOK
<1>7. CASE phase = "prepare"
  <2>1. d'[g] = <<>>
    BY <1>3, <1>7 DEF DeliveryOf
  <2>2. d' = [d EXCEPT ![g] = <<>>]
    BY <1>4, <2>1
  <2>. QED BY <1>5, <1>6, <2>2 DEF Delivery!Abandon
<1>8. CASE phase = "apply"
  <2>1. OfferOf(granted) = granted.bundle /\ granted.bundle \in Bundles
    BY <1>2, <1>8 DEF OfferOf, IInv, TypeOK, Commands
  <2>2. OfferOf(granted) # <<>>
    BY <2>1, SomeBundle
  <2>3. d'[g] = [bundle |-> OfferOf(granted), done |-> FALSE]
    BY <1>2, <1>3, <1>8, <2>1 DEF DeliveryOf
  <2>4. d' = [d EXCEPT ![g] = [bundle |-> OfferOf(granted), done |-> FALSE]]
    BY <1>4, <2>3
  <2>5. \A h \in Gates : ~Running(h)
    BY DEF Start
  <2>6. Delivery!Quiet
    BY <2>5, QuietDelivery
  <2>. QED BY <1>5, <1>6, <2>2, <2>4, <2>6 DEF Delivery!Begin
<1>. QED BY <1>7, <1>8

LEMMA GrantApproves ==
    ASSUME IInv, Grant, ~overlapped
    PROVE  Delivery!Approve /\ UNCHANGED overlapped
<1>1. command.valid /\ granted' = command /\ UNCHANGED <<command, gate, overlapped>>
  BY DEF Grant, workspace
<1>2. OfferOf(command) = command.bundle /\ command.bundle \in Bundles
  BY <1>1 DEF OfferOf, IInv, TypeOK, Commands
<1>3. OfferOf(command) # <<>>
  BY <1>2, SomeBundle
<1>4. OfferOf(granted)' = OfferOf(command) /\ UNCHANGED OfferOf(command)
  BY <1>1 DEF OfferOf
<1>5. UNCHANGED [h \in Gates |-> DeliveryOf(gate[h])]
  BY <1>1 DEF DeliveryOf
<1>. QED BY <1>1, <1>3, <1>4, <1>5 DEF Delivery!Approve

(* Two gates at a time: from then on nothing is promised.                  *)
LEMMA SharedSteps ==
    ASSUME [Next]_vars, overlapped'
    PROVE  [Delivery!Next]_(Delivery!vars)
<1> DEFINE d == [h \in Gates |-> DeliveryOf(gate[h])]
<1>1. /\ OfferOf(command)' = <<>> /\ OfferOf(granted)' = <<>>
      /\ d' = [h \in Gates |-> <<>>]
  BY DEF OfferOf, DeliveryOf
<1>2. CASE ~overlapped
  BY <1>1, <1>2 DEF Delivery!Next, Delivery!Share
<1>3. CASE overlapped
  <2>1. /\ OfferOf(command) = <<>> /\ OfferOf(granted) = <<>>
        /\ d = [h \in Gates |-> <<>>]
    BY <1>3 DEF OfferOf, DeliveryOf
  <2>. QED BY <1>1, <1>3, <2>1 DEF Delivery!vars
<1>. QED BY <1>2, <1>3

LEMMA NextDelivers ==
    ASSUME IInv, ApprovalInv, [Next]_vars
    PROVE  [Delivery!Next]_(Delivery!vars)
<1>1. CASE overlapped'
  BY <1>1, SharedSteps
<1>2. CASE overlapped /\ ~overlapped'
  <2>1. ASSUME UNCHANGED overlapped PROVE FALSE
    BY <1>2, <2>1
  <2>2. ASSUME NEW g \in Gates, Advance(g) \/ Kill(g) PROVE UNCHANGED overlapped
    BY <2>2 DEF Advance, Kill, VerifyRepositories, ListPacks, PackTarball, TakeTarball,
       PublishFirst, PublishSecond, AssertHarness, WriteInputs, ReadInputs,
       InstallGitSentinel, PreludePrepare, PreludeApply, Converge, CheckGitLog,
       WriteCommand, ToolFailure, Finally, Goto, Fail, Step, environment
  <2>. QED BY <1>2, <2>1, <2>2 DEF Next, Grant, Edit, Start, vars, environment
<1>3. CASE ~overlapped /\ ~overlapped'
  <2>1. Undisturbed
    BY <1>3 DEF ApprovalInv
  <2>2. CASE Grant
    BY <1>3, <2>2, GrantApproves DEF Delivery!Next
  <2>3. ASSUME UNCHANGED <<command, granted, gate, overlapped>>
        PROVE  UNCHANGED Delivery!vars
    BY <2>3 DEF Delivery!vars, OfferOf, DeliveryOf
  <2>4. ASSUME NEW S \in EditSets, NEW release \in BOOLEAN, Edit(S, release)
        PROVE  UNCHANGED Delivery!vars
    BY <2>3, <2>4 DEF Edit, workspace
  <2>5. ASSUME NEW g \in Gates, NEW phase \in {"prepare", "apply"}, Start(g, phase)
        PROVE  Delivery!Next
    BY <1>3, <2>1, <2>5, StartBegins DEF Delivery!Next
  <2>6. ASSUME NEW g \in Gates, Inner(g)
        PROVE  UNCHANGED Delivery!vars
    BY <1>3, <2>6, InnerStutters
  <2>7. ASSUME NEW g \in Gates, WriteCommand(g)
        PROVE  Delivery!Next
    BY <1>3, <2>1, <2>7, WriteCommandOffers DEF Delivery!Next
  <2>8. ASSUME NEW g \in Gates, Finally(g)
        PROVE  Delivery!Next
    BY <1>3, <2>1, <2>8, FinallyDelivers DEF Delivery!Next
  <2>9. ASSUME NEW g \in Gates, Kill(g)
        PROVE  Delivery!Next
    BY <1>3, <2>1, <2>9, KillWithdraws DEF Delivery!Next
  <2>10. CASE UNCHANGED vars
    BY <2>3, <2>10 DEF vars, environment, workspace
  <2>11. \A g \in Gates : Advance(g) => Inner(g) \/ WriteCommand(g) \/ Finally(g)
    BY DEF Advance, Inner
  <2>. QED BY <2>2, <2>4, <2>5, <2>6, <2>7, <2>8, <2>9, <2>10, <2>11 DEF Next
<1>. QED BY <1>1, <1>2, <1>3

(* The two phases as the gate's users see them (cross-repo.ts:61-76,       *)
(* 78-131, 199-229): whatever processes start, fail or are killed, each    *)
(* step offers, withdraws, approves or delivers a bundle as                *)
(* ApprovedDelivery allows, or changes nothing there.                      *)
THEOREM GateDelivers == Spec => ImplementsApprovedDelivery
<1>1. Init => Delivery!Init
  <2> SUFFICES ASSUME Init PROVE Delivery!Init
    OBVIOUS
  <2>1. \A g \in Gates : gate[g] = NewGate
    BY DEF Init
  <2>2. command.valid = FALSE /\ granted.valid = FALSE /\ overlapped = FALSE
    BY NewGateApproval DEF Init
  <2>3. \A g \in Gates : DeliveryOf(gate[g]) = <<>>
    BY <2>1, NewGateFacts DEF DeliveryOf
  <2>. QED BY <2>2, <2>3 DEF Delivery!Init, OfferOf
<1>2. IInv /\ ApprovalInv /\ [Next]_vars => [Delivery!Next]_(Delivery!vars)
  BY NextDelivers
<1>. QED BY <1>1, <1>2, GateInductive, ApprovalInductive, PTL
         DEF Spec, ImplementsApprovedDelivery, Delivery!Spec

--------------------------------------------------------------------------
(* Publishing.                                                             *)

(* A job past its checkout has a commit, one past its gate has passed it,  *)
(* and one that has not checked out has not: the strengthening.            *)
Started ==
    \A j \in Jobs :
        /\ jobStep[j] \in JobSteps \cup {"published"} => commit[j] \in Commits
        /\ jobStep[j] \in {"pack", "publish"} => j \in gated
        /\ jobStep[j] = "queued" => j \notin gated

PublishInv == PublishTypeOK /\ Started /\ GreenMeansPublished /\ ServedMeansGated

LEMMA PublishInitInv == PublishInit => PublishInv
BY NoneAssumption DEF PublishInit, PublishInv, PublishTypeOK, Started, GreenMeansPublished, ServedMeansGated, JobSteps, Reasons

LEMMA VersionServed ==
    ASSUME PublishInv, NEW j \in Jobs, jobStep[j] \in JobSteps \cup {"published"}
    PROVE  Version(j) \in NpmVersions
BY DEF PublishInv, Started, Version, NpmVersions

LEMMA CheckoutInv ==
    ASSUME PublishInv, NEW j \in Jobs, NEW c \in Commits, Checkout(j, c)
    PROVE  PublishInv'
<1> USE DEF PublishInv, PublishTypeOK, Started, Checkout, JobSteps, Reasons
<1>1. PublishTypeOK' /\ Started'
  OBVIOUS
<1>2. GreenMeansPublished'
  BY DEF GreenMeansPublished, Version
<1>3. \A v \in NpmVersions : registry[v] # None => commit'[registry[v]] = commit[registry[v]]
  BY DEF ServedMeansGated
<1>4. ServedMeansGated'
  BY <1>3 DEF ServedMeansGated, Version
<1>. QED BY <1>1, <1>2, <1>4

LEMMA AdvanceJobInv ==
    ASSUME PublishInv, NEW j \in Jobs, AdvanceJob(j)
    PROVE  PublishInv'
<1> USE DEF PublishInv, PublishTypeOK, Started, JobSteps, Reasons
<1>1. CASE RejectPublished(j)
  <2>1. UNCHANGED <<commit, registry, gated>>
    BY <1>1 DEF RejectPublished, JobGoesTo, FailJob
  <2>2. PublishTypeOK' /\ Started'
    BY <1>1 DEF RejectPublished, JobGoesTo, FailJob
  <2>3. GreenMeansPublished'
    BY <1>1 DEF RejectPublished, JobGoesTo, FailJob, GreenMeansPublished, Version
  <2>4. ServedMeansGated'
    BY <2>1 DEF ServedMeansGated, Version
  <2>. QED BY <2>2, <2>3, <2>4
<1>2. CASE RunGate(j)
  BY <1>2 DEF RunGate, GreenMeansPublished, ServedMeansGated, Version, JobGoesTo, FailJob
<1>3. CASE Pack(j)
  BY <1>3 DEF Pack, GreenMeansPublished, ServedMeansGated, Version, JobGoesTo
<1>4. CASE Publish(j)
  <2>1. Version(j) \in NpmVersions /\ UNCHANGED commit
    BY <1>4, VersionServed DEF Publish, FailJob
  <2>2. CASE registry[Version(j)] = None
    <3>1. registry' = [registry EXCEPT ![Version(j)] = j]
      BY <1>4, <2>2 DEF Publish
    <3>2. PublishTypeOK' /\ Started'
      BY <1>4, <2>1, <2>2 DEF Publish
    <3>3. ASSUME NEW k \in Jobs \ {j}, jobStep[k] = "published" PROVE Version(k) # Version(j)
      BY <2>2, <3>3, NoneAssumption DEF GreenMeansPublished
    <3>4. ASSUME NEW k \in Jobs, jobStep'[k] = "published"
          PROVE  registry'[Version(k)'] = k
      <4>1. Version(k)' = Version(k)
        BY <2>1 DEF Version
      <4>2. CASE k = j
        BY <2>1, <3>1, <4>1, <4>2
      <4>3. CASE k # j
        <5>1. jobStep[k] = "published"
          BY <1>4, <2>2, <3>4, <4>3 DEF Publish
        <5>2. registry[Version(k)] = k /\ Version(k) # Version(j)
          BY <3>3, <4>3, <5>1 DEF GreenMeansPublished
        <5>. QED BY <2>1, <3>1, <4>1, <5>2
      <4>. QED BY <4>2, <4>3
    <3>5. ServedMeansGated'
      <4>1. j \in gated /\ UNCHANGED gated /\ commit[j] \in Commits
        BY <1>4, <2>2 DEF Publish
      <4>. QED BY <2>1, <3>1, <4>1 DEF ServedMeansGated, Version
    <3>. QED BY <3>2, <3>4, <3>5 DEF GreenMeansPublished
  <2>3. CASE registry[Version(j)] # None
    BY <1>4, <2>3 DEF Publish, FailJob, GreenMeansPublished, ServedMeansGated, Version
  <2>. QED BY <2>2, <2>3
<1>5. CASE StepFailure(j)
  BY <1>5 DEF StepFailure, GreenMeansPublished, ServedMeansGated, Version
<1>. QED BY <1>1, <1>2, <1>3, <1>4, <1>5 DEF AdvanceJob

LEMMA PublishNextInv == PublishInv /\ [PublishNext]_publishVars => PublishInv'
<1> SUFFICES ASSUME PublishInv, [PublishNext]_publishVars PROVE PublishInv'
  OBVIOUS
<1>1. CASE PublishNext
  BY <1>1, CheckoutInv, AdvanceJobInv DEF PublishNext
<1>2. CASE UNCHANGED publishVars
  BY <1>2 DEF publishVars, PublishInv, PublishTypeOK, Started, GreenMeansPublished, ServedMeansGated, Version
<1>. QED BY <1>1, <1>2

(* npm-publish.yml:72-89: whatever npm serves, even of a job whose answer  *)
(* was lost, passed the gate as the commit whose version it is.            *)
THEOREM ServedIsGated == PublishSpec => []ServedMeansGated
<1>1. PublishInv => ServedMeansGated
  BY DEF PublishInv
<1>. QED BY <1>1, PublishInitInv, PublishNextInv, PTL DEF PublishSpec

(* npm-publish.yml: whatever jobs race for a version, a green one has      *)
(* published its own tarball.                                              *)
THEOREM GreenIsPublished == PublishSpec => []GreenMeansPublished
<1>1. PublishInv => GreenMeansPublished
  BY DEF PublishInv
<1>. QED BY <1>1, PublishInitInv, PublishNextInv, PTL DEF PublishSpec
=============================================================================

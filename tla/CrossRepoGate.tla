--------------------------- MODULE CrossRepoGate ---------------------------
(***************************************************************************)
(* tests/acceptance/cross-repo.ts, the two-phase release gate.  PREPARE    *)
(* verifies the sibling repositories, packs one tarball of each artifact   *)
(* into a run root, has Prelude plan two disposable Targets and writes the *)
(* approvals an operator may grant; APPLY replays the granted approvals    *)
(* against the same tarballs.                                              *)
(*                                                                         *)
(* One run root (CROSS_REPO_ROOT) is modelled, with any number of gate     *)
(* processes that use it, one after the other or at the same time, and     *)
(* maintainers who edit the repositories meanwhile.  A tarball's name is   *)
(* its artifact and its package version; its bytes are abstracted to a     *)
(* revision, so two revisions of one version have the same name.           *)
(***************************************************************************)
EXTENDS Naturals, FiniteSets

CONSTANTS
    Gates,          \* gate processes
    MaxVersion,     \* bound: package versions
    MaxRevision,    \* bound: revisions of a version
    PinOf,          \* the tsgo publication Partita derives from a revision
    DataOf,         \* the Baseline, policy and skill bytes of a revision
    EditSets,       \* the sets of artifacts one edit may change together
    MaxEdits,       \* bound: edits in a behaviour
    MaxRuns         \* bound: gate runs in a behaviour

PackOrder == <<"contract", "partita", "harness", "prelude">>
Artifacts == {"contract", "partita", "harness", "prelude"}
Targets == {"single", "monorepo"}

Versions == 1..MaxVersion
Revisions == 1..MaxRevision
Absent == 0
Files == Artifacts \X Versions

ASSUME GatesAssumption == IsFiniteSet(Gates)
ASSUME BoundsAssumption ==
    /\ MaxVersion \in Nat \ {0}
    /\ MaxRevision \in Nat \ {0}
    /\ MaxEdits \in Nat
    /\ MaxRuns \in Nat
ASSUME FacetsAssumption == PinOf \in [Revisions -> Nat] /\ DataOf \in [Revisions -> Nat]
ASSUME EditSetsAssumption == EditSets \subseteq SUBSET Artifacts

Tarballs == [file : Files, revision : Revisions]
Bundles == [Artifacts -> Tarballs]
Commands == [valid : BOOLEAN, plans : [Targets -> Tarballs], bundle : Bundles]

VARIABLES
    source,     \* [Artifacts -> version and revision], what "pnpm pack" writes
    packs,      \* [Files -> revision or Absent], the directory packsRoot
    inputs,     \* packed-inputs.prepare.json, valid once it parses
    plans,      \* targets/<name>.prepare.json: the harness a plan is for
    command,    \* cross-repo.apply.json: the plans awaiting approval
    granted,    \* the command the operator approved, CROSS_REPO_APPROVALS
    gitLog,     \* whether target-git-invocations.log exists
    tempRoots,  \* effect-harness-cross-repo-* directories in the checkout
    gate,       \* the gate processes
    leftovers,  \* history: temporary roots no process will remove
    repacked,   \* history: something was packed since inputs was written
    overlapped, \* history: two gates ran in the run root at the same time
    edits,      \* edits so far, at most MaxEdits
    runs        \* gate runs so far, at most MaxRuns

workspace == <<packs, inputs, plans, command, gitLog, repacked>>
temporary == <<tempRoots, leftovers>>
environment == <<source, granted, overlapped, edits, runs>>
vars == <<workspace, temporary, environment, gate>>

Steps == {"verify", "list", "pack", "take", "publishFirst", "publishSecond",
          "assertHarness", "writeInputs", "readInputs", "sentinel", "prelude",
          "check", "writeCommand"}
Ended == {"idle", "passed", "failed"}

(* "delivered" and "calledGit", what Prelude was given and did, are        *)
(* history.                                                                *)
GateStates ==
    [pc : Steps \cup {"finally"} \cup Ended, phase : {"prepare", "apply"},
     next : 1..5, before : SUBSET Files, paths : [Artifacts -> Files],
     first : Nat, approved : Commands, delivered : Bundles,
     calledGit : BOOLEAN, why : {"none", "tool", "inputs", "git"}]

TypeOK ==
    /\ source \in [Artifacts -> [version : Versions, revision : Revisions]]
    /\ packs \in [Files -> Revisions \cup {Absent}]
    /\ inputs \in [valid : BOOLEAN, bundle : Bundles]
    /\ plans \in [Targets -> Tarballs]
    /\ command \in Commands
    /\ granted \in Commands
    /\ gitLog \in BOOLEAN
    /\ tempRoots \in Nat
    /\ gate \in [Gates -> GateStates]
    /\ leftovers \in Nat
    /\ repacked \in BOOLEAN
    /\ overlapped \in BOOLEAN
    /\ edits \in Nat
    /\ runs \in Nat

(* The value of a file nobody has written or a variable nobody has set.    *)
NoBundle == [a \in Artifacts |-> [file |-> <<a, 1>>, revision |-> 1]]
NoCommand == [valid |-> FALSE, plans |-> [t \in Targets |-> NoBundle["harness"]],
              bundle |-> NoBundle]
NewGate == [pc |-> "idle", phase |-> "prepare", next |-> 1, before |-> {},
            paths |-> [a \in Artifacts |-> <<a, 1>>], first |-> 0,
            approved |-> NoCommand, delivered |-> NoBundle, calledGit |-> FALSE,
            why |-> "none"]

Init ==
    /\ source = [a \in Artifacts |-> [version |-> 1, revision |-> 1]]
    /\ packs = [f \in Files |-> Absent]
    /\ inputs = [valid |-> FALSE, bundle |-> NoBundle]
    /\ plans = NoCommand.plans
    /\ command = NoCommand
    /\ granted = NoCommand
    /\ gitLog = FALSE
    /\ tempRoots = 0
    /\ gate = [g \in Gates |-> NewGate]
    /\ leftovers = 0
    /\ repacked = FALSE
    /\ overlapped = FALSE
    /\ edits = 0
    /\ runs = 0

Running(g) == gate[g].pc \notin Ended

-----------------------------------------------------------------------------
(* The operator and the maintainers.                                       *)

(* Commits in the sibling repositories: new bytes, released or not under a *)
(* new package version.                                                    *)
Edit(S, release) ==
    /\ edits < MaxEdits
    /\ edits' = edits + 1
    /\ \A a \in S : IF release THEN source[a].version < MaxVersion ELSE MaxRevision > 1
    /\ source' = [a \in Artifacts |->
          IF a \notin S THEN source[a]
          ELSE IF release THEN [source[a] EXCEPT !.version = @ + 1]
          ELSE [source[a] EXCEPT !.revision = (@ % MaxRevision) + 1]]
    /\ UNCHANGED <<workspace, temporary, granted, overlapped, runs, gate>>

(* "awaiting exact approval": the operator copies the environment written  *)
(* in cross-repo.apply.json, for now or for a later APPLY.                 *)
Grant ==
    /\ command.valid
    /\ granted # command
    /\ granted' = command
    /\ UNCHANGED <<workspace, temporary, source, overlapped, edits, runs, gate>>

-----------------------------------------------------------------------------
(* A gate process: its start, its end and what every step has in common.   *)

Update(g, state) == gate' = [gate EXCEPT ![g] = state]

(* Loading the script: the guards on the environment and, in PREPARE, the  *)
(* temporary root.                                                         *)
Start(g, phase) ==
    /\ ~Running(g)
    /\ runs < MaxRuns
    /\ runs' = runs + 1
    /\ phase = "apply" => granted.valid
    /\ Update(g, [NewGate EXCEPT
                     !.phase = phase,
                     !.pc = IF phase = "prepare" THEN "verify" ELSE "readInputs",
                     !.approved = IF phase = "apply" THEN granted ELSE NoCommand])
    /\ tempRoots' = IF phase = "prepare" THEN tempRoots + 1 ELSE tempRoots
    /\ overlapped' = (overlapped \/ \E h \in Gates \ {g} : Running(h))
    /\ UNCHANGED <<workspace, source, granted, edits, leftovers>>

Step(g, state) == Update(g, state) /\ UNCHANGED <<temporary, environment>>

Goto(g, pc) == Step(g, [gate[g] EXCEPT !.pc = pc])

Fail(g, why) == Step(g, [gate[g] EXCEPT !.pc = "finally", !.why = why])

(* A child process exits nonzero, or a filesystem call throws, including   *)
(* assertRepository's.                                                     *)
ToolFailure(g) ==
    /\ gate[g].pc \in Steps
    /\ Fail(g, "tool")
    /\ UNCHANGED workspace

(* Mutant: APPLY removes a temporary root too.                             *)
FinallyAlwaysRemoving(g) ==
    /\ gate[g].pc = "finally"
    /\ Update(g, [gate[g] EXCEPT !.pc = IF gate[g].why = "none" THEN "passed" ELSE "failed"])
    /\ tempRoots' = tempRoots - 1
    /\ UNCHANGED <<workspace, environment, leftovers>>

(* Mutant: a failed PREPARE keeps its temporary root.                      *)
FinallyKeepingFailed(g) ==
    /\ gate[g].pc = "finally"
    /\ Update(g, [gate[g] EXCEPT !.pc = IF gate[g].why = "none" THEN "passed" ELSE "failed"])
    /\ tempRoots' = IF gate[g].phase = "prepare" /\ gate[g].why = "none"
                    THEN tempRoots - 1 ELSE tempRoots
    /\ UNCHANGED <<workspace, environment, leftovers>>

(* The "finally" block.  Copying the publication evidence may throw before *)
(* the temporary root is removed, and so may its removal: the root stays,  *)
(* and a gate that was green until then ends red.                          *)
Finally(g) ==
    /\ gate[g].pc = "finally"
    /\ \E cleaned \in BOOLEAN :
          /\ gate[g].phase = "apply" => cleaned
          /\ Update(g, [gate[g] EXCEPT
                 !.pc = IF gate[g].why = "none" /\ cleaned THEN "passed" ELSE "failed"])
          /\ tempRoots' = IF gate[g].phase = "prepare" /\ cleaned THEN tempRoots - 1
                          ELSE tempRoots
          /\ leftovers' = IF cleaned THEN leftovers ELSE leftovers + 1
    /\ UNCHANGED <<workspace, environment>>

(* The process is killed, perhaps in the middle of writing a file.         *)
Kill(g) ==
    /\ Running(g)
    /\ Update(g, NewGate)
    /\ \/ UNCHANGED <<inputs, command>>
       \/ /\ gate[g].pc = "writeInputs"
          /\ inputs' = [inputs EXCEPT !.valid = FALSE]
          /\ UNCHANGED command
       \/ /\ gate[g].pc = "writeCommand"
          /\ command' = [command EXCEPT !.valid = FALSE]
          /\ UNCHANGED inputs
    /\ leftovers' = IF gate[g].phase = "prepare" THEN leftovers + 1 ELSE leftovers
    /\ UNCHANGED <<packs, plans, gitLog, repacked, tempRoots, environment>>

-----------------------------------------------------------------------------
(* PREPARE: preparePackedInputs.                                           *)

(* verifyRepositories.  A red verification is a ToolFailure; Partita's     *)
(* "Integration drift" counts as green.                                    *)
VerifyRepositories(g) ==
    /\ gate[g].pc = "verify"
    /\ Goto(g, "list")
    /\ UNCHANGED workspace

Packed == {f \in Files : packs[f] # Absent}
Packing(g) == PackOrder[gate[g].next]

(* pack: the directory listing, "pnpm pack", and the one new name.         *)
ListPacks(g) ==
    /\ gate[g].pc = "list"
    /\ Step(g, [gate[g] EXCEPT !.pc = "pack", !.before = Packed])
    /\ UNCHANGED workspace

PackTarball(g) ==
    /\ gate[g].pc = "pack"
    /\ LET new == source[Packing(g)] IN
       packs' = [packs EXCEPT ![<<Packing(g), new.version>>] = new.revision]
    /\ repacked' = TRUE
    /\ Goto(g, "take")
    /\ UNCHANGED <<inputs, plans, command, gitLog>>

(* What preparePackedInputs does with the tarball of an artifact.          *)
AfterTaking(a) ==
    CASE a = "contract" -> "list"
      [] a = "partita" -> "publishFirst"
      [] a = "harness" -> "assertHarness"
      [] a = "prelude" -> "writeInputs"

(* Mutant: the name is computed instead of taken from the listings.        *)
TakeExpectedName(g) ==
    /\ gate[g].pc = "take"
    /\ LET f == <<Packing(g), source[Packing(g)].version>> IN
       IF packs[f] # Absent
       THEN Step(g, [gate[g] EXCEPT !.pc = AfterTaking(Packing(g)),
                                    !.next = @ + 1,
                                    !.before = {},
                                    !.paths[Packing(g)] = f])
       ELSE Fail(g, "tool")
    /\ UNCHANGED workspace

(* Mutant: packs again until a new name appears.                           *)
TakeTarballRetrying(g) ==
    /\ gate[g].pc = "take"
    /\ LET created == Packed \ gate[g].before IN
       IF Cardinality(created) = 1
       THEN \E f \in created :
               Step(g, [gate[g] EXCEPT !.pc = AfterTaking(Packing(g)),
                                       !.next = @ + 1,
                                       !.before = {},
                                       !.paths[Packing(g)] = f])
       ELSE Goto(g, "list")
    /\ UNCHANGED workspace

(* created.length === 1                                                    *)
TakeTarball(g) ==
    /\ gate[g].pc = "take"
    /\ LET created == Packed \ gate[g].before IN
       IF Cardinality(created) = 1
       THEN \E f \in created :
               Step(g, [gate[g] EXCEPT !.pc = AfterTaking(Packing(g)),
                                       !.next = @ + 1,
                                       !.before = {},
                                       !.paths[Packing(g)] = f])
       ELSE Fail(g, "tool")
    /\ UNCHANGED workspace

(* installPackedPartita, then publishFixture into the temporary root.      *)
PublishFirst(g) ==
    /\ gate[g].pc = "publishFirst"
    /\ Step(g, [gate[g] EXCEPT !.pc = "publishSecond",
                               !.first = PinOf[source["harness"].revision]])
    /\ UNCHANGED workspace

(* publishFixture again, and assertPublicationDeterminism.                 *)
PublishSecond(g) ==
    /\ gate[g].pc = "publishSecond"
    /\ IF PinOf[source["harness"].revision] = gate[g].first
       THEN Goto(g, "list")
       ELSE Fail(g, "tool")
    /\ UNCHANGED workspace

(* assertHarnessArtifact: the tarball is a Harness, carries the checkout's *)
(* Baseline, policy and skill, and the publication of packed Partita.      *)
AssertHarness(g) ==
    /\ gate[g].pc = "assertHarness"
    /\ LET f == gate[g].paths["harness"] IN
       IF /\ f[1] = "harness"
          /\ DataOf[packs[f]] = DataOf[source["harness"].revision]
          /\ PinOf[packs[f]] = gate[g].first
       THEN Goto(g, "list")
       ELSE Fail(g, "tool")
    /\ UNCHANGED workspace

(* The bytes at the paths a gate holds, as sha256 sees them.               *)
Content(paths) ==
    [a \in Artifacts |-> [file |-> paths[a], revision |-> packs[paths[a]]]]

(* Mutant: the digests are of the checkouts, not of the tarballs.          *)
WriteCheckoutDigests(g) ==
    /\ gate[g].pc = "writeInputs"
    /\ inputs' = [valid |-> TRUE,
                  bundle |-> [a \in Artifacts |->
                      [file |-> gate[g].paths[a], revision |-> source[a].revision]]]
    /\ repacked' = FALSE
    /\ Goto(g, "sentinel")
    /\ UNCHANGED <<packs, plans, command, gitLog>>

(* The evidence: each path with the digest of what is there now.           *)
WriteInputs(g) ==
    /\ gate[g].pc = "writeInputs"
    /\ inputs' = [valid |-> TRUE, bundle |-> Content(gate[g].paths)]
    /\ repacked' = FALSE
    /\ Goto(g, "sentinel")
    /\ UNCHANGED <<packs, plans, command, gitLog>>

-----------------------------------------------------------------------------
(* APPLY: readPackedInputs.                                                *)

(* Mutant: the tarballs only have to exist.                                *)
ReadInputsUnhashed(g) ==
    /\ gate[g].pc = "readInputs"
    /\ LET paths == [a \in Artifacts |-> inputs.bundle[a].file] IN
       IF inputs.valid /\ \A a \in Artifacts : packs[paths[a]] # Absent
       THEN Step(g, [gate[g] EXCEPT !.pc = "sentinel", !.paths = paths])
       ELSE Fail(g, "inputs")
    /\ UNCHANGED workspace

(* The evidence must decode, and every path exist with the same digest.    *)
ReadInputs(g) ==
    /\ gate[g].pc = "readInputs"
    /\ LET paths == [a \in Artifacts |-> inputs.bundle[a].file] IN
       IF inputs.valid /\ inputs.bundle = Content(paths)
       THEN Step(g, [gate[g] EXCEPT !.pc = "sentinel", !.paths = paths])
       ELSE Fail(g, "inputs")
    /\ UNCHANGED workspace

-----------------------------------------------------------------------------
(* Both phases: Prelude, an external program, behind the Git sentinel.     *)

(* Mutant: a sentinel starts with an empty log.                            *)
InstallFreshSentinel(g) ==
    /\ gate[g].pc = "sentinel"
    /\ gitLog' = FALSE
    /\ Goto(g, "prelude")
    /\ UNCHANGED <<packs, inputs, plans, command, repacked>>

(* installGitSentinel writes the failing git; it leaves the log alone.     *)
InstallGitSentinel(g) ==
    /\ gate[g].pc = "sentinel"
    /\ Goto(g, "prelude")
    /\ UNCHANGED workspace

(* Prelude reads the tarballs it is handed; it may call git, and it may    *)
(* fail for reasons of its own.                                            *)
Converge(g, ok) ==
    /\ gate[g].pc = "prelude"
    /\ \E git \in BOOLEAN :
          /\ gitLog' = (gitLog \/ git)
          /\ Step(g, [gate[g] EXCEPT !.pc = IF ok THEN "check" ELSE "finally",
                                     !.delivered = Content(gate[g].paths),
                                     !.calledGit = git,
                                     !.why = IF ok THEN "none" ELSE "tool"])
    /\ UNCHANGED <<packs, inputs, command, repacked>>

(* Plans the packed Harness against each Target in turn.                   *)
PreludePrepare(g) ==
    /\ gate[g].phase = "prepare"
    /\ \E planned \in SUBSET Targets :
          /\ plans' = [t \in Targets |->
                IF t \in planned THEN Content(gate[g].paths)["harness"] ELSE plans[t]]
          /\ \E ok \in BOOLEAN : (ok => planned = Targets) /\ Converge(g, ok)

(* Replans, and applies only what was approved exactly.                    *)
PreludeApply(g) ==
    /\ gate[g].phase = "apply"
    /\ \E ok \in BOOLEAN :
          /\ ok => \A t \in Targets :
                gate[g].approved.plans[t] = Content(gate[g].paths)["harness"]
          /\ Converge(g, ok)
    /\ UNCHANGED plans

(* "Target convergence must not invoke Git"                                *)
CheckGitLog(g) ==
    /\ gate[g].pc = "check"
    /\ IF gitLog THEN Fail(g, "git")
       ELSE Goto(g, IF gate[g].phase = "prepare" THEN "writeCommand" ELSE "finally")
    /\ UNCHANGED workspace

(* writeApprovalCommandEvidence reads the plans back from the run root.    *)
WriteCommand(g) ==
    /\ gate[g].pc = "writeCommand"
    /\ command' = [valid |-> TRUE, plans |-> plans,
                   bundle |-> gate[g].delivered]
    /\ Goto(g, "finally")
    /\ UNCHANGED <<packs, inputs, plans, gitLog, repacked>>

-----------------------------------------------------------------------------
Advance(g) ==
    \/ VerifyRepositories(g)
    \/ ListPacks(g)
    \/ PackTarball(g)
    \/ TakeTarball(g)
    \/ PublishFirst(g)
    \/ PublishSecond(g)
    \/ AssertHarness(g)
    \/ WriteInputs(g)
    \/ ReadInputs(g)
    \/ InstallGitSentinel(g)
    \/ PreludePrepare(g)
    \/ PreludeApply(g)
    \/ CheckGitLog(g)
    \/ WriteCommand(g)
    \/ ToolFailure(g)
    \/ Finally(g)

Next ==
    \/ Grant
    \/ \E S \in EditSets, release \in BOOLEAN : Edit(S, release)
    \/ \E g \in Gates : \/ \E phase \in {"prepare", "apply"} : Start(g, phase)
                        \/ Advance(g)
                        \/ Kill(g)

Spec == Init /\ [][Next]_vars

(* Started processes and their children run to an end; no edit, approval   *)
(* or further run is owed.                                                 *)
FairSpec == Spec /\ \A g \in Gates : WF_vars(Advance(g))

-----------------------------------------------------------------------------
Applied(g) == gate[g].pc = "passed" /\ gate[g].phase = "apply"

(* What a process knows at each step: how many artifacts it has packed,    *)
(* and that every tarball it will hand on is there.                        *)
Control(g) ==
    LET s == gate[g] IN
    /\ s.pc \in {"verify", "list", "pack", "take"} => s.next # 5
    /\ s.pc \in {"publishFirst", "publishSecond"} => s.next = 3
    /\ s.pc = "assertHarness" => s.next = 4
    /\ s.pc = "writeInputs" => s.next = 5
    /\ s.pc \in {"sentinel", "prelude"} => s.next = 5 \/ s.phase = "apply"
    /\ s.pc \in {"verify", "list", "pack", "take", "publishFirst", "publishSecond",
                 "assertHarness", "writeInputs", "writeCommand"} => s.phase = "prepare"
    /\ s.pc = "readInputs" => s.phase = "apply" /\ s.next = 1

Holds(g) ==
    LET s == gate[g] IN
    /\ \A i \in 1..4 : i < s.next => packs[s.paths[PackOrder[i]]] # Absent
    /\ s.phase = "apply" /\ s.pc \in {"sentinel", "prelude"} =>
          \A a \in Artifacts : packs[s.paths[a]] # Absent

(* A Git call is in the log for good, and the log is read before a pass.   *)
Sentinel(g) ==
    LET s == gate[g] IN
    /\ s.calledGit => gitLog
    /\ s.pc \in {"writeCommand", "passed"} \/ (s.pc = "finally" /\ s.why = "none") =>
          ~s.calledGit

(* "passed after exact approval" (cross-repo.ts:112, 180-197, 242-248): as *)
(* long as gates never overlapped in the run root, the four tarballs an    *)
(* APPLY ran with are byte for byte those of the PREPARE whose plans the   *)
(* operator approved, however many PREPAREs were started, failed or        *)
(* repacked in between.  A plan binds only the Harness; that it pins the   *)
(* other three comes from pack() refusing a name that exists.              *)
AppliedIsApproved ==
    \A g \in Gates : Applied(g) /\ ~overlapped =>
        gate[g].delivered = gate[g].approved.bundle

(* The sentinel (cross-repo.ts:86, 105, 374-382): a gate that passed made  *)
(* no Git call, even when another gate installed its sentinel meanwhile.   *)
NoGitBehindAPass == \A g \in Gates : gate[g].pc = "passed" => ~gate[g].calledGit

Preparing == {g \in Gates : Running(g) /\ gate[g].phase = "prepare"}

(* Temporary roots (cross-repo.ts:42, 122-131): every PREPARE removes its  *)
(* own unless it is killed, cannot copy its publication evidence or cannot *)
(* remove the root; neither of the two last passes.                        *)
TempRootsAccountedFor ==
    tempRoots = leftovers + Cardinality(Preparing)

(* The inductive strengthening of the type invariant, NoGitBehindAPass and *)
(* TempRootsAccountedFor.                                                  *)
IInv ==
    /\ TypeOK
    /\ TempRootsAccountedFor
    /\ \A g \in Gates : Control(g) /\ Holds(g) /\ Sentinel(g)

(* The approvals that may still be granted or replayed, and the files they *)
(* and the evidence name.                                                  *)
Approvals == {c \in {command, granted} \cup {gate[g].approved : g \in Gates} : c.valid}

Circulates(f) ==
    \/ \E c \in Approvals, a \in Artifacts : c.bundle[a].file = f
    \/ inputs.valid /\ \E a \in Artifacts : inputs.bundle[a].file = f

(* The strengthening of AppliedIsApproved and EvidenceNeverReusesAName: a  *)
(* PREPARE only takes names nobody knows, and from the digests on the      *)
(* evidence is what a gate works with.                                     *)
Lineage(g) ==
    LET s == gate[g] IN
    /\ s.pc \in {"pack", "take"} => \A f \in Files : Circulates(f) => f \in s.before
    /\ s.pc \in {"verify", "list", "pack", "take", "publishFirst", "publishSecond",
                 "assertHarness", "writeInputs"} =>
          \A i \in 1..4 : i < s.next => ~Circulates(s.paths[PackOrder[i]])
    /\ s.pc \in {"sentinel", "prelude", "check", "writeCommand"} => inputs.valid
    /\ s.pc \in {"sentinel", "prelude"} => inputs.bundle = Content(s.paths)
    /\ s.pc \in {"check", "writeCommand"} => s.delivered = inputs.bundle
    /\ s.phase = "prepare" /\ s.pc \in {"check", "writeCommand"} =>
          \A t \in Targets : plans[t] = s.delivered["harness"]
    /\ s.phase = "apply" => s.approved.valid
    /\ s.phase = "apply" /\ (s.pc \in {"check", "passed"} \/ (s.pc = "finally" /\ s.why = "none")) =>
          s.delivered = s.approved.bundle

(* Nothing of an approval is left to chance but its Harness.               *)
Binding(c) ==
    /\ \A t \in Targets : c.plans[t] = c.bundle["harness"]
    /\ c.bundle["harness"].file = inputs.bundle["harness"].file => c.bundle = inputs.bundle

EvidenceIntact ==
    ~repacked /\ inputs.valid =>
        \A a \in Artifacts : packs[inputs.bundle[a].file] = inputs.bundle[a].revision

Exclusive == \A g, h \in Gates : Running(g) /\ Running(h) => g = h

NamesTaken == \A f \in Files : Circulates(f) => packs[f] # Absent

Undisturbed ==
    /\ Exclusive
    /\ NamesTaken
    /\ \A c \in Approvals : Binding(c)
    /\ \A g \in Gates : Lineage(g)

ApprovalInv == EvidenceIntact /\ (overlapped \/ Undisturbed)

(* packed-inputs.prepare.json (cross-repo.ts:160-176, 242-248): a PREPARE  *)
(* replaces the evidence of an earlier one only with four new names, so a  *)
(* retry in the same root needs a new version of every package.            *)
EvidenceNeverReusesAName ==
    [][inputs.valid /\ inputs'.valid /\ inputs' # inputs /\ ~overlapped =>
          \A a \in Artifacts : inputs'.bundle[a].file # inputs.bundle[a].file]_vars

(* readPackedInputs (cross-repo.ts:180-197): APPLY refuses the tarballs    *)
(* only when there is no readable evidence or some gate has packed into    *)
(* the run root since it was written.                                      *)
RefusalIsJustified ==
    [][\A g \in Gates : gate[g].why # "inputs" /\ gate'[g].why = "inputs" =>
          ~inputs.valid \/ repacked]_vars

(* The refinement mapping: bundles take the place of commands, and a       *)
(* process that applies or has applied the place of a delivery.            *)
OfferOf(c) == IF overlapped \/ ~c.valid THEN <<>> ELSE c.bundle

DeliveryOf(s) ==
    IF overlapped \/ s.phase = "prepare" \/ s.pc \in {"idle", "failed"} THEN <<>>
    ELSE IF s.pc = "passed" THEN [bundle |-> s.delivered, done |-> TRUE]
    ELSE [bundle |-> s.approved.bundle, done |-> FALSE]

Delivery == INSTANCE ApprovedDelivery WITH
    None <- <<>>,
    offer <- OfferOf(command),
    approved <- OfferOf(granted),
    delivery <- [g \in Gates |-> DeliveryOf(gate[g])],
    shared <- overlapped

(* The two phases as the gate's users see them (cross-repo.ts:61-76,       *)
(* 78-131, 199-229): every step of every gate process, its kills and       *)
(* failures included, is a step of ApprovedDelivery or changes nothing     *)
(* there, so an offer is replaced only while nothing is being delivered    *)
(* and a Harness file in an outstanding approval never changes meaning.    *)
ImplementsApprovedDelivery == Delivery!Spec

(* Every gate process ends (cross-repo.ts:78-131), whatever the others do. *)
GatesEnd == \A g \in Gates : Running(g) ~> ~Running(g)
=============================================================================

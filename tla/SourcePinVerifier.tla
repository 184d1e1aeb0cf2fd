------------------------- MODULE SourcePinVerifier -------------------------
(***************************************************************************)
(* scripts/verify-source-pins.mjs, the freshness check every build runs,   *)
(* interleaved with maintainers who edit, publish and commit in the same   *)
(* checkout.                                                               *)
(*                                                                         *)
(* A file's bytes are abstracted to the upstream revision they were        *)
(* derived from.  Each pin owns four files: the subtree prefix ("tree"),   *)
(* its subtree contract, and the published archive and provenance.  "work" *)
(* is the checkout, "head" the commit HEAD names.                          *)
(***************************************************************************)
EXTENDS Naturals

CONSTANTS
    PinCount,       \* the length of the script's list of pins
    Versions,       \* upstream revisions
    MaxChanges,     \* bound: repository changes in a behaviour
    MaxRuns         \* bound: runs of the script in a behaviour

ASSUME PinCountAssumption == PinCount \in Nat \ {0}
ASSUME BoundsAssumption == MaxChanges \in Nat /\ MaxRuns \in Nat

Pins == 1..PinCount
SourceKinds == {"tree", "contract"}
PublicationKinds == {"archive", "provenance"}
Kinds == SourceKinds \cup PublicationKinds

VARIABLES
    head,       \* [Pins -> [Kinds -> Versions]], the commit
    work,       \* [Pins -> [Kinds -> Versions]], the checkout
    pc,         \* where the script stands
    pin,        \* the pin of the current loop iteration
    clone,      \* the source files of that pin in the disposable clone
    verdict,    \* why the current run failed, "none" while it has not
    tempRoots,  \* temporary directories on disk
    orphans,    \* those of them that no run will remove any more
    disturbed,  \* history: pins whose evidence changed after it was read
    changes,    \* repository changes so far, at most MaxChanges
    runs        \* runs of the script so far, at most MaxRuns

repository == <<head, work, changes>>
script == <<pc, pin, clone, verdict, tempRoots, orphans, runs>>
vars == <<repository, script, disturbed>>

InTry == {"clone", "publish", "compareArchive", "compareProvenance", "cleanup"}
Running == {"verify", "mkdtemp", "diff"} \cup InTry
Ended == {"passed", "failed"}
Faults == {"unverified", "unpublishable", "staleArchive", "staleProvenance",
           "drift", "tool"}

TypeOK ==
    /\ head \in [Pins -> [Kinds -> Versions]]
    /\ work \in [Pins -> [Kinds -> Versions]]
    /\ pc \in {"idle"} \cup Running \cup Ended
    /\ pin \in Pins
    /\ clone \in [SourceKinds -> Versions]
    /\ verdict \in {"none"} \cup Faults
    /\ tempRoots \in Nat
    /\ orphans \in Nat
    /\ disturbed \in [Pins -> BOOLEAN]
    /\ changes \in Nat
    /\ runs \in Nat

Init ==
    \E v \in Versions :
        /\ head = [p \in Pins |-> [k \in Kinds |-> v]]
        /\ work = [p \in Pins |-> [k \in Kinds |-> v]]
        /\ pc = "idle"
        /\ pin = 1
        /\ clone = [k \in SourceKinds |-> v]
        /\ verdict = "none"
        /\ tempRoots = 0
        /\ orphans = 0
        /\ disturbed = [p \in Pins |-> FALSE]
        /\ changes = 0
        /\ runs = 0

-----------------------------------------------------------------------------
(* Partita, an external program.                                           *)

(* "partita pin verify": the prefix is the revision its contract names.    *)
PinVerified(files, p) == files[p]["tree"] = files[p]["contract"]

(* "partita pin publish": the bytes it derives from verified sources.      *)
Publication(sources) ==
    [k \in PublicationKinds |->
        IF k = "archive" THEN sources["tree"] ELSE sources["contract"]]

-----------------------------------------------------------------------------
(* What the current run has already read of pin p: HEAD's sources once     *)
(* they are cloned, each tracked publication once it is compared, all of   *)
(* it once the run has ended.                                              *)
Reached(p, steps) ==
    \/ pc \in Running /\ p < pin
    \/ pc \in steps /\ p = pin
    \/ pc \in {"diff"} \cup Ended

HeadRead(p, k) ==
    \/ pc \in Ended
    \/ k \in SourceKinds /\ Reached(p, InTry \ {"clone"})

WorkRead(p, k) ==
    \/ pc \in Ended
    \/ k = "archive" /\ Reached(p, {"compareProvenance", "cleanup"})
    \/ k = "provenance" /\ Reached(p, {"cleanup"})

-----------------------------------------------------------------------------
(* Maintainers.                                                            *)

Change(p, read) ==
    /\ changes < MaxChanges
    /\ changes' = changes + 1
    /\ disturbed' = [disturbed EXCEPT ![p] = @ \/ read]
    /\ UNCHANGED script

(* A subtree update or an edit of a prefix or a contract in the checkout.  *)
EditSource(p, k, v) ==
    /\ k \in SourceKinds
    /\ v # work[p][k]
    /\ work' = [work EXCEPT ![p][k] = v]
    /\ Change(p, WorkRead(p, k))
    /\ UNCHANGED head

(* "source-pin:publish:<name>": writes the archive, then the provenance,   *)
(* and may be interrupted between the two.                                 *)
PublishTracked(p) ==
    /\ PinVerified(work, p)
    /\ LET new == Publication([k \in SourceKinds |-> work[p][k]]) IN
       \/ work' = [work EXCEPT ![p]["archive"] = new["archive"],
                               ![p]["provenance"] = new["provenance"]]
       \/ work' = [work EXCEPT ![p]["archive"] = new["archive"]]
    /\ Change(p, \E k \in PublicationKinds :
                    WorkRead(p, k) /\ work'[p][k] # work[p][k])
    /\ UNCHANGED head

(* "git commit" of one file.                                               *)
Commit(p, k) ==
    /\ head[p][k] # work[p][k]
    /\ head' = [head EXCEPT ![p][k] = work[p][k]]
    /\ Change(p, HeadRead(p, k))
    /\ UNCHANGED work

(* "git restore" of one file.                                              *)
Restore(p, k) ==
    /\ head[p][k] # work[p][k]
    /\ work' = [work EXCEPT ![p][k] = head[p][k]]
    /\ Change(p, WorkRead(p, k))
    /\ UNCHANGED head

-----------------------------------------------------------------------------
(* The script.                                                             *)

Goto(step) == pc' = step /\ UNCHANGED <<repository, disturbed, orphans, runs>>

(* A child process that exits nonzero or a thrown error.  Inside "try" the *)
(* "finally" block still runs.                                             *)
Fail(why) ==
    /\ verdict' = why
    /\ Goto(IF pc \in InTry THEN "cleanup" ELSE "failed")
    /\ UNCHANGED <<pin, clone, tempRoots>>

Start ==
    /\ pc \in {"idle"} \cup Ended
    /\ runs < MaxRuns
    /\ runs' = runs + 1
    /\ pc' = "verify"
    /\ pin' = 1
    /\ verdict' = "none"
    /\ disturbed' = [p \in Pins |-> FALSE]
    /\ UNCHANGED <<repository, clone, tempRoots, orphans>>

(* "partita pin verify --root root"                                        *)
VerifyPin ==
    /\ pc = "verify"
    /\ IF PinVerified(work, pin)
       THEN Goto("mkdtemp") /\ UNCHANGED <<pin, clone, verdict, tempRoots>>
       ELSE Fail("unverified")

MakeTempRoot ==
    /\ pc = "mkdtemp"
    /\ tempRoots' = tempRoots + 1
    /\ Goto("clone")
    /\ UNCHANGED <<pin, clone, verdict>>

(* Mutant: the checkout is copied instead of HEAD.                         *)
CloneCheckout ==
    /\ pc = "clone"
    /\ clone' = [k \in SourceKinds |-> work[pin][k]]
    /\ Goto("publish")
    /\ UNCHANGED <<pin, verdict, tempRoots>>

(* "git clone --no-checkout", then "checkout --detach HEAD" in the clone.  *)
CloneHead ==
    /\ pc = "clone"
    /\ clone' = [k \in SourceKinds |-> head[pin][k]]
    /\ Goto("publish")
    /\ UNCHANGED <<pin, verdict, tempRoots>>

(* "partita pin publish --root clone"                                      *)
PublishInClone ==
    /\ pc = "publish"
    /\ IF clone["tree"] = clone["contract"]
       THEN Goto("compareArchive") /\ UNCHANGED <<pin, clone, verdict, tempRoots>>
       ELSE Fail("unpublishable")

(* Mutant: the tracked archive is compared with HEAD's copy of it.         *)
CompareArchiveWithHead ==
    /\ pc = "compareArchive"
    /\ IF work[pin]["archive"] = head[pin]["archive"]
       THEN Goto("compareProvenance") /\ UNCHANGED <<pin, clone, verdict, tempRoots>>
       ELSE Fail("staleArchive")

(* deepEqual(readFileSync(actual), readFileSync(expected)), the archive.   *)
CompareArchive ==
    /\ pc = "compareArchive"
    /\ IF work[pin]["archive"] = Publication(clone)["archive"]
       THEN Goto("compareProvenance") /\ UNCHANGED <<pin, clone, verdict, tempRoots>>
       ELSE Fail("staleArchive")

(* The same for the provenance.                                            *)
CompareProvenance ==
    /\ pc = "compareProvenance"
    /\ IF work[pin]["provenance"] = Publication(clone)["provenance"]
       THEN Goto("cleanup") /\ UNCHANGED <<pin, clone, verdict, tempRoots>>
       ELSE Fail("staleProvenance")

(* Mutant: one iteration too many.                                         *)
RemoveTempRootPastEnd ==
    /\ pc = "cleanup"
    /\ tempRoots' = tempRoots - 1
    /\ IF verdict # "none" THEN Goto("failed") /\ UNCHANGED pin
       ELSE IF pin > PinCount THEN Goto("diff") /\ UNCHANGED pin
       ELSE Goto("verify") /\ pin' = pin + 1
    /\ UNCHANGED <<clone, verdict>>

(* Mutant: the loop retries a pin that failed instead of rethrowing.       *)
RemoveTempRootRetrying ==
    /\ pc = "cleanup"
    /\ tempRoots' = tempRoots - 1
    /\ IF verdict # "none" THEN Goto("verify") /\ verdict' = "none" /\ UNCHANGED pin
       ELSE IF pin = PinCount THEN Goto("diff") /\ UNCHANGED <<pin, verdict>>
       ELSE Goto("verify") /\ pin' = pin + 1 /\ UNCHANGED verdict
    /\ UNCHANGED clone

(* The "finally" block, then the next iteration, the diff or the rethrow.  *)
RemoveTempRoot ==
    /\ pc = "cleanup"
    /\ tempRoots' = tempRoots - 1
    /\ IF verdict # "none" THEN Goto("failed") /\ UNCHANGED pin
       ELSE IF pin = PinCount THEN Goto("diff") /\ UNCHANGED pin
       ELSE Goto("verify") /\ pin' = pin + 1
    /\ UNCHANGED <<clone, verdict>>

(* Mutant: the failing removal is ignored and the loop goes on.            *)
CleanupFailsQuietly ==
    /\ pc = "cleanup"
    /\ orphans' = orphans + 1
    /\ IF verdict # "none" THEN pc' = "failed" /\ UNCHANGED pin
       ELSE IF pin = PinCount THEN pc' = "diff" /\ UNCHANGED pin
       ELSE pc' = "verify" /\ pin' = pin + 1
    /\ UNCHANGED <<repository, disturbed, clone, verdict, tempRoots, runs>>

(* rmSync throws: the clone stays, and its error replaces a pending one.   *)
CleanupFails ==
    /\ pc = "cleanup"
    /\ pc' = "failed"
    /\ verdict' = "tool"
    /\ orphans' = orphans + 1
    /\ UNCHANGED <<repository, disturbed, pin, clone, tempRoots, runs>>

(* Mutant: "git diff" without its list of paths.                           *)
DiffWholeCheckout ==
    /\ pc = "diff"
    /\ IF work = head
       THEN Goto("passed") /\ UNCHANGED <<pin, clone, verdict, tempRoots>>
       ELSE Fail("drift")

(* "git diff --exit-code HEAD" over every tracked publication file.        *)
DiffHead ==
    /\ pc = "diff"
    /\ IF \A p \in Pins, k \in PublicationKinds : work[p][k] = head[p][k]
       THEN Goto("passed") /\ UNCHANGED <<pin, clone, verdict, tempRoots>>
       ELSE Fail("drift")

(* A child process or a filesystem call outside the "finally" block fails  *)
(* for a reason of its own; a failing read of a compared file counts here, *)
(* although its message says "stale" too.                                  *)
ToolFailure ==
    /\ pc \in Running \ {"cleanup"}
    /\ Fail("tool")

(* The process is killed: no "finally" block runs.                         *)
Kill ==
    /\ pc \in Running
    /\ pc' = "idle"
    /\ orphans' = IF pc \in InTry THEN orphans + 1 ELSE orphans
    /\ UNCHANGED <<repository, disturbed, pin, clone, verdict, tempRoots, runs>>

Maintain ==
    \/ \E p \in Pins : PublishTracked(p)
    \/ \E p \in Pins, k \in SourceKinds, v \in Versions : EditSource(p, k, v)
    \/ \E p \in Pins, k \in Kinds : Commit(p, k) \/ Restore(p, k)

Advance ==
    \/ VerifyPin
    \/ MakeTempRoot
    \/ CloneHead
    \/ PublishInClone
    \/ CompareArchive
    \/ CompareProvenance
    \/ RemoveTempRoot
    \/ CleanupFails
    \/ DiffHead
    \/ ToolFailure

Next == Maintain \/ Start \/ Advance \/ Kill

Spec == Init /\ [][Next]_vars

(* A started process runs until it exits or is killed; nobody owes a       *)
(* commit, a publication or another run.                                   *)
FairSpec == Spec /\ WF_vars(Advance)

-----------------------------------------------------------------------------
(* HEAD's publication of p is what Partita derives from HEAD's sources.    *)
HeadCurrent(p) ==
    /\ PinVerified(head, p)
    /\ \A k \in PublicationKinds :
          head[p][k] = Publication([s \in SourceKinds |-> head[p][s]])[k]

(* Nothing about p is pending, stale or uncommitted.                       *)
Clean(p) ==
    /\ HeadCurrent(p)
    /\ PinVerified(work, p)
    /\ \A k \in PublicationKinds : work[p][k] = head[p][k]

(* The strengthening that makes soundness inductive: what the steps taken  *)
(* so far guarantee of a pin whose evidence has not changed since.         *)
Accepted(p, steps) == verdict = "none" /\ pc \notin Ended /\ Reached(p, steps)

Evidence(p) ==
    /\ verdict = "none" /\ p = pin /\ pc \in InTry \ {"clone"} =>
          \A k \in SourceKinds : clone[k] = head[p][k]
    /\ Accepted(p, {"compareArchive", "compareProvenance", "cleanup"}) =>
          PinVerified(head, p)
    /\ Accepted(p, {"compareProvenance", "cleanup"}) =>
          work[p]["archive"] = head[p]["tree"]
    /\ Accepted(p, {"cleanup"}) => work[p]["provenance"] = head[p]["contract"]
    /\ pc = "passed" => HeadCurrent(p)

(* The same for completeness: what a verdict says of the pin it is about.  *)
Charge ==
    /\ verdict = "unverified" => ~PinVerified(work, pin)
    /\ verdict = "unpublishable" => ~PinVerified(head, pin)
    /\ verdict = "staleArchive" => work[pin]["archive"] # head[pin]["tree"]
    /\ verdict = "staleProvenance" => work[pin]["provenance"] # head[pin]["contract"]

(* Which verdicts and pins go with which step.                             *)
Control ==
    /\ pc \in (Running \ {"cleanup"}) \cup {"passed"} => verdict = "none"
    /\ pc = "cleanup" => verdict \notin {"unverified", "drift"}
    /\ pc = "failed" => verdict # "none"
    /\ pc = "diff" => pin = PinCount

(* The temporary root of the current run, and those left behind, at most   *)
(* one by each run that ended and did not pass.                            *)
Hygiene ==
    /\ tempRoots = orphans + (IF pc \in InTry THEN 1 ELSE 0)
    /\ orphans + (IF pc \in Running \cup {"passed"} THEN 1 ELSE 0) <= runs

IInv ==
    /\ TypeOK
    /\ Control
    /\ Hygiene
    /\ \A p \in Pins : disturbed[p] \/ Evidence(p)
    /\ pc \in {"cleanup", "failed"} => disturbed[pin] \/ Charge
    /\ pc = "failed" /\ verdict = "drift" =>
          \E p \in Pins : \/ disturbed[p]
                         \/ \E k \in PublicationKinds : work[p][k] # head[p][k]

(* Soundness (verify-source-pins.mjs:18-91): when a run passes, HEAD's     *)
(* publication of every pin is current, unless what the run had already    *)
(* read of that pin changed before it ended.  HEAD's sources count as read *)
(* from the clone of that pin on, a tracked file from its comparison on.   *)
PassIsCurrent ==
    pc = "passed" => \A p \in Pins : disturbed[p] \/ HeadCurrent(p)

(* Completeness (verify-source-pins.mjs:18-91): a run that no tool failure *)
(* ended rejects only a repository in which some pin really is not clean,  *)
(* or whose evidence changed under the run.                                *)
FailureIsJustified ==
    pc = "failed" /\ verdict # "tool" =>
        \E p \in Pins : disturbed[p] \/ ~Clean(p)

(* The finally block (verify-source-pins.mjs:75-77): once no run is in its *)
(* try block, the clones left on disk are exactly those of runs that were  *)
(* killed or could not remove them; a run leaves at most one, and one that *)
(* passes leaves none.                                                     *)
LeftoversAccountedFor ==
    /\ pc \notin InTry => tempRoots = orphans
    /\ tempRoots <= runs
    /\ pc = "passed" => tempRoots < runs

(* Every run ends (verify-source-pins.mjs:18-91): no step waits for the    *)
(* maintainers, whatever they do to the checkout meanwhile.                *)
RunsEnd == pc \in Running ~> pc \notin Running
=============================================================================

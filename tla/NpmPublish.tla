---------------------------- MODULE NpmPublish ----------------------------
(***************************************************************************)
(* .github/workflows/npm-publish.yml, the only way a release reaches npm.  *)
(* Every dispatch or release starts a job; no concurrency group keeps jobs *)
(* apart, so a rerun or a second dispatch races the first for a version.   *)
(* The registry is external: it serves the first tarball of a version and  *)
(* refuses another.                                                        *)
(***************************************************************************)
EXTENDS Naturals

CONSTANTS
    Jobs,           \* workflow runs
    Commits,        \* commits of Effect Harness that a run may check out
    VersionOf,      \* [Commits -> version in package.json]
    None,           \* no commit, or no job
    GateEnvironment \* CROSS_REPO_PHASE and CROSS_REPO_APPROVALS of the gate step

Phases == {"missing", "prepare", "apply"}
NpmVersions == {VersionOf[c] : c \in Commits}

ASSUME NoneAssumption == None \notin Commits \cup Jobs /\ VersionOf \in [Commits -> Nat]
ASSUME GateEnvironmentAssumption ==
    GateEnvironment \in [phase : Phases, rootAndApprovals : BOOLEAN]

VARIABLES
    jobStep,         \* [Jobs -> the step a job is at]
    commit,     \* [Jobs -> the commit it checked out]
    why,        \* [Jobs -> why it failed]
    registry,   \* [Versions -> the job whose tarball npm serves]
    gated,      \* history: the jobs whose gate was green
    jobFaults      \* whether a child process or the network ever failed

publishVars == <<jobStep, commit, why, registry, gated, jobFaults>>

JobSteps == {"view", "gate", "pack", "publish"}
Reasons == {"none", "unavailable", "alreadyPublished", "gateRefused", "gateRed",
            "tool", "publishRefused"}

PublishTypeOK ==
    /\ jobStep \in [Jobs -> {"queued", "published", "failed"} \cup JobSteps]
    /\ commit \in [Jobs -> Commits \cup {None}]
    /\ why \in [Jobs -> Reasons]
    /\ registry \in [NpmVersions -> Jobs \cup {None}]
    /\ gated \subseteq Jobs
    /\ jobFaults \in BOOLEAN

PublishInit ==
    /\ jobStep = [j \in Jobs |-> "queued"]
    /\ commit = [j \in Jobs |-> None]
    /\ why = [j \in Jobs |-> "none"]
    /\ registry = [v \in NpmVersions |-> None]
    /\ gated = {}
    /\ jobFaults = FALSE

JobGoesTo(j, step) == jobStep' = [jobStep EXCEPT ![j] = step] /\ UNCHANGED <<commit, why, registry, gated, jobFaults>>

(* A step that exits nonzero ends the job.                                 *)
FailJob(j, reason) ==
    /\ jobStep' = [jobStep EXCEPT ![j] = "failed"]
    /\ why' = [why EXCEPT ![j] = reason]
    /\ UNCHANGED <<commit, registry, gated, jobFaults>>

Version(j) == VersionOf[commit[j]]

(* The three checkouts and installs; a fixed commit may be unavailable.    *)
Checkout(j, c) ==
    /\ jobStep[j] = "queued"
    /\ commit' = [commit EXCEPT ![j] = c]
    /\ \/ jobStep' = [jobStep EXCEPT ![j] = "view"] /\ UNCHANGED <<why, jobFaults>>
       \/ /\ jobStep' = [jobStep EXCEPT ![j] = "failed"]
          /\ why' = [why EXCEPT ![j] = "unavailable"]
          /\ jobFaults' = TRUE
    /\ UNCHANGED <<registry, gated>>

(* Mutant: the version is taken by any job that got past the check.        *)
RejectClaimed(j) ==
    /\ jobStep[j] = "view"
    /\ IF \E k \in Jobs \ {j} : commit[k] # None /\ VersionOf[commit[k]] = Version(j)
       THEN FailJob(j, "alreadyPublished")
       ELSE JobGoesTo(j, "gate")

(* "npm view": a version that is served fails the job, and any failure of  *)
(* the command itself passes for a version that is not.                    *)
RejectPublished(j) ==
    /\ jobStep[j] = "view"
    /\ \/ registry[Version(j)] # None /\ FailJob(j, "alreadyPublished")
       \/ registry[Version(j)] = None /\ JobGoesTo(j, "gate")
       \/ /\ registry[Version(j)] # None
          /\ jobStep' = [jobStep EXCEPT ![j] = "gate"]
          /\ jobFaults' = TRUE
          /\ UNCHANGED <<commit, why, registry, gated>>

(* cross-repo.ts throws while it loads unless its environment is complete. *)
GateStarts ==
    \/ GateEnvironment.phase = "prepare"
    \/ GateEnvironment.phase = "apply" /\ GateEnvironment.rootAndApprovals

RunGate(j) ==
    /\ jobStep[j] = "gate"
    /\ IF GateStarts
       THEN /\ jobStep' = [jobStep EXCEPT ![j] = "pack"]
            /\ gated' = gated \cup {j}
            /\ UNCHANGED <<commit, why, registry, jobFaults>>
       ELSE FailJob(j, "gateRefused")

(* "pnpm pack --dry-run", then "pnpm pack", each with its prepack build.   *)
Pack(j) ==
    /\ jobStep[j] = "pack"
    /\ JobGoesTo(j, "publish")

(* Mutant: a publish that npm refuses does not fail the step.              *)
PublishOrTrue(j) ==
    /\ jobStep[j] = "publish"
    /\ jobStep' = [jobStep EXCEPT ![j] = "published"]
    /\ registry' = [registry EXCEPT ![Version(j)] = IF @ = None THEN j ELSE @]
    /\ UNCHANGED <<commit, why, gated, jobFaults>>

(* "npm publish": the registry takes one tarball of a version.  Its answer *)
(* may be lost, which leaves a red job behind a published version.         *)
Publish(j) ==
    /\ jobStep[j] = "publish"
    /\ \/ /\ registry[Version(j)] = None
          /\ registry' = [registry EXCEPT ![Version(j)] = j]
          /\ \/ jobStep' = [jobStep EXCEPT ![j] = "published"] /\ UNCHANGED <<why, jobFaults>>
             \/ /\ jobStep' = [jobStep EXCEPT ![j] = "failed"]
                /\ why' = [why EXCEPT ![j] = "tool"]
                /\ jobFaults' = TRUE
          /\ UNCHANGED <<commit, gated>>
       \/ registry[Version(j)] # None /\ FailJob(j, "publishRefused")

(* Mutant: the gate step has "continue-on-error".                          *)
ContinueOnRedGate(j) ==
    /\ jobStep[j] \in JobSteps
    /\ IF jobStep[j] = "gate"
       THEN jobStep' = [jobStep EXCEPT ![j] = "pack"] /\ UNCHANGED why
       ELSE /\ jobStep' = [jobStep EXCEPT ![j] = "failed"]
            /\ why' = [why EXCEPT ![j] = "tool"]
    /\ jobFaults' = TRUE
    /\ UNCHANGED <<commit, registry, gated>>

(* Any other step turns red: the gate itself, a pack, the upload, or the   *)
(* runner that cancels or loses the job.                                   *)
StepFailure(j) ==
    /\ jobStep[j] \in JobSteps
    /\ jobStep' = [jobStep EXCEPT ![j] = "failed"]
    /\ why' = [why EXCEPT ![j] = IF jobStep[j] = "gate" THEN "gateRed" ELSE "tool"]
    /\ jobFaults' = TRUE
    /\ UNCHANGED <<commit, registry, gated>>

AdvanceJob(j) ==
    \/ RejectPublished(j)
    \/ RunGate(j)
    \/ Pack(j)
    \/ Publish(j)
    \/ StepFailure(j)

PublishNext == \E j \in Jobs : AdvanceJob(j) \/ \E c \in Commits : Checkout(j, c)

PublishSpec == PublishInit /\ [][PublishNext]_publishVars

(* A runner executes the steps of a job it has started.                    *)
PublishFairSpec == PublishSpec /\ \A j \in Jobs : WF_publishVars(AdvanceJob(j))

-----------------------------------------------------------------------------
(* A green job (npm-publish.yml:68-89) means that npm serves the tarball   *)
(* of that very job, whichever other jobs raced it for the version and     *)
(* however many reruns there were: no two green jobs share a version.      *)
GreenMeansPublished ==
    \A j \in Jobs : jobStep[j] = "published" => registry[Version(j)] = j

(* What npm serves (npm-publish.yml:72-89) was packed by a job that passed *)
(* the gate with the commit whose version it is: also when that job lost a *)
(* race, was cancelled or never learned that its upload had arrived, and   *)
(* whatever a job that is green or red says.                               *)
ServedMeansGated ==
    \A v \in NpmVersions : registry[v] # None =>
        /\ registry[v] \in gated
        /\ commit[registry[v]] \in Commits
        /\ Version(registry[v]) = v

(* Racing jobs (npm-publish.yml:68-89) cannot shut each other out: unless  *)
(* something failed, a version some job has started on ends up published.  *)
RaceHasAWinner ==
    \A v \in NpmVersions :
        (\E j \in Jobs : jobStep[j] \in JobSteps /\ Version(j) = v)
            ~> (registry[v] # None \/ jobFaults)

(* HARNESS.md:112-116, the workflow "runs this Gate before its single      *)
(* publish step" and "fails closed when either fixed commit is unavailable *)
(* or the package version already exists on npm": the gate step is never   *)
(* red before the gate has run.                                            *)
GateIsRun == \A j \in Jobs : why[j] # "gateRefused"
=============================================================================

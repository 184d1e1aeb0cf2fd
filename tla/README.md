# Effect Harness in TLA+

Specifications of the programs of this repository that decide whether an Effect
Harness release may exist (the Source Pin verifier, the two-phase cross-repository
gate and the npm publish workflow) and of the concurrent core of the Effect source
that the repository pins under `repos/effect`. TLC checks them on small instances,
TLAPS proves the type invariants of the release programs and the safety properties and
refinements of every modelled component for every value of the constants.

Paths are relative to the repository root. `npm-publish.yml` and `ci.yml` stand
for the files in `.github/workflows`, `cross-repo.ts` for
`tests/acceptance/cross-repo.ts`, `verify-source-pins.mjs` for
`scripts/verify-source-pins.mjs`. Files of the pinned Effect source are named from
`repos/effect/packages/effect/src` on, without `unstable/`.

## The system

Effect Harness is an npm package: a Prelude Harness Module that tells the external
program Prelude which files and dependencies an Effect v4 Target gets, an ESLint
policy, and a bundle of managed files with two reference archives. The archives
are *Source Pin publications*: the external program Partita derives each of them
from a vendored upstream tree.

| Component | Code | State it keeps | Operations | Hard behaviour |
|---|---|---|---|---|
| Source Pin verifier | `scripts/verify-source-pins.mjs`, the `source-pin*` scripts of `package.json` | the loop, a temporary clone per pin | verify, clone HEAD, publish in the clone, two comparisons, `finally`, final diff | reads HEAD and the checkout at different moments while maintainers change both; a kill skips `finally` |
| Cross-repository gate | `tests/acceptance/cross-repo.ts` | the run root: `packs/`, `packed-inputs.prepare.json`, `targets/`, `cross-repo.apply.json`, the Git log; a temporary root in the checkout | PREPARE (verify, pack four artifacts, publish twice, compare, plan), APPLY (check digests, apply), `finally` | an approval outlives the process that asked for it; retries and overlapping gates share the run root; kills tear files |
| npm publish workflow | `.github/workflows/npm-publish.yml` | the registry | checkout, reject published, gate, pack, publish | jobs race for a version; check and publish are two steps; answers are lost |
| Baseline, tsgo policy, Source Pin data | `src/harness/*.ts`, `artifact-assets/effect/managed/data` | none | a load-time provenance guard | one fact repeated in several files |
| Prelude Harness Module | `src/prelude.ts` | none | `harnessModule.plan` | none of its own; Prelude converges its result |
| ESLint policy | `src/eslint.ts`, `src/harness/EslintPolicy.ts` | none | configuration data | none |
| Continuous integration | `ci.yml` | one running job per ref | verify, cancel | `cancel-in-progress` |
| Target Adaptation skill | `artifact-assets/effect/managed/skills` | a conversation | a protocol for an agent | approvals, handoff |
| Vendored Source Pins | `repos/effect`, `repos/tsgo` | see below | what the Baseline gives a Target to run, and reference material | see below |

The pinned Effect source is a runtime for fibers. Fibers run one at a time; one loses
the JavaScript stack when it suspends, when it ends, or when the scheduler makes it
yield between two primitives (`internal/effect.ts:629-640`). Many operations resume
another fiber, which then runs inside the call that resumed it. Interruption and failure may
arrive at any of these points. The parts of it that hold state which several fibers
share are modelled:

| Component | Code | State it keeps | Operations | Hard behaviour |
|---|---|---|---|---|
| Semaphore | `Semaphore.ts` | `permits`, `taken`, a Set of waiters | take, release, resize, `withPermits`, `withPermitsIfAvailable`, the wake-up task | waiters leave and join the Set while it is walked; a large request must not block small ones |
| RcRef | `internal/rcRef.ts` | the state, a count, an idle fiber | get, release, invalidate, close | gets overlap an acquire; the idle time ends as somebody comes |
| RcMap | `RcMap.ts` | entries by key, counts, idle fibers | get, release, invalidate, touch, close | an idle fiber meets another entry under its key |
| Pool | `Pool.ts` | items, available and invalidated ones, waiting gets | get, release, invalidate, resize, expiry, shutdown | resizes are forked; items are released while shutdown walks over them |
| Queue | `Queue.ts` | messages, waiting offers and takers | offer, take, `takeBetween`, end, fail, shutdown | loops resume fibers that call the queue again |
| Transactions | `Effect.ts`, `TxRef.ts` | versioned values, journals, callbacks | `tx`, `txRetry`, get, set | optimistic commits; waiting for a change |
| Layers | `Layer.ts` | memo entries and their observers | build, release | a build fails or is interrupted while others wait for it |
| Request batching | `internal/request.ts`, `RequestResolver.ts` | batches that collect, a cache, a store | request, run, complete, interrupt | requests leave, arrive and are linked while a batch is sent |
| Shard locks | `cluster/Sharding.ts`, `SqlRunnerStorage.ts` | sets of shards in every runner, two tables | sync, acquire, refresh, release, shutdown, crash | every statement is asked, executed and answered at different moments |
| Persisted queue | `persistence/PersistedQueue.ts` | a table or a set of items, mailboxes | offer, take, poll, settle, crash | a worker dies with items locked; a poll waits for its takers |

They interact by use: Pool has a semaphore, `Effect.request` and RcMap fork fibers, the
persisted queue has a Queue for a mailbox and a Latch, layers hold their resources in
scopes. None of them interacts with the release programs above, whose archives only
carry their text.

How the release programs interact. `pnpm verify` (CI, and the gate on each sibling) and every
`prepack` build start with the Source Pin verifier. The gate packs the Harness and
three sibling artifacts, has packed Partita publish the tsgo pin again, and hands
the tarballs to Prelude, which plans two disposable Targets. PREPARE ends by
writing the approvals an operator may grant; a later APPLY replays them. The publish
workflow rejects a version npm already serves, runs the gate, packs and publishes.

What makes each part correct:

- verifier: green means that what HEAD publishes is what its sources give; red
  means that something really is stale, unverified or uncommitted; it always ends
  and cleans up;
- gate: what an APPLY delivers is what was approved; no Git call hides behind a
  pass; digests are refused only for a reason; evidence never silently changes
  its meaning; every gate ends and its temporary root goes;
- workflow: a green job has published its own tarball, the gate ran before it, and
  racing jobs cannot all lose;
- what fibers wait for: nothing is handed out twice or lost, nobody sleeps on what is
  there, a commit is the whole program at one moment;
- resources: counts are exact, nothing is closed while somebody has it, nothing stays open
  when nobody does, and who waits is answered;
- what survives a crash: a shard or an item has one owner at a time, the owner holds
  its lock, and in the end somebody owns it again.

## Modules

| Module | Content |
|---|---|
| `SourcePinVerifier` | the verifier interleaved with maintainers |
| `SourcePinVerifierProofs` | its theorems |
| `CrossRepoGate` | gate processes, operator and maintainers around one run root |
| `NpmPublish` | publish jobs racing for versions |
| `ApprovedDelivery` | abstract: bundles are offered, approved and delivered; `CrossRepoGate` implements it as long as gates do not overlap |
| `ReleaseProofs` | of the gate: type correctness, the sentinel and the temporary roots; from approval to delivery: the evidence, the approvals and the refinement of `ApprovedDelivery`; of the workflow: its theorems |
| `Semaphore`, `PermitPool` | the semaphore; abstract: fibers hold permits of a pool of some size |
| `Transaction`, `AtomicTransfers` | transactions over refs; abstract: a whole program takes effect at once |
| `Queue`, `Fifo` | the queue of all three strategies; abstract: a set of values, which are offered and dropped, and taken in the order of the offers |
| `RcRef`, `RcMap`, `Pool`, `LayerMemo` | the shared resources |
| `RequestBatch`, `PersistedRequests` | requests collected and cached; results written to a store |
| `ShardLocks` | runners, their loops and the two tables |
| `PersistedQueue`, `MemoryQueue`, `WorkQueue` | both stores of the persisted queue; abstract: an item is worked on by one consumer at a time until it is settled |
| `SemaphoreProofs`, `RcRefProofs`, `ShardLocksProofs` | their theorems |
| `HandoverProofs` | the theorems of `Transaction` and `Queue` |
| `SharingProofs` | the theorems of `Pool`, `LayerMemo`, `RequestBatch` and `PersistedRequests` |
| `StoreProofs` | the theorems of `RcMap`, `MemoryQueue` and `PersistedQueue` |
| `MC*` | constants, symmetry and small values for TLC |

Operators whose comment begins with "Mutant:" are deliberate errors, next to the
definition they would replace. With any of them in place a run fails; they are
never part of a specification.

### SourcePinVerifier

A file's bytes are abstracted to the upstream revision they come from. A pin has
four files: `tree` (the subtree prefix), `contract` (`<prefix>.subtree.json`),
`archive` and `provenance`. `work` is the checkout and `head` the commit.
`partita pin verify` compares tree and contract; `partita pin publish` derives the
archive from the tree and the provenance from the contract. These two are
Partita's, modelled from how the script uses them.

`pc` walks through the script: `verify` (lines 19-30), `mkdtemp` (32), `clone`
(34-36), `publish` (38-56), `compareArchive` (58-67), `compareProvenance` (68-73),
`cleanup` (75-77), `diff` (80-89). `Fail` is an exception: inside `try` it goes
through `cleanup`, elsewhere the process ends. `ToolFailure` lets every child
process and file operation fail for a reason of its own, `CleanupFails` is an `rmSync`
that throws in the `finally` block, `Kill` ends the process anywhere. `orphans` counts the
clones that a kill or a failed removal leaves behind.
`EditSource`, `PublishTracked` (which may stop between the archive and the
provenance), `Commit` and `Restore` (file by file) are the maintainers.

`disturbed` is a history variable: a pin is disturbed once something the current run
had already read of it changes: HEAD's sources count as read from the clone of that
pin on, a tracked file from its comparison on. Without it no claim holds at all,
since a commit may always arrive one instant after the verdict. A change *before*
the script read it disturbs nothing, so HEAD moving between the two clones is fully
covered.

### CrossRepoGate

A tarball is named by its artifact and package version; its bytes are a revision, so
the same name may hold different bytes. `source` is what `pnpm pack` would write
now, `packs` the directory `packs/`, `inputs` the evidence
`packed-inputs.prepare.json`, `plans` the two `targets/<name>.prepare.json`,
`command` the file `cross-repo.apply.json`, `granted` the environment the operator
has copied from it, `gitLog` the sentinel's log and `tempRoots` the number of
temporary roots in the checkout. Each gate process is a record: its step, phase,
number of artifacts packed, paths, and what it was approved for.

PREPARE: `VerifyRepositories`, then `ListPacks`, `PackTarball`, `TakeTarball` per
artifact (`pack()` is three reads and writes of a shared directory, so it is three
actions), `PublishFirst` and `PublishSecond` (with the determinism check) after
Partita, `AssertHarness` after the Harness, `WriteInputs`. APPLY: `ReadInputs`. Both:
`InstallGitSentinel`, Prelude (`PreludePrepare`, `PreludeApply`), `CheckGitLog`;
PREPARE then writes `WriteCommand`. `Finally` is the `finally` block, in which the
copy of the publication evidence may fail and skip the removal, and the removal may fail
itself; both leave the root, turn the gate red and are counted in `leftovers`. `Start` has the
guards of lines 30-35. A kill during `WriteInputs` or `WriteCommand` leaves a file
that no longer parses.

Prelude is external. In PREPARE it writes the plans of some of the Targets, all of
them if it succeeds; a plan records the Harness tarball it was made for and no other.
In APPLY it succeeds only if both approved plans are for the Harness tarball it was
given. It may call Git in either phase.

Left out: the content of the plans, the names and wording of failures, and
`CROSS_REPO_KEEP_TEMP`. In the code `preserveWorkspace` is true in both phases,
so the `else` branch of line 129 is dead and the flag changes nothing; equally the
`else` branch of `verifyRepositories` (140-142) is dead because only PREPARE calls it.
A tarball that a failing `pnpm pack` leaves half-written under an existing name is
one more revision of that name and is covered by the edits.

### NpmPublish

Each job walks through `view`, `gate`, `pack`, `publish`. The registry maps a
version to the job whose tarball it serves and takes only one. `npm view` passes
when the version is not served, and also when the command itself fails (the `if` of
line 71 cannot tell them apart). A publish may succeed and its answer be lost. There
is no concurrency group, so any number of jobs run at once. `GateEnvironment` is what
the gate step puts into the environment; `GateStarts` are the guards of
`cross-repo.ts:27-35`. The history variable `gated` has the jobs whose gate was green, so
that what npm serves can be compared with what the gate saw.

### The Effect components

Each module names the lines it stands for in `PROJECT.json`, so only what connects them
is said here.

*Steps.* What a fiber does between two points at which it may lose the stack is one
action, with everything it calls. `running` (Semaphore), `stack` (Queue) and `resumed`
(MemoryQueue) are the JavaScript stack where a resumed fiber runs inside its resumer;
`cursor` is the iterator of the loop over waiters, which in JavaScript survives the
deletion of what it has passed. The other modules have no such calls and need none.
`MayYield` and `Yields` allow the scheduler to yield between any two primitives.

*Interruption, failure and crash* are actions or disjuncts that are enabled wherever the
code is interruptible, an acquire or statement may fail, or the process may die. A crash
(ShardLocks, PersistedQueue) keeps the tables and loses the rest.

*Time.* Idle times and expiring locks are small ages counted by a `Tick` (`LocksAge` in
PersistedQueue). A tick may not
overtake work the code does well within the time, except where a constant (`Late`,
`Long`) lets it. In Pool and RcRef a time may end at any moment.

*Hazard constants.* `Hazards` (RcRef, RcMap), `SlowRetry`, `Late`, `Stale`, `Bad`, `Undecodable`,
`Long`, `Yields`, `OneTaker`, `Rebuild`, `Orphans`, `Immediate`, `Fails` and `Slow` switch on situations in which the code
does not keep some property; "What the code does not keep" below lists them. With a
constant off the situation is excluded by a guard, and the property is checked for
all the others; some runs have it on and check what still holds.

*Refinements.* `Semaphore` maps `held` to the permits of the fibers inside, so that
`PermitPool` sees a fiber get its permits at one moment although they are counted in one
number and given back later. `Transaction` maps to `AtomicTransfers` at the commit: journals
and validation are stuttering steps. `Queue` maps the messages, the waiting offers and the
values handed over to `Fifo`. `PersistedQueue` and `MemoryQueue` map to `WorkQueue`: who works on
what is read off the consumers, what is settled off the table or the attempts.
`CrossRepoGate` maps the evidence to the offer, the operator's grant to the approval and
an APPLY that Prelude accepts to the delivery.

*Left out.* In RcRef, the few primitives between the end of `getState` and the
registration of the finalizer are one step. RcMap does not say what a lookup returns. Pool's own
semaphore is a PermitPool without its queue. Queue has no `offerAll`, `peek`, `clear` and
`await`. ShardLocks has neither the advisory locks of PostgreSQL and MySQL nor marking
runners unhealthy, and no messages. The Redis store of the persisted queue is left out, since
what its Lua scripts do depends on how Redis converts replies. Layer combinators and the
remaining request resolvers only compose what is modelled. In RequestBatch the pool of
batches is one resolver's own and, where delays may complete at once, never full (128 batches).
In PersistedRequests a call has one entry per primary
key, a resolver completes an entry once at most, and the callbacks `timeToLive` and
`staleWhileRevalidate` do not throw; which exits are not stored is the constant `Transient`.
A result of the store may expire at any moment; statements fail as a whole or, when they
write, after any part of it.

*Delays and stores.* `Collect` is a request whose batch waits for its delay. A delay that
completes without suspending is run inside `addEntry` (`internal/request.ts:164`), before
the request is in the batch: `RequestWhileRunning` is the case in which `runAll` then
suspends, `RequestTooLate` the one in which the run is over by the time the request is
added. In `Load` a stale entry is completed through the wrapper that was installed just
before (`RequestResolver.ts:1222-1230`), so that its old exit is one to persist from the
start; `FailResolver` therefore finds it there, and `Save` writes it back if the
resolver left the entry out.

*Composition for checking.* Components that do not share state are checked side by side:
`MCWaiting` extends `Semaphore` and `RequestBatch`, `MCQueues` `Transaction` and `Queue`, `MCResources`
`RcRef`, `Pool` and `LayerMemo`, `MCStores` `RcMap`, `PersistedQueue` and `MemoryQueue`, `MCShards`
`ShardLocks`. Their constants are in the `.cfg`. Each holds instances besides, of the same components
with other constants or of others, with variables of their own; `part` says which of them runs. A behaviour is one of one component; the others keep their initial state. So the states
add up and do not multiply, and every property is asked of every instance it is stated for. A
property with the name of a component's own (`SemaphoreSafe`, `RequestsSafe`, `TransactionsSafe`, `QueueSafe`,
`RefSafe`, `PoolSafe`, `LayerSafe`, `MapSafe`, `LocksHeld`, `MemoryQueueSafe`, `ShardsSafe` and three refinements) is that
of the component the module extends; `AnswersKept`, `QueuesAreFifo`, `VariantsSafe`, `StoresAreWorkQueues` and the liveness
properties collect those of the instances.

## Runs

| Run | Question | Bounds | Size |
|---|---|---|---|
| `pins` | Is a green verifier sound, a red one justified, and are only the clones of killed runs and failed removals left? Is `IInv` an invariant? | 2 pins, 2 revisions, 6 changes, 2 runs | 216k states |
| `pins_liveness` | Does every run end? | the same with 3 changes, no symmetry | 16k |
| `gate` | Does a passed APPLY deliver what was approved? Is evidence replaced only under new names, and refused only with reason? Does the gate implement `ApprovedDelivery`? Is `ApprovalInv` an invariant? | one gate at a time, 3 runs, 2 versions x 2 revisions, 2 edits | 637k |
| `gate_overlap` | Do the sentinel and the temporary roots survive overlapping gates? Is `IInv` an invariant? | 2 gates, 3 runs, no edits | 83k |
| `gate_liveness` | Does every gate end? | 2 gates, 2 runs | 29k |
| `publish` | Has everything that is served passed the gate? Does green mean published, and does a race have a winner? | 3 jobs, 3 commits, 2 versions | 33k |
| `publish_gate` | Does the workflow as written run the gate? | the same | violated |
| `effect_waiting` | Are permits counted exactly and no waiter left behind? Is a semaphore a permit pool? Is a request in exactly one batch, answered, and its result kept? Does who waits go on? | 3 fibers asking for 1, 2 and 1 permits of 1 or 2, a resize; 3 requests in 2 batches, with delays that suspend and that may not; 2 calls over 2 entries of a store | 210k |
| `effect_handover` | Is a transaction atomic, and is no change missed? Does a queue of each strategy hand over in order, within its bounds, and strand nobody? | 4 transactions over 2 refs; capacities 0, 1, 2 with 2 producers and 2 consumers | 117k |
| `effect_resources` | Are counts exact, is nothing closed in use or left open, also when clients overlap and yield? Does the idle time end and every get? | 2 users of a reference with 4 successive resources; 2 keys, 3 fibers with yields and `releaseAll`; pools of 0 to 2 items with 2 or 3 users; 2 or 3 builders, three forked maps | 300k |
| `effect_stores` | Is each store a work queue whose workers have the locks, does every item settle, and does a map keep and release its entries? | 1 or 2 workers, 2 consumers, 1 to 3 items of which one does not decode, 1 fault; 2 users, 1 key, 3 successive entries | 143k |
| `effect_shards` | Does one runner at a time process a shard, under its lock, and some runner again after a crash? | 2 runners, 1 shard, a crash and a failing statement | 232k |

Why the bounds are enough. Two pins are the script's own list. Two revisions tell
stale from current; six changes allow an update of both sources of a pin, its
publication and the three commits that make HEAD wrong in the middle of a run. Two
runs let a second run start over the leftovers of a killed one. Three gate runs are a
PREPARE, one run that interferes and an APPLY; two edits allow everything to be
released and one artifact to change under its version, or the reverse. The overlap
run needs no edits: its two properties do not mention tarball content.

For the Effect components: two users meet at every shared thing, and a third (or a second
producer and consumer) comes while they do; capacities are below the number of users, so that
somebody always waits; three maps make the nearest ancestor that has a layer differ from
the nearest ancestor; two calls over one store make each find what the other has stored,
replaced or is about to write back; requests of different size make a big waiter stand in front of a
small one; four resources per reference and three entries per map let an idle
fiber outlive the successor of what it slept for. A work item can fail, be retried and be
given up within two attempts. One crash at any point meets every combination of a lock, a
statement on its way and a shard that moves. One shard is
enough for two runners to contend: rows are independent, and what the loops do they do shard
by shard. A second shard or crash makes the run too large for its liveness property.

`AppliedIsApproved` is stated for run roots in which gates never overlapped. The
restriction is needed: with two PREPAREs at the same time, TLC shows one of them
recording digests of a tarball that the other then replaces, or an APPLY whose
tarballs change between their digest check and Prelude. The code has no lock on a
run root; this is a use the documentation does not promise anything about.

`CHECK_DEADLOCK FALSE` is set in every run: a behaviour ends when its bounded runs
and changes are used up, and no maintainer, operator or client owes another. That nobody
is left waiting is stated by properties of its own.

### Fairness

Liveness is checked under weak fairness of each process's own steps (`Advance`):
a process that was started keeps being scheduled and its child processes exit, with
whatever status. `spawnSync` and `execFileSync` block without a timeout, so a child
that hangs would hang the program; that assumption is the price of `RunsEnd` and
`GatesEnd`. For jobs it is the runner that provides it. Nobody owes an edit, a commit,
an approval, a new run or a checkout.

In the Effect components weak fairness is given to the steps that `runLoop` and the
scheduler perform for a fiber that can go on (`FiberStep`, `Step`, `UserStep`, `Builds`,
`BatchRuns`, and `Take`, `Receive`, `Started`, `Ends` of a consumer), to scheduled tasks (`Wake`, `Loops`, `PoolStep`,
`IdleStep`, `Polls`, `Idle`, `Resume`), to finalizers that
have begun (`CloseMap`, `Shutdown`, `ScopeClosed`), to the loops and restarts of a runner
(`Sync`, `Releases`, `Restart`) and to clocks. That includes the end of what runs inside
`withPermits`, of an acquire and of the scope a resource was got in (RcRef, Pool, LayerMemo): who holds
something for ever makes others wait for ever, with any implementation. Clients owe no call, no
interruption, no invalidation and no close of the shared thing itself. The loops of a runner have strong
fairness for their statements (`Acquires`, `Refreshes`): each loop retries on a schedule,
so that a statement which keeps being possible is made again even if a release
interrupts it in between. In MemoryQueue a handler that is started again and again
(`SucceedTake` or `FailTake`) ends again and again. `WaitersGoOn` asks that requests are answered
behind a cache with delays that suspend, and without a cache also with delays that do not;
`ItemsSettle` asks it of the elements that can be decoded. The excluded combinations are in the
table below.

### A disagreement between the workflow and its documentation

`HARNESS.md:112-116` says that the workflow "runs this Gate before its single
publish step", and `tests/verification-graph.test.ts:99` that it "gates npm publish
on packed acceptance". The step (`npm-publish.yml:76-80`) sets `PRELUDE_ROOT` and
`PARTITA_ROOT` but no `CROSS_REPO_PHASE`, and `cross-repo.ts:30-31` throws unless it
is `prepare` or `apply`. The run `publish_gate` has the counterexample: a job goes
green up to the gate step and fails there before the gate has run. It fails closed,
so nothing wrong is published; nothing can be published either. The test only
compares the position of the two strings. The run `publish` gives the step a phase, so
that the steps behind it are checked as well.

### What the code does not keep

While the Effect components were modelled, TLC refuted these sentences of the pinned
source's own comments in the instances named. Each line can be repeated by giving the module the
constants of its part in the `MC*` module with the setting of the third column
(liveness: under the fair specification of the module) and checking the property alone. The runs above
are the instances in which the properties hold; the guards of the hazard constants are
exactly these situations.

| Module | Property | Setting | What the code does | What its comment says |
|---|---|---|---|---|
| `Semaphore` | `AllReturned` | fibers yield and are interrupted (`MayYield = TRUE`) | `take` counts the permits (222) and returns an Exit that an interruption may discard before the finalizer is there (267; `internal/effect.ts:630-639`). | permits "are returned when the work finishes" (`Semaphore.ts:5-6`) |
| `Semaphore` | `FirstInFirstOut` | requests of 1 and 2 permits | A waiter whose request does not fit is passed by (211, 234-237). | takes "are processed in a first-in, first-out manner" (`Semaphore.ts:123`) |
| `Semaphore` | `NoStrandedWaiter` | a request of 0 permits, a resize | `take(0)` waits while `free` is negative, and the loop runs only while `free > 0` (234). | "will wait until they are released" (`Semaphore.ts:81-82`) |
| `RcRef` | `Shared` | `Hazards = {"overlap"}` | Two gets that start before the first resource is there both acquire (98, 108-126). | "acquired lazily on the first `get` and shared" (`RcRef.ts:116-117`) |
| `RcRef` | `Shared` | `Ttls = {"none"}`, two invalidations | The last user of an invalidated entry empties the reference, whatever it holds by then (144-146). | the same |
| `RcRef` | `NothingLeaks` | `Hazards = {"partial"}` | The scope of an acquire that fails is never closed (109-126). | "finalizes it when the final borrowing scope closes" (`RcRef.ts:4-5`) |
| `RcRef` | `NothingLeaks` | `Hazards = {"closing"}` | A get that acquires while the reference closes overwrites `stateClosed` (123, 164). | "the resource is closed immediately by default, or after `idleTimeToLive`" (`RcRef.ts:118-120`) |
| `RcMap` | `NothingLeaks` | `Hazards = {"reget"}`, infinite time | `release` asks whether the key is in the map, not whether its entry is (381-391). | "automatically released when no longer in use" (`RcMap.ts:32-33`) |
| `RcMap` | `Shared` | `Hazards = {"reget"}`, finite time | The idle fiber removes its key, whichever entry is there (403). | "acquired once per key and shared while in use" (`RcMap.ts:196-197`) |
| `RcMap` | `IdleEnds` | `Hazards = {"yield"}` | A release trusts an idle fiber that has already decided to do nothing (396, 402, 408-410). | "the resource will be released after this duration" (`RcMap.ts:204`) |
| `Pool` | `GetsEnd` | an elastic pool, `Min = 0`, `Max = 2` | A release before the forked resize adds the item but opens no latch, and the resize finds nothing to do (475-484, 455, 549-551). | "waits for an available item" (`Pool.ts:410`) |
| `Pool` | `ClosedMeansReleased` | any | Shutdown calls `releaseAll` on its local semaphore and passes at once (381-394). | "releases all acquired values when the pool scope closes" (`Pool.ts:5-6`) |
| `Queue` | `ImplementsFifo` | capacity 2, `takeBetween` of 2 | A producer resumed in `releaseCapacity` offers again, ahead of the offers not yet let in (1898-1905). | "hands each value to one consumer in offer order" (`Queue.ts:4-5`) |
| `Queue` | `NoneTwice` | a fiber that both offers and takes | The entry of a waiting offer is deleted after its fiber was resumed (1902-1905). | the same |
| `Queue` | `NoDefect` | a resumed producer shuts the queue down | `self.state.offers` is gone when the loop deletes from it (1904-1905). | "If the queue is done, it will fail with `Done`" (`Queue.ts:1361-1362`) |
| `Queue` | `NoStrandedTaker` | sliding, `MayYield = TRUE` | `awaitTake` does not look at the messages again (1919-1924), and an offer to a full sliding queue schedules nothing (647-650). | "or wait for a message to be available" (`Queue.ts:1356-1357`) |
| `Queue` | `EndedTakesEnd` | `Least = 2` | The end wakes nobody while messages are left (930-937). | "fails with the queue's terminal error" (`Queue.ts:1315-1317`) |
| `Queue` | `MinimumKept` | `Least = 2` | Any wake-up goes on as `takeBetween(self, 1, max)` (1352). | "waits when fewer than the required minimum messages are available" (`Queue.ts:1314-1315`) |
| `Queue` | `NothingLost` | `MayYield` and `MayWithdraw` | A taken value is an Exit that an interruption may discard (1398, 1529-1532). | "hands each value to one consumer" (`Queue.ts:4-5`) |
| `Transaction` | `NoMissedChange` | `SlowRetry = TRUE` | `awaitPendingTransaction` does not ask whether what was read has changed already (14702-14720). | retried when "any accessed transactional value changes" (`Effect.ts:14619-14621`) |
| `LayerMemo` | `NoDuplicate` | `Rebuild = TRUE`, one map | The entry goes before its scope is closed (395-398), so a build in between makes a second instance. | "prevents duplicate construction" (`Layer.ts:190-191`) |
| `LayerMemo` | `LayerLeaksNothing` | `Yields = TRUE`, one map | Observers are counted when the effect is made, finalizers added when it runs (242, 402, 403-405). | "released when the supplied scope is closed" (`Layer.ts:695-696`) |
| `RequestBatch` | `RequestsEnd` | `Orphans = TRUE`, `Cached = TRUE`, 4 requests | A request interrupted before its batch runs leaves the batch but not the cache, and those linked to it wait (`RequestResolver.ts:1122-1137`, `internal/request.ts:187-188`). | "it must be completed or linked to another completion path" (`RequestResolver.ts:172-173`) |
| `RequestBatch` | `GoodBatches` | `Immediate = TRUE` | A delay that does not suspend runs the batch inside `addEntry`, before its entry is added (`internal/request.ts:164`, 201-205). | "`runAll` receives a non-empty batch for one key" (`RequestResolver.ts:166-167`) |
| `RequestBatch` | `RequestsEnd` | `Immediate = TRUE`, `Cached = TRUE` | If that run is over, the entry goes into a batch of the pool, which nobody runs, and its caller dies of `collectWhile` (169); what is linked to it by the cache waits. | "Accepted entries must be completed" (`RequestResolver.ts:171`) |
| `PersistedRequests` | `StoredAsAnswered` | `Fails = TRUE` | The test of line 1238 is the wrong way round: entries with a result get the failure stored over it. | "resolved normally and written back" (`RequestResolver.ts:1153-1154`) |
| `PersistedRequests` | `Refreshed` | `Fails = TRUE` | A stale entry has its old exit in `toPersist` (1224, 1230), so that a failure is stored over a result that was never resolved again (1238). | "so the refreshed result can be written back to the store" (`RequestResolver.ts:1155-1156`) |
| `PersistedRequests` | `ResultsStay` | `Slow = TRUE` | The removal of a result that does not decode is forked and goes by the key: it may come after another call has saved (`persistence/Persistence.ts:192-196`). | "Entries are process-local and expire according to their stored TTL" (`persistence/Persistence.ts:237`) |
| `ShardLocks` | `ActiveMeansLocked` | `Late = TRUE` | Nothing compares the time with the expiration; a slow refresh is noticed when it answers (395-400). | "the active shards are the ones that we have acquired the lock for" (`cluster/Sharding.ts:244`) |
| `ShardLocks` | `ActiveMeansLocked` | `Stale = TRUE` | A late refresh answer releases a shard that has been asked for again (411-417, 369-373). | the same |
| `ShardLocks` | `EveryShardProcessed` | `MaxFailures = 1`, fair | After six failures `selfShards` is emptied (424-428, 442-445) and filled only when the set of runners changes (964-981). | "if a shard has been assigned to this runner, we acquire it" (`cluster/Sharding.ts:344`) |
| `PersistedQueue` | `LocksHeld` | `Long = TRUE`, 2 workers | Nothing is ever added to `elementIds` (936), so no lock is refreshed. | "refreshes active locks while scoped takes are running" (`persistence/PersistedQueue.ts:749-750`) |
| `PersistedQueue` | `StoredItemsSettle` | the only item is in `Bad` | The scope of a value that cannot be decoded is never closed (174-184), and the attempt is not counted. | "until the maximum attempts is reached" (`persistence/PersistedQueue.ts:56-57`) |
| `PersistedQueue` | `StoredItemsSettle` | `Yields = TRUE`, 2 consumers of 1 worker, a fault | `takenLatch` opens only after a take that succeeded (1147-1156). | "waiting until one is available" (`persistence/PersistedQueue.ts:78-79`) |
| `PersistedQueue` | `NoHoarding` | 1 consumer, 2 items, a fault | An interrupted take leaves `takers` as it was (1143, 1147-1149). | "lets workers take one value at a time" (`persistence/PersistedQueue.ts:5-6`) |
| `MemoryQueue` | `ElementsSettle` over all of `Elements` | one of them in `Undecodable` | The store's take has removed the item when its value fails to decode (182), and the scope whose finalizer would put it back is never closed (174, 184). | "until the maximum attempts is reached" (`persistence/PersistedQueue.ts:56-57`) |
| `MemoryQueue` | `NoDefect` | `OneTaker = FALSE` | All waiting takes go on when the latch opens; the second finds the set empty (332-333; `internal/effect.ts:5396-5403`). | "waiting until one is available when the queue is empty" (`persistence/PersistedQueue.ts:78-79`) |

One more thing about stored results is no sentence of a comment: a stale entry that a resolver leaves
out has its old exit written back when its call saves, also over a newer result that
another call has stored meanwhile. `Refreshed` states what a save writes and allows it.

## Proofs

The theorems hold for any number of pins, revisions, gates, jobs, edits and runs, of fibers,
permits, transactions, refs, programs, users, keys, runners, shards, crashes and failures. They
assume the named assumptions of the modules, which TLC evaluates in the runs, and the conditions they state: the bounds are
numbers, `None` and `Nobody` are nobody, the sets that are counted over are finite; what else
they say is given below. Each theorem comes from an invariant that every step keeps, one
lemma per action. The inductive invariants of the release programs are invariants of runs (`IInv`,
`ApprovalInv`); those of the Effect components, which speak of bookkeeping only the
proofs need, stand in the proof modules. What is claimed under a condition (no overlapping gates,
`~MayYield`, `~Long`, `Tame`) is claimed so because the code breaks it otherwise, as told
above for each.

### The release programs

- `SourcePinVerifierProofs`: `Inductive`, `TypeCorrect`, `Soundness`
  (`PassIsCurrent`), `Completeness` (`FailureIsJustified`) and `NoLeftovers`. The
  properties talk only about ended runs, so they are not inductive. `IInv` adds what
  each completed step established: `Evidence` (the clone equals HEAD's sources, the
  compared files equal what those derive) for every pin not disturbed since, `Charge`
  (what a verdict says of the pin it is about), `Control` (which verdict goes with which
  step) and `Hygiene` (one temporary root inside `try`, all others accounted for by kills and
  removals that failed). Soundness follows
  because `diff` joins the evidence about the checkout with HEAD's files.
- `ReleaseProofs`, the processes: `GateInductive`, `GateTypeCorrect`, `SentinelIsHonest`
  (`NoGitBehindAPass`) and `TempRootsExact` (`TempRootsAccountedFor`). Type
  correctness is not inductive by itself: evidence may only name tarballs that exist,
  which depends on how far a gate has come. `Control` gives the number of artifacts a
  gate has packed at each step, `Holds` that every path it took still exists (packs
  only grow, which is `Monotone` in the proof), `Sentinel` that a Git call stays in the
  log. `TempRootsExact` counts the running PREPAREs with the library's cardinality
  facts. One lemma shows that a step keeps the other processes' part of the
  invariant, one that a step which keeps running keeps the count; then there is one
  lemma per action.
- `ReleaseProofs`, from approval to delivery: `ApprovalInductive`, `ApplyDeliversTheApproved`
  (`AppliedIsApproved`), `EvidenceIsFresh` (`EvidenceNeverReusesAName`) and
  `RefusalsAreJustified` (`RefusalIsJustified`). The difficulty is that a plan records
  only the Harness tarball, while the claim is about four. `ApprovalInv` has what closes
  the gap. `EvidenceIntact`: until something is packed, the bytes on disk are those of
  the evidence, gates overlapping or not; `RefusalsAreJustified` follows from this alone.
  As long as gates did not overlap, `NamesTaken`: every file that the evidence or an
  approval names exists; `Lineage`: so the names a PREPARE lists before it packs include
  them all, and the one name it takes is a new one; `Binding`: so two bundles with the
  same Harness file are the same bundle, whether they come from the evidence or from an
  approval that is awaited, granted or being replayed. An APPLY that Prelude accepts then
  has the approved Harness and with it the approved bundle.
- `GateDelivers` is the refinement itself, `ImplementsApprovedDelivery`: with both
  invariants each action of the gate is an action of `ApprovedDelivery` or changes nothing
  there. The steps that count are `WriteCommand` (an offer), `Grant`, `Start` of an
  APPLY (begins with what is granted), `Finally` and `Kill` (deliver, abandon or withdraw);
  all others stutter. Two gates at a time are one step to "nothing is promised",
  which no later step leaves.
- `ReleaseProofs`, the workflow: `ServedIsGated` (`ServedMeansGated`) and `GreenIsPublished`
  (`GreenMeansPublished`). The strengthening joins both with the types and with `Started`: a job
  past its checkout has a commit, and one past its gate is in `gated`.

### The Effect components

- `SemaphoreProofs`: `SemaphoreInductive`, `SemaphoreIsSafe` (`SemaphoreSafe`) and
  `SemaphoreIsAPool` (`ImplementsPermitPool`). No lost wake-up is inductive only together with
  where everybody is. `Queued`: the Set of waiters has nobody twice and holds exactly those
  who wait or have been interrupted while they did. `NotStranded`: a waiter that could be served is still ahead of the
  cursor, or a task is scheduled; the step to look at is a fiber that takes permits or leaves the
  Set inside the loop, which moves the cursor. `OnStack`: unless fibers yield, a fiber that
  has its permits and no finalizer yet is the one on the stack, so that no interruption can come
  between; that is why the count is exact under `~MayYield` and otherwise only an upper bound.
  `Counted` is about a sum over fibers: the library's folds are recursive functions, and the module first
  proves what such a sum is (`MinimalSubset`, `AddsUpUnique`, `AddsUpExists`, `TotalIsSum`,
  `TotalChanges`), by looking at a smallest set of fibers for which it would be wrong.
  `NoStrandedWaiter` is claimed for requests of at least one permit: `take(0)` is the exception in
  the table above. The refinement assumes that nobody calls `releaseAll`, which drops the
  count under fibers that go on.
- `HandoverProofs`, transactions: `TransactionsAreWoken` (`TransactionsSafe`) and
  `TransactionsAreAtomic` (`ImplementsAtomic`). `Journaled` says of every entry of a journal whose version
  is still that of its ref that it holds the value of the ref, less what the program has
  taken so far and more what it has put (`Did` counts the operations). A commit asks
  exactly for the versions, so what it writes is the program run on the values
  of that moment. The assumption that a program leaves alone what it reads, and takes from a ref
  before it puts onto it, is where `AtomicTransfers` would otherwise see another program: a take after a put
  may live on what was put. `Heard` is the other half: a transaction that waits has its callback in every
  ref of its journal and is up to date, or its wake-up is scheduled. That needs `RetriesAtOnce`: between a read and a later
  `txRetry`, or a read and a take of another ref, turns of the event loop may pass, and `awaitPendingTransaction`
  does not look again.
- `HandoverProofs`, queues: `QueueIsSafe` (`QueueSafe`) and `QueueIsAFifo` (`ImplementsFifo`), for any
  fibers, capacity and arguments of `takeBetween`, with end, failure, shutdown and withdrawal. `Line` orders
  everything: what was taken, then the messages, then the offers not yet let in, each increasing and before the next.
  That is kept by a step only where the loops of the queue stand right, and there are two arguments for that.
  A dropping or sliding queue has no offers that wait (`Plain`), so that its order and its bound hold under
  every interleaving. For a suspending one it takes the fibers of `Tame`: none is interrupted by others between two primitives,
  none both offers and takes, and one offer is let in at a time (`Most = 1` or `Capacity <= 1`).
  Then a turn of the event loop has one of four shapes (`Turn`): no fiber runs (`Between`), one runs (`Running`),
  the loop of a take lets offers in (`Releasing`), or a producer runs inside that loop (`Resumed`). Each shape
  says what the queue's other fields may be meanwhile, a queue without capacity in the moment it has one included,
  and between two turns it says that nobody waits for what is there. Outside `Tame` a suspending queue
  hands over out of order and twice: the first two `Queue` rows of the table above.
- `RcRefProofs`: `ReferencesSafe` (`RefSafe`). `Cached`: what the state points to is open
  and nobody has invalidated it, an idle fiber belongs to a resource without users.
  `OneAtATime`: without overlapping gets whoever acquires is alone, the state is empty meanwhile, and
  an idle fiber is that of the state's own resource; so an idle fiber, which asks the state and not
  its resource, closes the right one. `Kept`: what is open is used or cached. Each is claimed without
  the hazard that breaks it; use after release and exact counts need none of the exclusions.
- `StoreProofs`, the map: `MapIsSafe` (`MapSafe`). The finalizer of a user and the idle fiber go by the
  key (`RcMap.ts:376-412`). `Live` are the entries somebody may still look up, release or expire;
  `OnePerKey` says that a key has at most one, so that going by the key is going by the entry.
  This is what "reget" breaks, and what `NothingLeaks` and `Shared` rest on. Counts and use after
  release hold with it too, because `Mapping` says that what the map holds is open and not invalidated.
- `StoreProofs`, the in-memory store: `MemoryStrandsNobody` (`MemoryQueueSafe`) and `MemoryIsAWorkQueue`. `Latched`: the
  latch is open exactly while there are items, and then nobody waits at it. `Apart`: an item that is not
  settled is in the list once or with one taker, and that is the whole refinement.
  `OneTaker` is needed only for the taker that goes on to an empty list.
- `StoreProofs`, the SQL store: `WorkIsLocked` (`LocksHeld`) and `StoreIsAWorkQueue` (`ImplementsWorkQueue`), for any workers,
  consumers, items, faults and crashes. `Claimed`: whatever a worker does with an item, in the answer of a poll, in a
  mailbox or in a handler, it does under its own lock, which is younger than the expiration; so two workers never have
  an item in common. `Disjoint`: within a worker an item stands in one place. A crash drops all of it at once, and the
  lock that stays behind belongs to a worker that no longer claims it. All of this is under `~Long`, since no lock is ever refreshed.
- `SharingProofs`, layers: `LayersAreShared` (`LayerSafe`), for maps forked from one another to any depth: `Ancestry` gives
  each map's line of ancestors, and a lookup takes the nearest that has an entry (`FoundIsHad`). `Observed`: the
  observers of an entry are the builds between its lookup and its release. `OpenIsObserved`: an entry is open while
  it has observers, and its map has it then; so who looks up joins what is live, and the last to leave is known to be the last.
  `NoneBelow`, that no map has an instance of its own beside an older one of an ancestor, holds because a build is begun only where
  the whole line of ancestors has none, and no instance is opened a second time.
  With `Yields` observers are only an upper bound, which is why nothing is claimed then about what is left behind.
- `SharingProofs`, the pool: `PoolIsSafe` (`PoolSafe`). That `headUnsafe` always finds an item (`HeadUnsafeFinds`) is a count:
  if every active item were full, its holders would be as many as the semaphore lets in, or their usage would ask for
  more items than the target size that the get has just compared with. `Room` adds the allocations of the one running resize to the active
  size, which bounds the pool across forked resizes. `Closing` is the shutdown that walks over the items while they are
  released: what it has visited and is still there is invalidated and in use, so its last borrower releases it.
- `SharingProofs`, requests: `RequestsAreBatched` (`RequestsSafe`). `Collected` and `Mapped` are the books of the batches and of the
  map; what a batch has is of one key and fits (`Sized`) only if no delay completes at once, the rest needs no such
  condition. `Apart`: no entry is in two batches. `Waits`: who waits is itself an entry that a batch
  still has to complete, or is linked to one. `Remembered`: what the cache has is answered or in such a batch,
  which is what an interruption before the batch runs breaks; hence the condition that
  nothing cached is interrupted then (`Cached => ~Orphans`).
- `SharingProofs`, stored results: `ResultsAreStored` (`StoredAsAnswered`, `Refreshed`) under `~Fails` and `ResultsAreKept`
  (`ResultsStay`) under `~Slow`, for any calls over the store at once. `Resolving`: what a call has to store is, entry by
  entry, what was resolved for it or else the exit it found; a failing resolver overwrites both. `Unbegun` keeps the
  results of calls apart. `Doomed`: what is still to be removed cannot be read, which a save between the load and
  the removal would break. Statements that fail, expiry and exits that are not stored are in both theorems.
- `ShardLocksProofs`: `ShardsAreExclusive` (`ShardsSafe`). Two runners cannot process a shard
  because each has a lock that has not expired: `Locked`, which also holds for a lock that a statement
  has answered and the runner has not read yet. `Anew` keeps answers apart: what is asked for is neither
  held, nor being released, nor being refreshed. `Late` and `Stale` are the two ways in which `Locked`
  fails. `Apart`, that entities run only where the shard is acquired or not yet cleared, needs neither.

### Only model-checked

- Liveness, which is outside the prover's reach: `RunsEnd`, `GatesEnd`, `RaceHasAWinner`, `WaitersGoOn`,
  `CallersAnswered`, `ResourcesSettle`, `ItemsSettle`, `ShardsComeBack`.
- The collections `VariantsSafe`, `QueuesAreFifo`, `StoresAreWorkQueues` and `AnswersKept` are runs of theorems above on
  several instances. They are kept because those theorems are conditional: the runs have a hazard on, and show
  what is claimed all the same.
- Of a suspending queue outside `Tame` nothing is claimed, by a theorem or by a run.

## Not modelled

- Of the repository itself: the Baseline, the tsgo policy and the Source Pin data are
  constants, and a model could only repeat them; that their copies agree
  (`cross-repo.ts:341`) is a comparison of literals. `harnessModule.plan` is one pure function whose result
  Prelude converges elsewhere. The ESLint policy is a table. The Target Adaptation skill
  instructs an agent, and no program enforces its steps. Continuous integration runs one
  command per ref; that `cancel-in-progress` (`ci.yml:11`) may cancel every verification under a
  stream of pushes is how GitHub is configured, not a step of this code. The npm tarball is packed again after
  the gate, with its `prepack` build (`npm-publish.yml:85`): the job's checkout does not change
  in between, so that the two differ only if the build is not deterministic, which is outside
  the model. The gate compares the Harness tarball with the checkout as it is after packing
  (`cross-repo.ts:168`); `AssertHarness` models the comparison as it is made, and nothing is
  promised about an edit in between.
- Of the pinned Effect source: everything that is not in the table above. Most of it is
  stateless combinators, schemas, codecs and generated clients; channels, streams and the
  remaining cluster and workflow modules have state and are left for later. `repos/tsgo` is a compiler.
- Prelude and Partita are external and appear only as the code here uses them.

`PROJECT.json` lists every component with its status, and the hazards with the properties that
cover them.

## Plan

1. `Queue`: `offerAll`, `peek` and `await`; `ShardLocks`: two shards with a second crash, and
   runners marked unhealthy.
2. Further components of the pinned source: `PubSub`, `FiberMap` and `FiberSet`, the cluster's
   message storage.
3. With them, the refinement of `PersistedRequests` and `Pool` to abstract specifications of their own.

# A TLA+ model of the hypershift-deployment-controller

This directory is a verification project for the controller that turns a
`HypershiftDeployment` on an ACM hub into cloud infrastructure, a `ManifestWork`
for the hosting cluster, and a `ManagedCluster`. It contains modules that model the two
controllers call by call, runs of the model checker TLC, and proofs checked by
TLAPS. Paths below are relative to the repository; a file without a directory is one
of `pkg/controllers`.

## 1. The system

| Component | Code | State it keeps | Operations |
|---|---|---|---|
| API object | `api/v1alpha1/hypershiftdeployment_types.go` | finalizers, `infra-id`, `override`, the scaffolded spec, conditions, the annotation `createmanagedcluster` | create, edit, delete (users); patch, status patch, update (controllers) |
| Main reconciler | `pkg/controllers/hypershiftdeployment_controller.go` | none but its copy of the object | `Reconcile`, `destroyHypershift` |
| AWS, Azure infrastructure | `aws_infra.go`, `azure_infra.go` | infrastructure and IAM in the cloud, by infra ID | create, destroy |
| ManifestWork life cycle | `manifestwork.go` | one work per infra ID, in the namespace of the hosting cluster | create or update, set the delete option, delete, wait |
| Payload of the work | `manifestwork.go`, `configuration.go`, `default_resources.go` | none | scaffold, copy secrets and config maps, keep the etcd key |
| Status feedback | `manifestwork.go:672-783` | none | conditions of the work and the agent's feedback into the status |
| Security constraints | `manifestwork.go:188-273`, `pkg/helper`, `pkg/client` | none | cluster set and binding checks |
| Auto-import controller | `autoimport/autoimport_controller.go` | one `ManagedCluster` per object name | ensure, set finalizer, annotate, delete |
| Manager | `pkg/main.go` | two work queues, one informer cache | starts both controllers; a restart lists everything |

The parts interact through the API server only. Both controllers read the
object from one informer cache, which lags behind; each has one worker
(`MaxConcurrentReconciles` is 1), so a reconcile of one runs next to a reconcile of
the other. The work agent of the hosting cluster applies and removes what the
work lists, and reports `Available`. The import controller of the hub (another
program) makes a `ManagedCluster` join and cleans up a deleted one.

What makes this hard: a reconcile takes minutes (it creates a VPC, then IAM
roles) and works on one copy of the object throughout; no patch carries an optimistic
lock; some errors are ignored and some end a reconcile with nothing that brings
it back; a deletion takes many reconciles, each of which sees the ManifestWork
through a cache; two controllers write one list of finalizers. The list of
hazards, each at its line, is in `PROJECT.json`.

What makes each component correct:

* infrastructure: what is created can be found again by its infra ID until it is
  destroyed, and the destroy finalizer stays until then;
* conditions: `PlatformConfigured` and `PlatformIAMConfigured` are True only when
  the outputs of the infrastructure are in the spec;
* ManifestWork: it is built from a finished spec, has an object that will delete
  it, is deleted with the option the override asks for, and is gone before the
  infrastructure is;
* auto-import: the finalizer is held while the cluster is there and no longer, whatever the other
  controller writes; a cluster that could be imported is not overlooked;
* payload: a work has every secret and config map its HostedCluster names, keeps
  the etcd key that was generated for it, and is written only after the cluster
  set checks have passed;
* status: the conditions say what the agent reported, in whatever order it did;
* both controllers: every object that can be deployed is, and every one that is
  deleted goes away, in the end.

## 2. The modules

| Module | Models | Builds on |
|---|---|---|
| `HubApi` | the object as stored, as cached, and what each kind of write does to it | |
| `DeploymentReconciler` | the main reconciler, both platforms, the work, the work agent, users, faults | `HubApi` |
| `DeploymentLife` | what the main reconciler promises: the life of a deployment without worker, copies, caches, failures | |
| `ReconcilerLife` | the refinement mapping of `DeploymentReconciler` to `DeploymentLife` | both |
| `Payload` | what a work contains and where it comes from: scaffolding, reference secrets, configuration, etcd key (operators) | |
| `StatusFeedback` | the agent's reports as conditions: the loop over them (a recursive function), and what they are to say without an order (operators) | |
| `WorkContent` | `createOrUpdateMainfestwork` call by call, next to users, agent and changes on the hub | `Payload`, `StatusFeedback` |
| `AutoImport` | the auto-import controller and the ManagedClusters | `HubApi` |
| `Hub` | both controllers in one process, with users, the cluster manager and the work agent around them | `DeploymentReconciler`, `AutoImport` |
| `MCReconciler`, `MCContent`, `MCHub` | values for the constants | `ReconcilerLife`, `WorkContent`, `Hub` |
| `ReconcilerTypes` | proofs: types, and the forms of the worker's steps | `DeploymentReconciler` |
| `ReconcilerProofs` | proofs: cloud resources | `ReconcilerTypes` |
| `WorkProofs` | proofs: who holds a work, conditions, completeness of the work | `ReconcilerProofs` |
| `DeletionProofs` | proofs: delete option, order of the deletion | `WorkProofs` |
| `LifeProofs` | proof of the refinement | `DeletionProofs`, `ReconcilerLife` |
| `FeedbackProofs` | proofs: what the loop over the reports returns | `StatusFeedback` |
| `ContentProofs` | proofs: types, etcd key, security checks, payload, tags, status | `WorkContent`, `FeedbackProofs` |
| `ImportProofs` | proofs: types and the finalizer of auto-import, next to the main controller | `Hub`, `ReconcilerTypes` |

`DeploymentReconciler` and `WorkContent` divide `Reconcile` between them. The first has the
cloud, the conditions of the infrastructure, the deletion and several objects, and its
`ApplyWork` takes the payload as one value. The second opens that step for one object
that is not being deleted: every read of `createOrUpdateMainfestwork` is a step of
its own, between which the world may change, and the payload has names. The patch of the
defaults that precedes it (`setDefaultValueForHostedCluster`) is `SetDefaults` in the first only.

**State and code.** `hd[h]` is the object in the API server, `cache[h]` the one in
the informer cache. `mem` is the worker's local variable `hyd`, `pc` the call it
makes next, `fresh` whether `mem` has the server's current resource version (only
the final `Update` sends it). `infra` and `iam` are the infra IDs that have
something in the cloud. `work`, `workCache` and `hosted` are the ManifestWorks by
infra ID (`generateManifestName`), their informer cache, and what the agent keeps.

In `WorkContent`, `hyd` and `hydCache` are the one object and its cached version, `work`
and `workCache` its ManifestWork; `mem` holds what the worker has read so far: the copy of
the object, the status it will patch, the bound cluster sets, the work as it was read
(`old`), and the `payload`. `hub` is the set of secrets and config maps in the object's
namespace, `provider` what the provider secret contains, `fleet` the facts about
cluster sets that hold, and `seen` those that have held since the reconcile began (it is
read by properties only). A name in `Names` stands for the secrets of its kind: `key` for the active
AES key, `signing` for any other one a configuration may refer to.

**Actions.** Each action is one API or cloud call with the code up to the next one;
the order of the actions is the order of the calls. A name in the code's words leads
to its lines, and `map` in `PROJECT.json` lists them all. Every call has a
disjunct in which it fails, with the code's error path.

**Writes.** `PatchObject` is `patchHypershiftDeploymentResource`: it reads the cache
again and sends the difference to the worker's copy, so a field someone else has
changed is written back as the copy had it. `SendStatus` replaces the condition
list and decodes the response into the copy; `Decoded` keeps what the response
omits because it is empty. `ImportPatch` is the other controller's patch, whose
base is its own copy. `Admits` refuses a new finalizer on an object that is being
deleted; `Settle` removes an object with its last finalizer.

**Abstractions.**

* The spec is the set of its parts that are filled in (`Parts`), and a work's
  payload is the set it was built from. Messages, reasons and generations of
  conditions are left out; a status patch may therefore be sent although no
  condition changes.
* A cache shows some version the server had and jumps to the latest one. It
  does not go back, not even over a restart (`mem` and the queue are lost, the
  cache is relisted).
* With `ReadsOwnWrites = TRUE`, a reconcile begins on caches that have caught up with the
  server, while everything may change as soon as it has begun. controller-runtime does not
  promise this. It is assumed where the code needs it: `second_id` and `etcd_key` drop it and show
  what a reconcile that starts too early does. A second infra ID is enough
  to violate `InfraNotLeaked`, `NothingLeftBehind`, `WorkNotLeaked`, `ReadyIsTrue` and `WorkIsComplete` too, and
  section 3 lists what else fails. What survives caches of any age is checked by
  `stale_aws` and proved by the theorems that do not name the hypothesis, which are most of those about the content of a work.
* An informer tells the worker of an object when the cached version changes. A version that is
  overtaken before the informer shows it gives no event of its own, and a change that is undone before it is
  seen gives none at all: that is less than what the API server sends, so liveness is not owed to it.
* `utilrand.String(5)` is taken to give an ID used nowhere.
* In `DeploymentReconciler`, an object's spec is statically valid (platform and region present, node pools of
  the right platform). The hosting cluster and its namespace do not change.
* There, a secret that is missing, a bucket secret that is missing, an invalid payload or a failed
  security check is a fault of the call that reads it: it may happen, and be gone the next time.
  `WorkContent` says when it does.
* `ManifestConfigs` come in the order of a Go map, so a write of the work may change it and
  reach the agent as a new generation although the payload is the same (`WriteWork`).
* In `WorkContent`, the reads of `ensureConfiguration` are one step, reads of what is on the
  hub return what is there and fail only if it is not, the platform and IAM
  conditions are one (`ready`, set by one step `PlatformReady` for all of `aws_infra.go:83-145`), the spec is the set of names and the list of node
  pools, and the owner's tag is counted up to two. A generated etcd key is one that is not in use.
* `spec.hostingNamespace` does not occur: the helper's default is the object's namespace, while
  the comment at `api/v1alpha1/hypershiftdeployment_types.go:104` says `clusters`.

## 3. The runs

| Run | Bounds | Asks |
|---|---|---|
| `infra_aws` | 1 object of 32 kinds, 2 infra IDs, 2 faults, 1 edit | safety, liveness and refinement of the main reconciler |
| `two_aws` | 2 objects, 2 infra IDs, 1 fault | safety and refinement with a shared worker and queue |
| `infra_azure` | as `infra_aws`, 1 fault, 2 edits at any time, on Azure | what holds on Azure in spite of its error paths, and of edits during the deletion |
| `content` | 1 object of 8 kinds, 2 zones, 2 cluster sets, 2 generated keys, 1 fault, 2 changes | payload, status, checks and liveness of `createOrUpdateMainfestwork` |
| `hub` | both controllers, 1 object, 1 fault (a death of the process included) or 1 act of a user | what is built and taken down with both controllers; the finalizer, and what comes to rest, of auto-import |
| `import_live` | both controllers, 1 object | liveness of auto-import and of a deletion that both take part in |
| `stale_aws` | 1 object of 2 kinds, caches of any age | liveness of the main reconciler on stale starts |
| `azure_leak`, `edit_undone`, `second_id`, `hub_race`, `etcd_key` | as small as shows it | the findings below |

The bounds: a fault is a call that fails or the death of the process, and it may
strike at any step, so that one fault covers every single error path and two
cover a failure while another is being repaired. Two objects are enough for the
worker to hold a copy of one while the other changes; the code never relates
three. `MaxEdits`, `MaxInterventions`, `MaxChanges` and `MaxFaults` are the only
counters; everything else is finite by itself. An edit sets the override to
`ORPHAN` or to `DELETE-HOSTING-NAMESPACE`, before the deletion; in `infra_azure` it may also clear it, and
come at any time. One edit is not enough there: the second is what meets an option that the
first has had patched in.
In `content`, two changes are enough for something to go away between two reads of one reconcile
and to come back, for an edit to meet a report, and for a stale node pool patch; its eight
objects are one for each way through `createOrUpdateMainfestwork`: all filled in by the controller on
either platform, with configuration, with more node pools than zones, with a spec and a cluster
set, with references on either platform, and without a hosting cluster.
`CHECK_DEADLOCK FALSE` is set everywhere because an object that is gone leaves
nothing to do; what may not come to rest is said by `NothingStuck` and by the liveness properties.
In `hub`, a user imports, detaches or sets the annotation to `false` at any step, or a call fails or the process dies at any step, but
not both in one behaviour (the constraint `OneDisturbance`, which keeps the run to three million states); its object has an infra ID
of its user's own. In `import_live` and `hub_race` users do nothing but submit and delete, and the object of `import_live` has infrastructure of the
user's own, with which the main reconciler has the fewest steps and the same patches of the object.

**Fairness** (`FairSpec` of `DeploymentReconciler` and of `WorkContent`, `HubFairSpec`). Weak fairness of the worker's next step:
a goroutine that is scheduled. Strong fairness of `Start(h)`: the queue is served
in order, so an object that is in it again and again gets its turn, although the
caches must have caught up at that moment. Weak fairness of informers, of the
work agent and of the cluster manager, and in `WorkContent` of `Panic`: the process is started
again. In `Hub`, both workers have it for themselves, and the secret of a hosted cluster that is up is synced in the end.
An object comes back to either worker only by an event or by a requeue the code asks for.
Nothing is assumed in `WorkContent` of the agent, and nowhere of users, of the
periodic resync (ten hours by default, so no property may lean on it) or
of faults; the number of faults is finite.

**Properties and what they are about.**

* `InfraNotLeaked`, `NothingLeftBehind`: cloud resources have an object that holds
  the destroy finalizer under their infra ID; an object that is gone has none.
* `WorkNotLeaked`, `InfrastructureIsLastStep`: a work has an object that will
  delete it, and infrastructure goes only when work and HostedCluster are gone.
  The cache is what `deleteManifestworkWaitCleanUp` looks at, the server is what
  the property is about.
* `ReadyIsTrue`, `WorkIsComplete`: conditions and payload against the cloud.
* `InfrastructureWaits`: the part of `InfrastructureIsLastStep` that no edit of the override can break: while the
  work is in the API server, the infrastructure stays. (A work deleted with the option `Orphan` leaves a HostedCluster
  without infrastructure when its user then clears the override, as asked.)
* `InfraIDImmutable`: the `+immutable` mark of `infra-id`, across stale starts.
* `DeletedAsTold`: the delete option against the override of the object, over several reconciles.
* `EditsKept`: what a user has written is not taken back by a patch.
* `RemovedSafely`: this controller takes the ManagedCluster finalizer off when the cluster is on its way out
  and has no works. That the finalizer stays until then cannot be said of everybody: the main controller's patch may drop it.
* `GuardedWhenSettled`: all the same, it is there whenever nothing is queued, running or unseen, because the write
  that drops it wakes the other controller.
* `NothingStuck`: nothing that is being deleted, and no cluster whose kubeconfig has come, is at rest unfinished.
* `PayloadClosed`, `EtcdKeyKept`, `SeenKeyKept`: the payload against what its HostedCluster names and
  against the work before it. `PayloadClosed` excepts the reference secrets on Azure. `EtcdKeyKept` is what
  `etcd_key` violates; `SeenKeyKept` excepts the reconcile that has not read the key.
* `SettledStatus`: when nothing is left to do, conditions and node pools are those of the last
  report and the last edit, whatever copies were patched before. `TagsSettled`: retries of the scaffolding
  are over before there is a work; `ContentTypeOK` says that they do not double node pools.
* `CheckedBeforeWritten`: the cluster set checks against everything that has held since the reconcile began.
  It does not say that all of it holds at the write: the checks are reads one after the other, and
  nothing repeats them.
* `DeploymentCompletes`, `DeletionCompletes`, `ImportCompletes`, `ImportedDeletionCompletes`,
  `DeployedWhenPossible`: liveness.
* `ImplementsLife`: every step of `DeploymentReconciler` is a step of `DeploymentLife` or a stutter.

**The refinement.** `DeploymentLife` has six variables and seven steps: hold, build, deploy, retire, withdraw,
demolish, release. `ReconcilerLife` reads the finalizer, the deletion and the override off
the API server, and finds cloud and work by the object's infra ID. `Build` is allowed
after `Retire`, because the reconcile that builds may not have seen the deletion, but not
`Deploy` before the cloud is complete, `Demolish` before `Withdraw`, or `Release` with anything in the
cloud unless the override says so. On Azure the reconciler does not implement it (`azure_leak`).

**Findings.** Each is the only property of a run that TLC finds violated.

* `azure_leak`: a failed Azure destroy loses the infrastructure, because `RequeueAfter` without `Requeue` is not looked at.
* `hub_race`: the finalizer patches of the two controllers overwrite each other, and an object goes away without its infrastructure.
* `edit_undone`: a patch takes back the override that a user has written during the reconcile.
* `second_id`: a reconcile that starts before the informer has the infra ID generates and writes another.
* `etcd_key`: a reconcile that starts before the informer has the new work generates a second etcd key, and `CreateOrUpdate` sends it.

With `hub_race` the leak properties are not invariants of `Hub` and are checked of the main reconciler alone.

The bounds of the passing runs leave out more that the code does. A run with another constant shows it:

| Change | Property that fails | Why |
|---|---|---|
| `infra_aws` with `"none"` in `UserOverrides` | `DeletedAsTold` | the decoding of a response keeps the `ORPHAN` that a user has cleared, and takes over the `deletionTimestamp` |
| `infra_aws` with `"INFRA-ONLY"` in `UserOverrides` | `InfrastructureIsLastStep` | the deletion skips a work that was there before |
| `stale_aws` | `InfrastructureIsLastStep` | a work that the cache does not have yet is taken for gone |
| `import_live` with `ReadsOwnWrites = FALSE` | `RemovedSafely` | a ManagedCluster that the cache does not have yet is taken for gone |
| `azure_leak` under `FairSpec` | `DeploymentCompletes` | the status update of `azure_infra.go:53` is lost, and `PlatformIAMConfigured` stays False |

## 4. The proofs

Every theorem holds for any number of objects, infra IDs, node pools, reports, faults, edits and
changes on the hub, within the assumptions on the constants: `HubAssumption`,
`ReconcilerAssumption`, `PayloadAssumption`, `ContentAssumption`, `AutoImportAssumption`. Those give the
constants their types and say what users submit: objects without finalizers and
conditions; in `WorkContent`, node pools of different names, zones that differ, and
reports in which a work has one HostedCluster. The invariants were
checked by TLC on the runs above before they were proved.

A theorem states any further hypothesis itself:

| Hypothesis | Why it is there |
|---|---|
| `ReadsOwnWrites = TRUE` | a reconcile that starts on an old cache generates a second infra ID (`second_id`), or overlooks a work or a ManagedCluster (section 3) |
| `Platform = "AWS"` | on Azure the infrastructure is lost after a failed destroy (`azure_leak`) |
| `DistinctIDs` | users who choose infra IDs choose different ones; two objects with one ID share cloud and work (`PROJECT.json`, hazards) |
| `"INFRA-ONLY" \notin UserOverrides` | an object that is made `INFRA-ONLY` after its work was created keeps its work (section 3); it may be submitted as `INFRA-ONLY` |
| `"none" \notin UserOverrides` | an override that is cleared still acts (section 3) |
| `EditsDeleting = FALSE` | an option that was patched in before an edit is the wrong one after it |

**Main reconciler.** The theorems build on each other, from `ReconcilerTypes` to `LifeProofs`.

| Theorem | States | Hypotheses |
|---|---|---|
| `TypeCorrect` | `[]TypeOK` | |
| `AWSInfraNotLeaked` | `[]InfraNotLeaked` | `ReadsOwnWrites`, AWS |
| `AWSNothingLeftBehind` | `[]NothingLeftBehind` | `ReadsOwnWrites`, AWS, `DistinctIDs` |
| `WorkKept` | `[]WorkNotLeaked` | `ReadsOwnWrites`, no edit to `INFRA-ONLY` |
| `ReadyTellsTruth`, `WorkComplete` | `[]ReadyIsTrue`, `[]WorkIsComplete` | `ReadsOwnWrites`, `DistinctIDs` |
| `OptionObeyed` | `DeletedAsTold` | `ReadsOwnWrites`, `DistinctIDs`, override not cleared, not edited after the deletion |
| `InfrastructureHeld` | `InfrastructureWaits` | `ReadsOwnWrites`, `DistinctIDs`, no edit to `INFRA-ONLY` |
| `InfrastructureLast` | `InfrastructureIsLastStep` | those of both `OptionObeyed` and `InfrastructureHeld` |
| `LifeImplemented` | `ImplementsLife` | `ReadsOwnWrites`, AWS, `DistinctIDs`, no edit to `INFRA-ONLY` |

* *Types.* `TypeOK` is not inductive: `ApplyWork` and the destroy actions index by
  `mem.infraID`, and nothing in `TypeOK` says that it is set by then. `TypeInv` adds that the copy has an
  infra ID past `EnsureFinalizer` (`IDChosen`). The same module gives the steps of the worker four forms,
  `Quiet`, `Patches`, `Reports` and `Ends` (`Tame`), and says where they lead (`Flow`, `DestroyFlow`), so that
  an invariant about objects and copies is proved of four forms and not of 25 actions.
* *Infra ID.* A patch may write the infra ID of a minutes-old copy, so the proof has to know that copy, cache and
  server never hold two different ones. `IDInv`: the cache is behind the server
  (`CacheBehind`), a copy with an ID the server does not have is about to add the finalizer (`Named`),
  the object past `Dispatch` has the finalizer in server and copy (`Guarded`, `Mirror`), and no one else
  writes finalizers (`OnlyMain`).
* *Cloud.* `CloudInv` adds that at `unfinalize` the cloud has nothing left of the ID unless the copy
  says `ORPHAN` (`Cleared`). Without the hypothesis on the platform the step `DestroyInfra` fails. When no
  two objects have one ID, an object that is gone cannot be the one that answers for what is left.
* *Work.* `HoldInv`: each work has an object that holds it (`WorkHeld`); from the point where the deletion no
  longer looks at the work, that object is another one than the worker's (`WithdrawnInv`). That `deleteManifestworkWaitCleanUp`
  looks at a cache is harmless because a work missing in the cache of a reconcile is gone (`CacheKnows`).
* *Conditions.* A status patch writes all conditions of the copy. `ContentInv` relates them to the spec: of
  its parts only the deprecated roles are ever taken out. `CloudReady` relates them to the cloud as long as no deletion is at work;
  what a step takes out of the cloud is of an object that is being deleted (`CloudLoss`). `CompleteInv` follows the
  payload to the hosting cluster, by the owner in the work's annotation (`WorkOwned`).
* *Delete option.* Option and deletion are two calls, often of two reconciles. `ToldInv`: an option other
  than `Orphan` is of an object whose override can no longer change (`FrozenOverride`, `OptionTold`), and the option the
  cache shows is current until the worker patches it (`SeenOption`, `DeleteNow`).
* *Last step.* That a work in the server stops the destruction needs `HoldInv` only, so `InfrastructureHeld` lets users change the override
  whenever they like. For the HostedCluster the option counts too. `LastInv`: a HostedCluster without a work was left there with `ORPHAN` (`LeftBehind`), its ID stays in
  use (`HostedOwned`), `INFRA-ONLY` objects have neither (`InfraOnly`), and what `destroyInfra` and later calls know of it
  (`LastStep`).
* *Refinement.* Initial states map to initial states. A step of a worker, an agent or a user moves one object in its life or none
  (`Lives`), by the invariants above and `DeletedRetired`: a work on its way out is of a deleted object.

**Content of the work** (`FeedbackProofs`, `ContentProofs`).

| Theorem | States | Hypotheses |
|---|---|---|
| `FeedbackTells` | what the loop over the reports returns, for every list of them | |
| `ContentTypeCorrect` | `[]ContentTypeOK` | |
| `OnlyCheckedWorkWritten` | `CheckedBeforeWritten` | |
| `PayloadIsClosed` | `[]PayloadClosed` | |
| `StatusIsTrue` | `[]SettledStatus` | |
| `SeenKeyStays` | `SeenKeyKept` | |
| `ScaffoldingIsOver` | `TagsSettled` | `ReadsOwnWrites` |

* `FeedbackTells` is an induction over the reports. The library's induction theorems take an
  operator and cannot be instantiated here, so it goes through the least report for which the claim fails
  (`LeastNumber`, `InductionUpTo`, from `WFMin`).
* `TypeInv` carries types and distinct node pool names for the cache and the worker's copy too, because a patch writes them back.
* `KeyInv` follows the key a reconcile has read in the work, which is in `mem.old` until
  `EnsureConfiguration`: the payload's key is that one or the user's at `WriteWork`. It needs no fresh cache; a
  reconcile that has not read the key is the one of `etcd_key`.
* `SecInv` adds up, check by check, what has been seen. `ClosedInv` says that the names of the payload are
  settled when `EnsureConfiguration` runs, so that what it does not find is what is missing.
  `TagInv` says that the scaffolding runs only while there is no work, and that past it the platform is ready for good.
* `StatusInv` says what the worker knows and leaves behind while nothing is queued: its status is that of the cached reports
  (`CopyTold`), and at the end either it has told the truth of them or has written something the caches do not have yet, which
  will queue the object again (`AllTold`). This needs no fresh cache.

**Auto-import** (`ImportProofs`, over `HubSpec`).

| Theorem | States | Hypotheses |
|---|---|---|
| `ImportTypeCorrect` | `[]ImportTypeOK` | |
| `FinalizerRemovedSafely` | `RemovedSafely` | `ReadsOwnWrites` |

Both are about the composition: the main controller writes the same objects from copies of its own, so the type of what this
controller reads rests on the types of that one's copies (`ImportTypes` contains the `TypeInv` of `ReconcilerTypes`). `ClusterInv` says that a
ManagedCluster which is not there has no owner; `CleanInv` says that a cluster which looks clean in the
cache of a deletion is clean, because only `EnsureCluster` makes one anew and it is not at work then. Any number of objects may share a name.

**Only model-checked.** Liveness (`DeploymentCompletes`, `DeletionCompletes`, `ImportCompletes`,
`ImportedDeletionCompletes`, `DeployedWhenPossible`), which is out of the prover's reach; `GuardedWhenSettled` and `NothingStuck`, whose
invariants are those of both workers and both queues together; the other properties of the `hub` run but `ImportTypeOK` and `RemovedSafely`, because the
theorems about the main reconciler are about `Spec` and not about `HubSpec`. What the controllers do outside the hypotheses above, in particular on Azure, where `infra_azure` and the
violated runs show what holds and what does not.

## 5. Not modelled, and the plan

Not modelled: the data of secrets and config maps; default values of the scaffolded spec that
nothing reads (CIDRs, services, volumes, releases, annotations); the conditions of the work itself and
`HostedClusterProgress`, which are copied like the ones that are modelled; the cloud handlers
(adapters without a state of their own); generated code, metrics and probes.

Planned, in this order:

1. Proofs over `HubSpec`: what is left of the reconciler's invariants when another controller writes finalizers
   (`OnlyMain` does not hold there), for `ReadyIsTrue`, `WorkIsComplete` and `InfrastructureIsLastStep`; then `GuardedWhenSettled`.
2. A composition of `WorkContent` with the deletion, for the edits that meet a deletion.

# Verification of the AI Gateway operator

TLA+ modules, TLC configurations and TLAPS proofs about the operator in `src/`:
the controller that reconciles the singleton `AIGateway` object into the
batch-gateway, Models-as-a-Service (MaaS) and AI Grid sub-modules.

Paths below are relative to `src/`; `remove.go` stands for
`internal/controller/aigateway/aigateway_remove.go`, and so on for the other
files of that package.

## 1. The system

One process, one work queue with one key (`default-aigateway`), one worker. A
reconcile pass reads the AIGateway once, runs the actions of `NewReconciler`
(`aigateway_controller.go:233-259`) in order, stops at the first error, and
patches the status either way.

    initialize -> ensureInfraSecretMigrationRBAC -> upgradeIfNeeded -> releases
      -> kustomize -> renderAIGridOperator -> annotateResource -> migrateSelector
      -> deploy -> deployments -> reportSubModuleStatus -> overWriteCondition
      -> reportStatus -> gc -> (status patch)

| component | state | operations | interacts with | what makes it correct |
|---|---|---|---|---|
| MaaS lifecycle (`remove.go`, `aigateway.go:249-339`) | the maas-controller Deployment with two annotations, the rest of its bundle | keep or drop the bundle, request teardown, detect completion, collect | maas-controller (through the annotations), the user, the informer cache, gc | never uninstall before the cleanup is reported; a removal completes; Managed stays installed |
| selector migration (`migrate_selector.go`) | the Deployment's selector | delete with preconditions before deploy | Deployment controller (conflicts), deploy | no deploy is stuck on an immutable selector; the gap never counts as "removed" |
| infrastructure RBAC (`infra_rbac.go`) | namespace, Role, RoleBinding | ensure, delete, label the namespace | MaaS lifecycle, other writers | rights last as long as the cleanup needs them |
| platform handshake (`aigateway.go:740-887`, `upgrade.go`) | `status.releases`, `status.module` | read the ConfigMap, set, clear, preserve | platform operator, releases action, status patch | the echoed version is the asked one, and no failure loses it |
| sub-module conditions (`aigateway.go:342-735`) | the five conditions | derive from Deployments, Config/default, CRDs | deployments action, MaaS, AI Grid | conditions say what the cluster is, and catch up |
| AI Grid (`aigateway.go:129-146, 270-278, 891-928`) | namespace, CRDs, operator | render, keep the CRDs | gc, CRD watch | CRDs survive a removal |
| TLS bootstrap (`internal/tls/profile.go`) | profile and adherence in use | resolve, watch, restart | API server, process | the profile in use becomes the configured one |
| configuration (`pkg/config/config.go`) | none after start | merge defaults, files, environment | the mounted ConfigMap, the kubelet | precedence, from one version of the ConfigMap |
| start-up (`cmd/`) | none | wiring | all | - |

Hard behaviour: one object (the maas-controller Deployment) is a message
channel between two controllers; it is read several times in a pass from a cache
that may lag; its absence is itself a message ("done"); a pass may stop after
any action; the user may change his mind half-way. The full list is in
`PROJECT.json`, "hazards".

## 2. Plan

In order of importance; each with its MC module, runs and mutants.

1. `MaaSLifecycle`, `TeardownHandshake` (abstract), `MaaSLifecycle_proofs`,
   `MaaSConvergence_proofs` - **done**.
2. `PlatformHandshake`, `PlatformHandshake_proofs` - **done**.
3. `StatusConditions`, `StatusConditions_proofs` - **done**.
4. `TLSBootstrap`, `TLSBootstrap_proofs` - **done**.
5. `InfraRBAC`, `InfraRBAC_proofs` - **done**.
6. `OperatorConfig`, `DerivedNamespaces` and their `_proofs` - **done**.
7. Not done: the composition of 1, 2 and 3 as one pass. What they would tell each
   other is which action failed, and each has failures at every action.
8. Not done: the rendering of the grid operator's manifests and the SemVer
   conversions, which are pure.

## 3. Modules

`MaaSLifecycle.tla` is the detailed specification, `TeardownHandshake.tla` what
it promises, `MCMaaSLifecycle.tla` its instances for TLC and
`MaaSLifecycle_proofs.tla` and `MaaSConvergence_proofs.tla` its theorems.
`PlatformHandshake.tla` and
`StatusConditions.tla` look at the same pass from the side of the status;
`InfraRBAC.tla` looks at the objects the pass writes one by one.
`TLSBootstrap.tla` is the life of the process around the passes, `OperatorConfig.tla`
its beginning, and `DerivedNamespaces.tla` adds to the latter what is computed from
the configuration. Each has its `MC` (one for the last two) and `_proofs` modules.

### MaaSLifecycle

| variable | in the code |
|---|---|
| `managementState`, `generation` | `spec.modelsAsAService.managementState`, `metadata.generation` |
| `dep` | the live Deployment: `requested` and `completed` (the two annotations), `legacy` (selector of the standalone component), `stamp` (generation it was last applied for; 0: not applied by this operator) |
| `cached`, `inFlight` | the informer's copy and the versions it has yet to deliver, one at a time and in order |
| `companions` | the rest of the maas-controller and ai-gateway-controller bundles, by stamp |
| `infra` | the secret-migrate Role and RoleBinding |
| `runtime` | what maas-controller created (Config/default, ...) |
| `pending` | the key is in the work queue |
| `reason` | the reason of DeploymentsAvailable as patched |
| `pc`, `rr` | the action about to run, and the ReconciliationRequest: what the pass read, decided and still has to collect |

Each action of the pipeline that touches this state is one TLA+ action:
`Initialize`, `EnsureInfraRBAC`, `MigrateSelector`, `DeployBundle` and
`DeployController` (deploy applies in order, Deployments last),
`OverWriteCondition`, `Collect(o)` per object. `PassFails` allows an error at
every one, `EnsureInfraFailsHalfway`, `DeployBundleFailsHalfway` and
`MigrateSelectorConflicts` the partial ones, `Crash` a restart between any two.

Modelling decisions:

- The AIGateway is read once per pass. A late cache of it is the same as an edit
  that lands just after `Begin`.
- Every cached read of the Deployment is a separate read of `cached`, at the
  action that makes it. `overWriteCondition` makes two; the two together say
  what a single one at one of the two moments would.
- A delete with preconditions succeeds when the cached copy is the live object.
- gc lists the objects that carry this operator's stamp and asks
  `maasAwareGCPredicate` for each, in any order.
- Assumption: gc runs in every pass. Whether it does is decided by the framework,
  which is not in the repository and may skip it when nothing was rendered anew.
  Skipping deletes less, so the safety of the handshake and its refinement do not
  depend on it. `SettledMatchesSpec` (`RestMatchesSpec`), `RemovedEventuallyGone` and
  `TeardownSeenThrough` do: after a gc that failed half-way, the retried pass has to
  sweep again although it renders the same manifests. The same goes for `Collect`
  in `StatusConditions`, where a Deployment that stays is one that is read and counted.
- maas-controller is external. It is assumed to clean up only when asked, to
  report only after cleaning up, and to run only with its whole bundle. The
  completion annotation is its own, and an apply by this operator keeps it; the
  request annotation is the operator's, and an apply without it drops it.
- `managementState = ""` is what a spec without `modelsAsAService` holds: the
  default `Removed` (`aigateway_types.go:53`) is inside the omitted object.
- `Stage` is what the Deployment says in the abstract handshake. A legacy
  Deployment that the running pass has deleted and is about to apply again
  (`Recreating`) is still serving, for what it created is still there.
- `RecreationMayFail` says whether a fault may hit that pass between the two; the
  code does nothing to prevent it, and `MaaSSelectorCrash` shows what follows.
- Deleting the AIGateway itself (owner references do the rest) and the
  `opendatahub.io/managed=false` opt-out of an object are left out.

### Constants, and why the bounds are enough

`MaxEdits` 2 to 4 generations: a removal, its withdrawal, and a second removal
need four. `MaxFaults` up to 2: one to enter a bad state and one inside the
recovery. `MaxLag` up to 2 undelivered versions: a pass writes the Deployment at
most twice. Two companions, so that a sweep can be half done; one where the
other dimensions are relaxed. Deadlock is not checked: when edits and faults are
used up and the queue is empty, the system is at rest, and `SettledMatchesSpec`
says in what state.

Fairness: the worker takes what is in its queue, the informer delivers,
maas-controller acts on what it sees (weak fairness each). `TimelyInformer`: if
passes reach the middle of their pipeline (`pc = "status"`) infinitely often,
then infinitely often with the cache caught up. Nothing synchronises watch
latency with passes, so the cache is not behind at that point of every pass for
ever; without the assumption installation and collection can alternate for
ever. Edits, faults and crashes have no fairness.

### PlatformHandshake

| variable | in the code |
|---|---|
| `config` | `data.platformVersion` of the ConfigMap, `None` when absent |
| `binary` | `m.version` of the running operator |
| `status` | `status.releases` (the platform entry; are the component's own releases listed?) and `status.module.version` in the API server |
| `cached`, `inFlight` | the informer's copy, and the versions it has yet to deliver |
| `pending`, `pc`, `rr` | as above; `rr.status` is the instance's status as the pass edits it, `rr.seen` the one it began from (read by properties only) |
| `withdrawn` | auxiliary: has the platform ever gone back to an older version, or to none? |

`UpgradeIfNeeded`, `ListReleases` (releases inside `withPreservedPlatformRelease`),
`ReportStatus` and `Patch` are the actions that matter; `Proceed` stands for the
rest of the pipeline. `ReportStatusMisreads` is a failed read of the ConfigMap,
which the code treats as an absent key. `ListReleasesFails` fails before or after
the list was replaced.

- The AIGateway is read from the informer cache, ConfigMaps live: the client's
  cache excludes them (`cmd/operator/operator.go`).
- A patched status enqueues nothing (its generation is the same); a watched
  ConfigMap does. A failed pass is patched like any other, and requeued.
- Begun from an outdated status, a failed pass patches an old entry back, and an
  upgrade may be compared with an old record. `FailureKeepsEntry` and
  `UpgradedBeforeRecorded` speak of passes begun from the current one, for any lag;
  `EchoNeverRegresses` of these, and of every pass that gets to reportStatus.

Bounds of `PlatformEcho`: two platform versions, two binaries, two changes of the
ConfigMap (an answer, then its withdrawal or another), two faults, one misread,
lag 1 (a pass writes the status once). Fairness: the worker only. The system
never deadlocks, other objects keep enqueueing.

### StatusConditions

| variable | in the code |
|---|---|
| `spec` | `managementState` of `batchGateway`, `modelsAsAService`, `aiGrid` |
| `level` | each Deployment: absent, or no, some, all replicas ready |
| `teardown` | the two annotations of maas-controller |
| `config`, `crds` | conditions of Config/default; the grid CRDs |
| `conds` | the conditions as patched: holds, severity, reason |
| `rr` | the spec the pass read, what deploy applied, the conditions it will patch |

`reportSubModuleStatus` is an action per read, for the Deployments, Config/default
and the CRDs change in between: three for MaaS (`ReportMaaS`, `ReportMaaSGateway`,
and `ReportMaaSConfig` only if both Deployments were ready), one for the tenants and
for batch, two for the grid (`ReportGrid`, `ReportGridOperator`). `rr.ready` is what
one of them leaves for the next. The CRDs are read one by one in the code and at
once here. `OverWriteCondition` and
`GridOnlyDeploymentsAvailable` are the reads of `overWriteCondition`.

- The keep decision of `initialize` is taken together with deploy; its races are
  `MaaSLifecycle`'s subject.
- The generic `deployments` action counts the applications namespace only, which
  is what `applicationsNamespaceDeployments` and the comments around it rely on.
  The grid operator runs in another namespace.
- "False" of a Config condition stands for everything but True.
- Every object read is owned or watched, so every change of it enqueues.
- Reads see the cluster as it is. A lag delays a read and the event that
  enqueues by the same amount (one informer serves both), so a pass after the
  event sees the change.

Bounds of `StatusSettles`: MaaS and the grid toggled three times in all, two
changes of Deployments or Config/default, one fault; four contents of
Config/default: missing, healthy, not ready without tenants, ready with blocked
tenants. Batch differs from the grid only in having no CRDs; `StatusGridDown`
has it toggled. Deadlock is not checked: at rest, `SettledSubModules` and
`SettledAvailability` say in what state. Fairness: the worker only.

### TLSBootstrap

| variable | in the code |
|---|---|
| `apiserver` | the APIServer object's profile and adherence policy; `NoMatch` outside OpenShift, `NotFound` before the object exists |
| `pc` | `run` of `cmd/operator`: before Resolve's first read, its second, the TLS options, the manager, serving, cancelled |
| `result` | `tls.Result`; `expired` is bootstrapTimeout, `absent` an auxiliary record of a first read that found nothing |
| `served` | the profile behind `TLSOpts` |
| `watched`, `notified` | what SecurityProfileWatcher was given to compare with, and its queued reconcile |
| `restarts` | auxiliary: processes ended by their watcher or by a crash |

- A read ends in a value, in NotFound or NoMatch (`absent`), in a transient error
  (`FetchProfileTransient`, `FetchAdherenceTransient`) or in a fatal one (`Crash`). An
  internal error is fatal for the profile and transient for the policy. Once the
  shared time is over, the second read can only be transient.
- A profile is usable or not; which cipher suites are left of it is not modelled.
- Two policies keep the default (`KeepsDefault`), every other one follows the cluster,
  `aLaterPolicy` standing for those that do not exist yet.
- The watcher reads the object when it reconciles; a lag of its informer is the
  same as a later reconcile. The process is taken to be the leader.
- The object may be created late, but is never deleted.
- `restarts` is counted up to `MaxRestarts`, one more than `RestartsHaveCause`
  allows. A process whose profile is rejected never serves and is not counted.

Bounds of `TLSReload`: three changes, two faults, three profiles (the default,
another, one without usable suites). Fairness: the kubelet restarts, the process
and its watcher run. At rest everything may stop, so deadlock is not checked.

### InfraRBAC

| variable | in the code |
|---|---|
| `maas`, `grid`, `completed` | `managementState` of `modelsAsAService`; is `aiGrid` Managed; the answer of `maasTeardownCompleted` - each as the cache has it |
| `live`, `cached`, `stale` | the two namespaces, the Role and the RoleBinding in the API server and in the cache; those whose cached copy has been overtaken |
| `drifted` | auxiliary: what others changed since the operator wrote it or found it in order |
| `pc`, `rr` | the object the pass is at; what it read, and whether that is still the live version |

`Get`, then `Create`, `Update` or `LeaveAlone`, are the ensure functions, for
each of the four objects in the order of `initialize` and
`ensureInfraSecretMigrationRBAC`; `DropRole` and `DropRoleBinding` are
`ensureInfraRBACDeleted`. `CreateRefused` (AlreadyExists, no namespace) and
`UpdateRefused` (Conflict, NotFound) are what a lagging cache leads to.

- A resourceVersion matters only in whether it is the live one, so there is no
  counter: a write by anybody makes cached copies and copies in hand outdated.
- The API server leaves the resourceVersion alone when an update changes nothing.
  `PassesStop` rests on it (mutant `Write_AlwaysNewVersion`).
- The informer may skip versions and delivers objects in any order. A crash is a
  failed pass followed by the deliveries of a new list.
- Namespaces are not watched: a label taken away by others is put back at the
  next pass, whenever that is. Role and RoleBinding carry a plain owner reference
  (`SetOwnerReference`); whether `Owns` enqueues for it is left open, and the
  properties hold either way.
- Other writers do anything to the objects but take their own labels away.
- A RoleBinding that was there before refers to this Role. `roleRef` is immutable
  and the update leaves it alone, so another one would stay.

Bounds of `InfraRights`: from a namespace without the operator's labels and a Role
with other rules, two events (edits, other writers) and one fault. Two are enough for
a change between a read and its write, and another during the repair. Fairness: the
worker, and the informer for each object. Nothing to do is no deadlock.

### OperatorConfig and DerivedNamespaces

| variable | in the code |
|---|---|
| `path`, `env` | `ODH_MODULE_OPERATOR_CONFIGURATION_PATH`, the other `ODH_MODULE_OPERATOR_*` |
| `volume`, `names` | what the files of the mounted ConfigMap contain, and what the directory lists |
| `todo`, `layer` | entries of `ReadDir` still to be read; viper's layer of what files said |
| `cfg` | the `Config` of a running process |
| `listed`, `seen` | auxiliary: the entries the load began with, the contents there were during it |

- The kubelet swaps the contents of all files at once and then adds and removes
  names (`SwapContents`, `AddName`, `RemoveName`); `loadFromFS` lists once and
  reads one by one, and skips what it cannot read.
- viper is external: an empty variable counts as unset, an empty file does not;
  what is merged last stands; a variable is bound to the keys known when `bindEnv`
  runs (`Bound`).
- `Documented` is the order the comments give (variables, then files, then defaults)
  and nothing else. The code departs from it in one case, `Overlooked`: `pprof-addr`
  has no default, so its variable is ignored unless a file names the key, and the
  field stays empty. `EnvironmentOverrides`, violated by `ConfigEnvironment`, is the
  comment's claim without exception; `LoadedFromOneVersion` excepts that case by name.
- The path may be a directory "or a single config file" (`config.go:56-57`). It may
  not: `Load` hands any path to `os.DirFS`, and listing a file fails (`ListFails`), so
  such a process never runs. `Loadable`, the premise of `ConfigComes`, excepts the
  path of a file for that reason. This is a disagreement of the comment with the
  code like the ones of section 4, with no run of its own: one step shows it.
- `Unfit` are the values the decoder refuses for a field.
- What a load may end with when the ConfigMap changes under it: with one key per
  file, or the same keys in the same files, every key has its value from one of the
  versions, and keys of the same files from the same one (`LoadedFromOneVersion`).
  A key that moved to another file may be missed in both, and falls back to its
  default until the next restart. A load from one version alone is the special case
  in which every key is steady.
- `DerivedNamespaces`: names are sequences over a small alphabet and lengths are
  scaled (8 for 63, 2 for the hash and the suffix); the theorem is for any lengths.

Bounds of `ConfigLoads`: three updates (before, during and after a load), one kill,
five contents: the same keys in the same files twice, one with a file renamed, one
with a value no field takes, one that does not parse. Three environments, the path
unset, a directory, or a file. Fairness: the kubelet finishes an update and restarts
the container. A running process with nothing left to change is at rest.

## 4. Runs

| run | environment | shows |
|---|---|---|
| `MaaSHandshake` | sound (below), fresh or legacy, two companions, 2 faults | type invariant, the four safety properties, that the model implements `TeardownHandshake` (`ImplementsHandshake`), also while a legacy Deployment is recreated, that it is as fair (`TeardownSeenThrough`), and that removals clean up the runtime |
| `MaaSConverges` | everything relaxed, lag 2, 2 faults | when quiet, the cluster is what the spec asks for; removals and installations complete |
| `PlatformEcho` | everything relaxed, lag 1, 2 faults | a settled status answers the platform; failed passes keep the entry; an upgrade precedes its record; a lasting version is echoed; the echo of a growing version never goes back |
| `StatusSettles` | MaaS and grid toggled, 1 fault | a quiet operator's conditions say what the cluster is; they catch up; grid CRDs stay |
| `TLSReload` | 3 changes, late creation, 2 faults | a settled process serves the profile asked for; no more restarts than changes and faults; a lasting profile is served |
| `InfraRights` | lagging cache, 2 events of others, 1 fault | a quiet operator has granted or withdrawn the rights and labelled its namespaces; others' labels survive; passes come to an end |
| `ConfigLoads` | 3 updates under the loads, 1 kill | values come from one version in the documented order, but for `Overlooked`; a repaired ConfigMap gets the process running; the grid namespace is a valid name |

The sound environment (`SoundEnvironment` of the proofs): an up-to-date cache
when the reconciler looks, a spec that always says Managed or Removed, no removal
taken back before it is finished, and no failure between the deletion of a legacy
Deployment and its recreation (`RecreationMayFail`). `MaaSSelectorCrash` and `MaaSReenabled` each drop one clause. The other two
matter as well: a cache that still says NotFound has a bundle just created
collected (`aigateway_remove.go:132`), and a spec that leaves `modelsAsAService` out has
a serving maas-controller collected without being asked (`aigateway.go:280`).

| run | drops, or adds | what happens |
|---|---|---|
| `MaaSSelectorCrash` | no failure during the move off the legacy selector | the missing Deployment counts as a finished teardown; the runtime stays for ever |
| `MaaSReenabled` | no removal taken back early | a Managed bundle is collected in the pass that applied it |
| `PlatformMisread` | one failed read of the ConfigMap | the echo is cleared in a pass that succeeds, and nothing triggers another |
| `StatusGridDown` | batch and grid Managed together | DeploymentsAvailable is True while the grid operator is not ready |
| `ConfigEnvironment` | the variable of a key without a default | it is overlooked, and the process runs with an empty `pprof-addr` |

Each quotes, in `PROJECT.json` "findings", the line of the repository it disagrees with.

`RemovedNeverReinstalls` is checked without lag only: a cache that still shows a
Deployment just collected makes the next pass apply it once more (and a later
one collect it, which `MaaSConverges` covers). `SettledEcho` and `EchoConverges`
exclude misreads, which `PlatformMisread` is about. The bound of `RestartsHaveCause`
is met: three changes and two faults do restart the process five times.

### Mutants

Operators named `X_Y` in a module are `X` with the mistake `Y`, a plausible one.
`PROJECT.json` pairs each with the property it breaks.

- MaaS: a missing Deployment read as pending (`TeardownCompleted_MissingIsPending`),
  a bundle kept only while Managed (`KeepInstalled_OnlyWhileManaged`), a stamp not
  refreshed (`Applied_LiveStamp`, `Applied_StampOnlyOnCreate`), a request never
  made (`Applied_NeverRequests`), the plain generation predicate in gc
  (`Deletable_GenerationOnly`), a Deployment without the label gc looks for
  (`Deletable_DeploymentUnlabelled`), rights withdrawn at once (`EnsuredInfra_NoWait`).
- Platform: the saved entry not put back (`Preserved_NoReattach`) or put back when
  there was none (`Preserved_EvenUnset`), versions compared the wrong way round
  (`UpgradeNeeded_Swapped`), the module recorded once only
  (`Reported_KeepsModule`), a withdrawn version kept (`Reported_NeverClears`).
- Status: only the severity changed when nothing is Managed
  (`NothingManaged_OnlyDowngrades`), a missing watch (`Enqueue_NotForConfig`,
  `Enqueue_NotForCRDs`), the grid's answer put over a failing count
  (`OverwriteNext_IgnoresCounted`), CRDs collected like anything else (`Stale_CRDsToo`).
- TLS: no check that a suite is left (`Usable_NoCipherCheck`), no watcher after a
  transient error (`AfterTransient_Unwatched`), the watcher given the profile in use
  instead of the one read (`Watched_Effective`, a restart loop).
- Infrastructure: an unfinished teardown falls through to the ensure functions
  (`Dispatch_MissingReturn`), a conflict is ignored (`UpdateRefused_Swallowed`),
  labels only on creation (`Updated_LabelsOnCreateOnly`), updates without a
  resourceVersion (`UpdateAccepted_LastWriteWins`), every update a new version
  (`Write_AlwaysNewVersion`).
- Configuration: files over variables (`Effective_FilesFirst`), first file wins
  (`Merged_KeepsFirst`), dot files read (`Listed_DotFilesToo`), values not decoded
  (`Fits_Unchecked`), the length checked off by one (`Fitting_OffByOne`).

## 5. Proofs

### Handshake with maas-controller

`MaaSLifecycle_proofs.tla`, for every set of companions and all bounds:

- `TypeCorrect`: `Spec => []TypeOK`, in every environment.
- `HandshakeSound`, `ManagedKept`, `InfraHeld`: the safety properties of
  `MaaSHandshake` under `SoundEnvironment`, legacy clusters included.
- `Refinement`: under `SoundEnvironment`, `Spec => ImplementsHandshake`, legacy
  clusters included. `HandshakeProtects` says what that is good for: by the abstract
  specification alone, the runtime never exists without a controller that serves it
  or has been asked to clean it up.
- `RemovalStands`: no reinstallation (`RemovedNeverReinstalls`) but of the Deployment
  that the same pass has deleted for its selector.

The argument. None of the properties is inductive: that gc removes only a
reported Deployment depends on what the pass decided four actions earlier. `IInv`
carries the decision along the pass: the cache is current; a pass that saw
Removed is not overtaken by Managed (`PassFollowsSpec`); a request implies that
spec and pass say Removed (`RequestFollowsSpec`); a report implies a request and
a clean runtime (`ReportIsFinal`); not keeping implies completion
(`KeepIsRight`); after deploy, what was kept carries this generation's stamp
(`StampIsCurrent`, `ManagedIsApplied`); and the runtime has its Deployment, or a
pass about to recreate it (`RuntimeIsServed`). `StepIInv` has one step per action.
The refinement maps the Deployment to a stage and shows that each write is an
abstract step or a stutter (`StepSimulates`; `StageOf` computes the stage). The
deletion of a legacy Deployment and its creation anew are stutters, for the stage is
"serving" before, between and after; `LegacyServes` is what the invariant adds for
them: a legacy Deployment has neither been asked nor has it reported, and what it
created exists.

`MaaSConvergence_proofs.tla`, in every environment (any lag, faults, early
re-enabling, an unset state, a legacy cluster): `RestMatchesSpec`
(`SettledMatchesSpec`). What a pass writes, and what others write during it, comes
back as an event; so a pass that ends with nothing queued and nothing owed by the
informer has written nothing, and found everything as it would have made it.
`Unmoved` says this label by label, `WriteDepSilent` is the reason. `History` is what
holds disturbed or not: the newest version owed is the live one (`CacheFollows`),
stamps and the pass are of past generations, and nothing carries the stamp of a
generation that left the state unset (`UnsetNotApplied`), without which a sweep under
an unset state would have to spare what it should remove.

### Platform handshake

`PlatformHandshake_proofs.tla`, for any versions, bounds and lag:
`PlatformTypeCorrect`, `EchoSettles` (`SettledEcho`), `FailureKeeps`
(`FailureKeepsEntry`), `UpgradeFirst` (`UpgradedBeforeRecorded`) and
`EchoForward` (`EchoNeverRegresses`).

What a pass will patch is decided several actions before it patches.
`StatusInv` says, per position in the pass, how `rr.status` relates to what the
pass saw (`Carried`: same entry until reportStatus, same module until then,
upgraded when the binary is newer), and `Answering` that a pass which has reported
and a quiet operator hold the current answer unless something is queued.
For `EchoForward`, `Forward` adds that no status anywhere - patched, cached, on its
way to the cache, or the one a pass began from - has an entry beyond the ConfigMap's
version, and that a pass which has reported is not behind the status it will replace.
The latter outlives an update of the ConfigMap, for only the one worker patches.

### Conditions

`StatusConditions_proofs.tla`, for every set of grid CRDs disjoint from the
Deployments, any contents of Config/default and all bounds: `StatusTypeCorrect`,
`SubModulesSettle`, `AvailabilitySettles`, `GridCRDsStay`.

A condition is right when set and wrong a moment later, so "right when quiet"
needs the invariant to speak of the queue: as long as nothing is enqueued,
nothing has changed since the pass began (`WorldChangePreserves`: every change
of the cluster, the operator's own included, enqueues). `Concluding` says that what
a pass under way has set so far is still due, `Concluded` the same of a quiet
operator; `DueFollowsWorld` is the lemma that what is due depends on the
cluster only.

### TLS profile

`TLSBootstrap_proofs.tla`, for every set of profiles and all bounds:
`TLSTypeCorrect`, `ProfileSettles` (`SettledProfile`) and `NoRestartLoop`
(`RestartsHaveCause`).

Two pieces of state decide whether the watcher can miss a change: what Resolve
read, and what it put in its place. `Resolved` says that a watcher is set up unless
the object was absent; `DefaultUnlessRead` that a policy that is not watched goes
with the default profile, for which the policy makes no difference; `NothingMissed`
that with nothing queued the object is as the watcher was told.

`NoRestartLoop` is an accounting: `Budget` says that restarts, plus one for a
process that is bound to be stopped (`Mistaken`: what it read is no longer what the
object says), are covered by the changes and faults so far. `StepCost` shows that a
step which makes a process mistaken is itself a change or a failed read, and that a
watcher stops mistaken processes only.

### Infrastructure RBAC

`InfraRBAC_proofs.tla`, for any objects in the cluster beforehand, any of the
states and all bounds: `InfraTypeCorrect`, `RightsSettle` (`SettledRights`),
`NamespacesSettle` (`SettledNamespaces`), `OthersLabelsStay` (`OthersLabelsKept`) and
`PassesWindDown`.

`CopiesTrue` says that a copy not overtaken is the live object, which is what an
accepted update relies on. A namespace that has its labels in the cache is not
written, so `LackIsSeen` is needed: labels that are missing are missing in every
copy, or someone took them away. `DoneSoFar` says, per position in the pass, which
objects are settled as long as nothing is queued; `OthersPreserve`, `EnsuredStep`
and `FailPreserves` are the three kinds of steps.

`PassesWindDown` is `PassesStop` short of its fairness. `Work` counts, per object, a
copy that has been overtaken, a write the spec still asks for (`Lacking`) and one a
pass may still make that it does not ask for any more (`Stray`); a write that changes
an object leaves a delivery behind, and a stray one a write to undo it, whence the
weights. Without events and faults `Work` never grows, and every delivery and every
write that changes something lowers it. A step that leaves it alone while nothing is
overtaken lowers `Steps`, the distance to the end of the pass and of the one that is
queued, a pass that will be refused (`Doomed`) counting for another. What is left to
fairness is that a step happens, and that something overtaken is delivered.

### Configuration

`OperatorConfig_proofs.tla`, for any files, contents, environments and bounds:
`ConfigTypeCorrect`, `ConfigFromOneVersion` (`LoadedFromOneVersion`: the documented
value, or the zero value of an overlooked variable's key) and `KnownVariablesOverride`,
what holds of `EnvironmentOverrides`: for keys with a default. The invariant
`ReadInOrder` says that some assignment of a seen version to each file read explains
the layer, and that files are read in order; `NextRead` extends the assignment by one
file, and `SteadyKey` finds in it the last file that speaks of a key.
`FitConfigLoads`: while a load has met one version only, and all its files, the same
assignment is constant, so the load ends with the documented values
(`UndisturbedDocumented`); a ConfigMap in order is therefore never refused, and only an
update under way or an end for another reason delays the Config.
`DerivedNamespaces_proofs.tla`: `GridNamespaceAlwaysFits` (`GridNamespaceFits`) for any
alphabet, lengths, suffix and hash, by `Trimmed`, `BaseFits` and `Suffixed`.

### Model-checked only

Liveness (`RemovedEventuallyGone`, `ManagedEventuallyInstalled`,
`RuntimeEventuallyCleaned`, `EchoConverges`, `ConditionsConverge`,
`ProfileConverges`, `PassesStop`, `ConfigComes` and `TeardownSeenThrough`),
which is out of the prover's reach; `NoRestartLoop` is the safety half of
`ProfileConverges`, `PassesWindDown` that of `PassesStop` and `FitConfigLoads` that of
`ConfigComes`. Induction over data and recursive operators would also stay with TLC;
the modules have none.

## 6. Not modelled

Listed with reasons in `PROJECT.json`, "components": what section 2 says is not done,
`Config.Release` (a pure function of the configuration), sequential wiring in
`cmd/`, the images written into the manifests at start-up, the cache transform and
build information (no state), manifests, scripts and CI.
The `SemVer` and `PlatformName` conversions are not modelled either: `SemVer` wraps
`ParseTolerant` of a library, its comparison only decides whether `upgradeIfNeeded`
calls `upgrade`, which does nothing yet, and nothing in the operator reads the
platform's name back. Once `upgrade` does work, whether a repeated or interrupted
pass upgrades twice belongs in `PlatformHandshake`.

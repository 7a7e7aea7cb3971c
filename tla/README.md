# TLA+ specifications of fargocd

fargocd mirrors Flux `HelmRelease`s onto Argo CD `Application`s, so that Argo CD
deploys what Flux users ask for. These modules model the parts of it that keep
state or work on state that others change at the same time, check them with TLC
on small instances, and prove the most important results with TLAPS for every
instance.

## The system

| Part | State | Operations | Talks to |
| --- | --- | --- | --- |
| HelmRelease reconciler (`pkg/controller/helmrelease_controller.go`) | none of its own but the finalizer, the Application and the conditions it writes; reads everything from informer caches | one `Reconcile` per request: resolve Argo CD's namespace, delete path, finalizer, suspension, dependency gate, `CreateOrPatch` of the Application, status patch | workload cluster API server, Argo CD cluster API server, workqueue |
| Naming (`pkg/controller/naming.go`) | none | HelmRelease name, chart and cluster name to Application name | used by create, delete and dependency lookup |
| CRD ownership (`helmCRDRegistry`, `syncApplication`, `ensureOversizedCRDs`) | in-process registry of the CRDs each release ships | record, elect, forget; create oversized CRDs | Application rules, CRDs on the workload cluster |
| Registry credentials and values (`resolveRegistryCredentials`, `buildTLSClient`, `valuesFrom`) | none; Secrets and ConfigMaps are read anew by every reconcile | compose the values, pull the chart | workload cluster API server, chart registry |
| Chart analysis (`pkg/ignoregen`) | in-process memo of results | render a chart twice, derive `ignoreDifferences` rules, find its CRDs | chart registry |
| Shared resources (`sharedResourceIgnoreRules`) | none; works from the Application's status | warnings to rules | Argo CD |
| CRD schema rules (`crdSchemaCache`) | in-process cache with a TTL of ten minutes | look up a CRD, rules for pruned and zero-valued fields | workload cluster API server |
| Status mirror (`updateHelmReleaseStatus`) | none | Application status to HelmRelease conditions | workload cluster API server |
| Start-up (`pkg/cmds/run.go`, `pkg/mode`) | flags, leader lease | validate, wait for the Application CRD, build one or two managers | kubelet, API servers |
| Add-on manager (`pkg/manager` and its chart) | hub flags, one serving certificate per process | render the agent chart for every spoke | Open Cluster Management |

What is hard about it: every read comes from a cache that trails the API
servers; the Application is patched without a resourceVersion; a reconcile makes
up to three calls, each of which may fail, fail after having been applied, or be
the last thing the process does; and the users, Argo CD and instances on other
clusters act in between. What makes each part correct:

* reconciler: no Application outlives its HelmRelease (one that the Application cache
  has not heard of yet may); one Application per
  release and one writer per Application; a release that stays wanted is mirrored
  in the end; a deleted one is let go; dependents come after what they depend on;
  the conditions end up being those of the Application;
* naming: releases of different clusters never share an Application;
* CRD ownership: of several releases that ship a CRD one writes it in the end; an
  oversized CRD is created for whoever needs it and then left alone;
* chart analysis: the fields known to differ from render to render are ignored when
  they do, and nothing else; values and rules follow ConfigMaps and Secrets that are not watched;
* CRD schema rules: they follow the CRD, at most the cache's TTL behind it;
* shared resources: a resource that several charts ship stays with one of them,
  and nothing is ignored for longer than it is contested;
* start-up and add-on: whatever is installed starts, one of the competing pods is
  active, Applications are watched once they are served, and rollouts end.

## Modules

| Module | Models |
| --- | --- |
| `Naming` | `naming.go`. A name is the sequence of its dash-separated tokens, so that joining with a dash is concatenation and ambiguity is visible. |
| `ClusterNaming` | several instances, one principal: an Application per projected name, known by its annotation (`<namespace>/<name>`, without the cluster) and the agent's label (the cluster). `SyncRelease` is a successful reconcile, `DeleteRelease` a complete deletion. |
| `ApplicationMirror` | abstract: what the bridge promises of releases and Applications. |
| `HelmReleaseReconciler` | `Reconcile` and everything around it. EXTENDS `Naming`. |
| `HelmReleaseCorrectness` | its properties, and the inductive invariant behind those about wake-ups. |
| `HelmReleaseHistory` | the reconciler with an observer of the Applications a deletion has overlooked; what it implements of `ApplicationMirror`, and the inductive invariant behind that. |
| `CRDOwnership` | the collection of a chart's CRDs, the registry, the election, the oversized CRDs; one reconcile is one step. |
| `ChartAnalysis` | the passes over two renders and the merge of their rules, as operators. |
| `ChartSource` | what a release takes from elsewhere over time: chart, values, credentials; the memo of analyses. EXTENDS `ChartAnalysis`. |
| `CRDSchema` | the schema cache with its TTL and the two passes of rules it serves. |
| `SharedResources` | warnings to rules, in a loop with Argo CD's reports and syncs. |
| `AddonManager` | the hub's flags, the values it renders for a cluster, the chart's conditions. |
| `Startup` | `runOperator` in every pod, with the Deployment, kubelet and leases around it. EXTENDS `AddonManager`. |
| `Fleet` | hub and clusters composed, with their properties. EXTENDS `Startup`. |
| `...MC` | instances for TLC: sets of releases, specs, charts, flags. |
| `...Proofs` | the theorems. |

Definitions named `X_Y` whose comment begins with "Faulty:" are not part of the
model: each is a plausible bug in the definition `X`, and putting it in the place
of `X` must break the property it is meant for. They show that the properties can
fail.

### HelmReleaseReconciler

State of the API servers: `hr` (HelmReleases: finalizer, deletion mark, spec,
mirrored status), `app` (Applications: owner annotation, source, cascade
finalizer, deletion mark, status), `repo`, `services`. State of the process:
`hrCache`, `appCache`, the undelivered Application events `appEvents`, `queue`,
`delayed` (RequeueAfter and error backoff) and `worker`, the local variables of
the reconcile in progress.

`Reconcile` is cut where the outside can intervene: everything up to its first
API call is one step (`ReconcileNotFound`, `ReconcileNoArgo`, `ReconcileNothing`,
`ReconcileDelete`, `ReconcileFinalizer`, `ReconcileBlocked`, `ReconcileSync`, one
for each way through the code), then each call is a step: `AddFinalizer`,
`DeleteApplication`, `RecheckApplication`, `ReleaseHelmRelease`,
`WriteApplication`, `MirrorStatus`. controller-runtime runs one worker, so there
is one reconcile at a time.

* `Update` carries the resourceVersion the cache had. The model keeps no version:
  it compares the object with the copy, which is equivalent as far as an
  interfering change is visible at all (a change and its reversal in between are
  a conflict in reality and none here; the outcome is the retry that a conflict
  in the model gives).
* `CreateOrPatch` sends a merge patch with the fields in which the rendered
  object differs from the cached one (`Merged`), and no resourceVersion.
* The status patch carries no resourceVersion either. It may be empty when the
  conditions equal those of the copy, in which case nothing is written.
* Deleting an Application with the cascade finalizer marks it, `ArgoPrunes` ends
  it.
* `Crash` covers restart and loss of the lease: the caches are listed afresh and
  everything listed is enqueued.

`HelmReleaseHistory` adds `missed`, an observer: the Applications of which the deletion
path was told by the cache that there were none (`Misses`), until they are gone or their
release is back. It takes no part in any step. It separates what stale HelmReleases,
failing calls and crashes can orphan (nothing, and this is proved) from what a stale
Application cache does (`OrphanStaleCache`), without assuming that a cache never lags.

Values are part of the spec here; where they come from is `ChartSource`. Not
modelled: users who remove the back-link annotation or strip the operator's
finalizer.

### ApplicationMirror

A release is out, held or leaving; a key has no owner or one; an Application appears
for a release that is not out, never changes hands, and a release is let go when it
owns none but those it has lost sight of (`Overlook`: only once the release is no longer
held). The refinement mapping of `HelmReleaseHistory` reads this off the API servers'
state and `missed`, which is what is `lost`: the phase of a release is whether the operator's finalizer is
on it and whether it is marked (`Phase`), the owner of a key is the back-link
annotation of its Application, the keys at which it may appear are those of its
possible specs (`Home`). Caches, queue and worker are hidden: finalizer updates are
`TakeOn` and `LetGo`, a user's deletion is `Leave`, `WriteApplication` is `Appear` or a
stutter, and the end of an Application by Argo CD's cascade or a user is `Vanish`.

### CRDOwnership

State: what each release's chart ships with its values, who is suspended, each Application's
content and the CRDs its rules keep it off, the CRDs that exist, and in the
process the registry `byRelease`, the `memo` of successful analyses and the
requests `pending`. The memo goes by release and chart version, not by values, as
`cacheKey` does (`Design.md:185` leaves the release's name out of the key): after an edit of the values that turns templated CRDs on or off, the
reconcile goes by the analysis of the old ones (`Remembered`), and the registry, the
rules and the creations with it, until a restart forgets it. Those CRDs are `Misjudged`;
the properties say where they are left out. Release keys are numbers, in the lexicographic order the
election uses. A chart has CRD documents in `crds/` and among its templates;
`renderChart` collects both, `helmCRDNames` takes their names and sizes. No chart has
one CRD in two sizes (`ConstantsAssumption`). A failed analysis counts as one that
found nothing, as in the code.

### ChartAnalysis and ChartSource

An object keeps only what the passes look at; a JSON pointer or jq path is the
sequence of its keys. `Generated`, `detectForeignChartResources`, `nullFieldRules`
and `lookupGuardedRules` are the passes, `dedupeRules` the merge (rule by rule, `Merge`), `detect` all of
them together. Properties compare the rules with the renders through `Unstable`,
which states per path what must be ignored, without the passes. Of the fields known to
differ, `WellKnown` has those of `Design.md:173-183`; the payload of a Secret or
ConfigMap counts as one field, as `ignoregen.go:673-686` has it, where `Design.md:172`
wants the Secret keys that end in `.crt` or `.key` only. So what the runs and theorems
say of "nothing else" is that a rule for a payload needs a payload that differs, not that
it spares the keys that are stable.

`ChartSource` puts that in time. A release has a version, which may be an exact one
or a range, and values; a ConfigMap adds values; the HelmRepository names up to two
Secrets. `Upgrade`, `EditValues`, `EditConfig`, `Publish` (another chart under the
same version), `EditRepository` and `EditSecrets` change them; only changes of the
release and of the repository make a reconcile `pending`, as nothing else is watched.
`Sync` is a reconcile's part of it: compose the values, take the analysis from the
memo or resolve the credentials, pull, render and analyse; without the ConfigMap the
reconcile fails as a whole, without a chart it writes no rules. The memo's key is the
version alone because chart, repository, namespace and release do not change here,
and the values are not in the key: a result outlives an edit of the values
(`outdated`), and the properties claim nothing for that time. A piece of credentials
is absent, the one the registry accepts, or another one: enough to tell which of two
Secrets each piece came from and whether the pieces fit. What a chart renders to is
an input, chosen anew with every change.

### CRDSchema

Time is in minutes and stops counting above the TTL. `LookUp` is
`lookupCRDSchema` for all objects, `Reconcile` the two passes with lookups of
their own, any of which may fail. The RESTMapper remembers versions it has met,
so a CRD that has been removed is remembered as missing for the length of the TTL.
`EditSpec` is an upgrade of the release: its objects come from the memo of chart
analyses, which edits of the values do not reach.
`quiet` and `seen` are observers: minutes since the CRD changed, now and when the
rules were computed.

### SharedResources

`Refresh`, `Sync` and the pruning in `Uninstall` are Argo CD as the code relies on
it: a resource belongs to the Application that applied it last, the other ones are
warned, automated sync without `selfHeal` acts once for a version and respects the
rules. `live` is whose mark a resource has, `data` who wrote the rest of it. A rule covers
spec, labels and annotations, the mark among them (`helmrelease_controller.go:762`), so
that it keeps an Application off a whole resource only if the charts agree on the rest;
`Divergent` are the resources on whose rest (the data of a ConfigMap or Secret) they do
not, and that is written by every sync. `Reconcile` writes version and rules in one patch, from the conditions as
they are.

### AddonManager, Startup and Fleet

A Deployment is reduced to what decides whether its pods start, where they write and
whether two renders are the same. On a managed cluster `Render` turns the hub's flags,
the cluster's platform claim and the certificate of the hub's process into a manifest,
again and again; on a hosted one an administrator runs the chart (`RunChart`), with any
mode at all: `values.schema.json` asks for an object and no more, and the chart passes on
what it is given. `Fails` are the chart's conditions, `Refuses` those
of `runOperator`.

A pod goes through `Validate`, `Await` (the wait for the Application CRD, with its
deadline and with a discovery that fails), `Elect`, `Sync` (the controller's wait for
the caches of both managers) and `active`; every way out is `exit`, after which the
kubelet starts it again. `CreatePod` and `RemovePod` are a rolling update that keeps as
many pods as wanted and one more. A lease expires only after its holder has given up,
because the renew deadline is shorter than the lease. `Register` serves the CRD's group
before the CRD. The Argo CD manager's lease, of one name on the principal, gates
nothing: a manager fills its caches before it competes for its lease.

What these modules made visible, beyond their properties: with one replica, all the hub
ever asks for, there is no election, and during a rollout the old pod works beside the
new one; the liveness probe kills a pod that waits; a restart of the hub rolls every
spoke once; a kubeconfig moves the Applications to the principal in every mode, while
their names carry the cluster only in managed mode; a change of mode or namespace leaves
the Applications written before behind.

## Runs

| Run | Question | Bounds | States |
| --- | --- | --- | --- |
| `ClusterNaming` | is an Application kept for its release? | two clusters with names of one and two tokens, none the end of the other, releases with names of one and two tokens, the renamed ACE release | 243 |
| `Lifecycle` | does an Application outlive its HelmRelease other than by a stale Application cache? does the inductive invariant hold? is every step one of `ApplicationMirror`? | one release, two values, stale caches of both kinds, four user operations, one fault, one crash | 611,526 |
| `Convergence` | is a release that stays wanted mirrored in the end? does the operator ever rest before? | stale caches of both kinds, drift, deleted Application, changing repository URL, three user operations, one fault, one crash | 263,000 |
| `Deletion` | is a deleted release let go? does a status that stays arrive? is either ever left to itself? | suspension, Argo CD coming and going, four user operations (enough for a deleted release to lose Argo CD and get it back), one fault that is not a status patch, one crash | 366,360 |
| `Dependencies` | order, one writer, no dependent waits for ever | two releases, one fault | 6,700 |
| `OrphanStaleCache` | does none outlive it at all? No: NotFound in the cache is taken as proof that the Application is gone | one release, no faults | |
| `CRDElection` | is the registry up to date at rest? does agreement give a CRD one writer, does it last, and is it reached in the end? are oversized ones created, and then left alone? | two releases, two versions of which one has other templates with other values, an ordinary and an oversized CRD, installation, removal, edits and suspension (three user operations), a failed analysis or creation, a restart | 53,676 |
| `ChartAnalysis` | do the rules cover what differs between renders, and no more? are overlapping passes merged? do values and rules follow what nobody watches? | one resource of each kind that has a pass and a ConfigMap in two variants, exact versions and ranges, two Secrets of several contents, two user operations, a failed analysis, a restart | 972,000 |
| `CRDSchema` | do the rules follow the CRD? | one kind, two versions, two fields, a TTL of one, three user operations, a failing reconcile or a restart | 79,000 |
| `SharedResources` | does the fight over a resource end, and do the rules go with it? do the informed keep out of it? | three charts, two resources, on the data of one of which the charts disagree, three installations, upgrades without end | 72,388 |
| `TwinResources` | and when two resources have the same kind and name? No: the rule for the second is never made | two charts, one name in two namespaces | |
| `Fleet` | does what is installed start? is one pod active? does every cluster settle? | a spoke on OpenShift or a hosted cluster, three pods at a time, four settings of the hub, three of an administrator with a mode there is not, two restarts of the hub or runs of the chart, two looks before the deadline, one fault | 281,196 |

The bounds are on the environment only (users, faults, crashes); the operator may
take any number of steps. One release is enough for everything that happens
between a release, its Application and the process; two are needed for
dependencies, for a shared name and for the election. Three or four user
operations allow create, delete and create again, or create, two edits and a
deletion, at every point of a reconcile. In `ChartAnalysis` two operations are enough
for a value or a Secret to go wrong and be put right, before or after the failure or
the restart. In `Fleet` one cluster is enough, as clusters meet in the principal's
lease only, which another fleet may hold from the start; three pods are two replicas
and the one a rollout adds. Deadlock is not checked: when the users
are done and everything has settled, the system rightly stops.

Fairness (`HelmReleaseReconciler!Fairness`): watch events are delivered, timers
fire, Argo CD's cascade ends and the worker goes on (weak fairness each). A
request that is in the queue is reconciled (strong fairness of `Reconcile(h)`:
the guard comes and goes with the worker, and the workqueue is first-in
first-out). Nothing obliges users, Argo CD's reports, failures or the periodic
resync, so that no liveness result depends on the resync hiding a lost wake-up.
`CRDOwnership!ResyncSpec` and `CRDSchema!ResyncSpec` do assume the resync, every
ten hours by default: nothing else brings a release back to an election whose
result has changed, or to a CRD that has. `ChartSource!ResyncSpec` assumes it as
well, for what it shows is just that: without a watch on ConfigMaps and Secrets
nothing else brings the release back. `SharedResources!FairSpec` assumes that Argo
CD reports and syncs and that requests are reconciled. Upgrades are unlimited there
once everything has settled, and bounded before: contenders that upgrade faster than
Argo CD reports can take a resource from each other for ever.

`Fleet!Fairness`: the hub is restarted and renders on, Deployments are rolled out, pods
go on and are restarted, leases expire, a free one is taken by some candidate; nobody is
obliged to register a CRD, report a claim, change a flag or give up the principal's
lease. `FleetSettles` promises something only for clusters on which nothing outside is
missing for good.

## Proofs

`HelmReleaseProofs` proves type correctness and, for any number of releases, specs,
statuses, faults and crashes, and with caches of both kinds as stale as they like, that
an Application outlives its HelmRelease only where the deletion took NotFound from a
cache that had not heard of it for proof that it was gone (`OnlyTheMissed`). It assumes
`StableNames`: a release's name does not change with its chart, no two releases share
one, Argo CD does not move. That cannot be dropped, as instances with an edit of the
chart to `ace`, with one name in two namespaces or with a moving Argo CD show; and what
`missed` stands for does happen, as `OrphanStaleCache` shows.
The property is not inductive: a stale copy of the HelmRelease might look alive
when it is deleted, or the worker might be about to write or to release.
`ReleaseInvariant` adds what is needed. `ApplicationsHeld`: the release of every
Application has the finalizer, or the Application is in `missed`. `CacheSound`: a cached
HelmRelease that looks live is still held by its finalizer, one that looks deleted
has not come back to life. `WorkerSound`: the same for the worker's copy, and when
it is about to release, the Application is gone or in `missed`. The proof has a lemma for
each group of actions.

It also proves that nothing is forgotten, the safety half of `Converges`,
`DeletionFinishes` and `MirrorConverges`: a release that is to be deployed and is not
mirrored (`NoLostWakeUp`), one that is being deleted (`NoStrandedDeletion`) and, if no
status patch fails, one whose conditions are behind (`StatusCurrent`) is `Attended`: a
request is queued or delayed, an event that names it is under way, its copy in the cache
is outdated, or the worker is at it. What the liveness properties add, and TLC checks on
the instances, is that this leads somewhere and ends. These three
theorems need no assumption: names may clash, Argo CD may move, both caches may lag, any
call may fail, be lost or be half done. None is inductive: whether a release at rest is
in order depends on what the worker did with a stale copy before.
`WakeInvariant` says how far a stale copy can be trusted. `EventsSound`: an Application
that differs from its copy has an undelivered event for its old owner and its new one.
`WorkerAware`: unless the worker's release is woken again, its copies of the HelmRelease,
the repository's URL and the namespace are current, and so is that of the Application if
it is the release's own. (It may be another's; taking it over is then announced.)
`RestSound`: a release nobody leads back to is as its cached copy wants it, or has
outdated that copy. `DeletedHeld`: what is marked for deletion has a finalizer.
The proof shows for every step that a release not told of it keeps all it depends on
(`Undisturbed`), and then looks at the worker's own release call by call.

`ApplicationProofs` collects what is proved about Applications from these invariants.
Under the assumption of `OnlyTheMissed` every behaviour of the reconciler is one of
`ApplicationMirror` (`ImplementsTheMirror`): each action is shown to be one of its steps
or to leave its variables alone. The invariant is needed twice: `WorkerSound` for
`Appear` (the release is held, the key is one of its own) and for `LetGo` (no Application
is left but those overlooked).

`DependenciesComeFirst` proves `DependenciesFirst` for any dependency relation, and with
both caches lagging, as long as users delete neither releases nor Applications
(`NobodyDeletes`; with deletions the gate is a check in passing, and what it saw may be
gone when the dependent is written). Three facts are inductive together: nothing is
marked for deletion, in the caches neither; what the Application cache shows exists; and
the gate was open for every Application that exists or is about to be written.

`WritersKeepApart` proves `OneWriter` if no two releases project to one name
(`DistinctNames`; Argo CD may move and charts may change, which `StableNames` forbids).
Two releases of one name in two namespaces, which share an Application, break it. The
invariant is that an Application is named after its owner, and the one the worker is at
after the worker's release.

`ClusterNamingProofs` proves that an Application on the principal is kept for its
release (`NoTakeOver`) and that annotation and label lead back to it (`OwnersCorrect`), if
no cluster's name ends in another's (`SuffixFree`; `1` and `east-1` do), no name is used in
two namespaces of a cluster (`NamespacesApart`) and no projection hits the ACE release's
name (`ACEApart`). Two names that are equal with different suffixes would make one suffix
the end of the other (`SuffixesNest`); that is all it takes, names may have any number of
dashes. The annotation alone does not identify the HelmRelease: it is the same on every
cluster, and only the agent's label tells them apart.

`ChartSourceProofs` proves the three properties of the analysis for any charts, values,
Secrets and histories: `AnalysesAreComplete`, `AnalysesAreJustified` and `RulesAreMerged`.
They assume of a chart what `IsChart` says (finitely many objects; an APIService has one
CA bundle, only webhooks have several; both renders agree on the kind of an object), for
every pair of renders the instance allows (`ChartsAssumption`), and that a version is
exact or not (`SetupsAssumption`). Three steps lead there. The merge: rules for a
resource end up in one rule, which covers what they covered and nothing else
(`DedupeKeeps`). `dedupeRules` is a recursive function over the positions of a sequence;
the induction is over a set of positions without a least counterexample, an instance of
the naturals' well-ordering (`InductiveSet`), so that no operator has to be a parameter.
The passes: `DetectFinds` characterises, per resource and path, what the four
passes and the merge yield together; `AnalysisComplete` and `AnalysisJustified` compare it
with `Unstable`, which knows no passes. The memo: `MemoInvariant` says that whatever is
remembered, and whatever rules the Application has, is the analysis of some renders, and
of the present ones unless `outdated`; and that no later version is remembered, so that
an upgrade is analysed.

`CRDOwnershipProofs` proves type correctness, and that no Application that has settled
writes an oversized CRD that exists (`OversizedSafe`): its last reconcile was not
skipped, its version has been analysed, and the CRD is not one that other values turn on
(`Misjudged`). The invariant `RulesCoverOversized` says that the rules written from an
analysis name every oversized CRD of the content analysed, which rests on `FindsAll`: what
is collected from `crds/` and the templates is all the chart ships.

It also proves what `OneWriterInTheEnd` rests on. `RegistryFollows`: what no reconcile is
to come for has been taken in, with what its version shipped when it was analysed
(`RegistryCurrent`; `RegistryInvariant` adds `SuspendedExist`, as a skipped reconcile would
otherwise leave a deleted release in the registry, and `OneAnalysis`, as the memo would
otherwise leave a choice). `Agreed` is the
state in which every Application has the rules that follow from the registry as it is.
`AgreedWriters`: then every CRD that no release has oversized is written by exactly one
Application. The election has a winner, by the least-element lemma `ElectionWon`, and no
second one, by `ElectionUnique`. `AgreementStays`: no reconcile, in whichever order and
whatever fails, ends an agreement, because an analysis that has succeeded is not repeated
and the rules depend on chart and registry alone. `RegistryCurrent` does not imply
`Agreed`: a release with a smaller key that joins owns the CRD at once, and nothing wakes
the one that has lost it. That agreement is reached rests on the resync and is left to TLC.

`FleetProofs` proves type correctness and the three safety properties for any number of
clusters, slots, flags and faults. The lemmas about actions show once what becomes of
every pod in any step (`Fits`: it stays, goes, is created from the manifest, or moves on
with its revision, past the election only with the lease); the three invariants follow
from that.
`OnlyUnknownModesRefused` needs `Accepted` (it is true of manifests as well, hub and chart
having refused the rest), `OneActive` needs `Held` (a competing pod past the election
holds the lease), `WatchesServedOnly` is inductive given the types: a CRD that is served
stays served.

`SharedResourcesProofs` proves type correctness (rules name resources of the
Application's own chart, in full, because a lookup returns a member of its inventory,
`LookupFinds`) and the safety half of `FightEnds` and `SelfClears`: an Application that
is `Informed` ignores exactly what it has to (`InformedRulesAreCurrent`) and takes
nothing from another one, with whichever version it syncs (`InformedTakeNothing`), except
for what no rule covers, the data on which charts disagree. The
invariant is `RulesFollow`: whoever is not pending has the rules its conditions call for.
Both need `UniqueIds`, as kind and name are all the lookup goes by; `TwinResources` shows
what happens otherwise. That everybody is informed in the end is left to TLC.

`CRDSchemaProofs` proves that rules computed more than the TTL after the CRD's last
change are those of the CRD as it is (`StalenessBounded`), for any TTL, versions,
schemas, failures and restarts. The inductive invariant adds `CacheSound`: an entry
younger than the last change is what would be read now.

Model-checked only: all liveness, because the prover does not reason about fairness and
ENABLED, and the disagreement between code and comment that the two failing runs show.
Every invariant of a passing run is a theorem, for the instances the theorem's
assumptions admit.

## Instances beside the runs

Each of these breaks a property for a reason found in the code, and is worth running
when that code changes:

* `ClusterNaming` with clusters `1` and `east-1`: `db-east` on the one and `db` on
  the other are one Application (`KeptForItsOwner`; `naming.go:46`);
* `Lifecycle` with specs whose chart becomes `ace`, or with a second Argo CD
  namespace: the old Application is never looked for (`OnlyMissedOrphaned`);
* `Dependencies` with a renamed ACE release: its dependents look it up under a name
  with a cluster suffix it does not have (`Converges`);
* `Dependencies` with user operation `delete` or `unapp`: the gate is not looked at
  again between the check and the write (`DependenciesFirst`);
* `Convergence` with one release name in two namespaces: the two overwrite each
  other's Application for ever (`Converges`; `naming.go:44`);
* `CRDElection` without `Misjudged` in `OversizedLeftAlone`, `Contested` or
  `OversizedCreated`: an edit of the values that turns on an oversized templated CRD under
  an analysed version meets the memo, so that the CRD is neither created by fargocd nor
  kept from Argo CD, against `Design.md:217-220` (`ignoregen.go:66-73`, `118-125`);
* `SharedResources` without `Divergent` in `FightEnds` and `TakenUnawares`: a ConfigMap or
  Secret whose data the charts disagree on is written by every upgrade of either, for the
  rule covers spec, labels and annotations only (`helmrelease_controller.go:762`, against
  `:692-693`);
* `ChartAnalysis` with `WellKnown` restricted to the Secret keys of `Design.md:172`: a
  generated password makes the analysis ignore the whole payload, stable keys, and
  ConfigMaps, included (`RulesJustified`; `ignoregen.go:673-686`);
* `CRDElection` without `Settled` in `OversizedLeftAlone`: an analysis that fails after
  a restart wipes the rules that protect an oversized CRD;
* `ChartAnalysis` without the condition `~outdated`: edited values, old rules;
* `ChartAnalysis` without `release.exact`: with a range of versions a chart's own
  labelled resources are ignored as a whole (`RulesJustified`; `ignoregen.go:168`);
* `Fleet` without the condition on OpenShift's claim in `Deployable`: the pods of the
  first renders are refused for their fixed user (`FleetSettles`).

## Not modelled

* Helm's loading and rendering, and how it compares versions: what comes out of them is
  an input. `renderChart` is modelled as far as it decides which CRDs are found and when
  the pull succeeds.
* Schemas that keep unknown fields at their root: the code looks under `spec` only.
* The annotation that turns on server-side diff, and the wording of conditions: constant
  or text.
* Two operators on one cluster at work at the same time (one replica during a rollout):
  a second worker over the caches of `HelmReleaseReconciler` is beyond TLC's reach.
* Users who strip the operator's finalizer: the registry entry then stays until the
  restart, by construction.
* The add-on framework's registration, health checks and manifest works; serving of
  metrics and webhooks; renewal of certificates. The chart's remaining values are passed
  on unseen.
* Metrics (`reflector_metrics.go`), scheme registration, completion and the command
  line: no behaviour depends on them. Vendored code: modelled as far as the code relies
  on it, and marked external in the map.

# A verification of the Kubeflow notebook controllers

This directory holds TLA+ models of the two Kubernetes operators of this
repository, the TLC configurations that check them on small instances, and
proofs checked by TLAPS. Paths below are relative to `src/components/`;
`odh/` stands for `odh-notebook-controller/controllers/` and `nbc/` for
`notebook-controller/controllers/`.

## 1. The system

A user's `Notebook` object asks for a Jupyter server. Three programs act on it,
all of them through the API server:

| part | source | state it keeps | operations |
|---|---|---|---|
| notebook-controller | `nbc/notebook_controller.go` | StatefulSet, Service, status; informer caches, work queue | reconcile: StatefulSet with 0 or 1 replicas, status, restart on request |
| culler (same process) | `nbc/culling_controller.go` | annotations `last-activity`, `last-activity-check-timestamp`, stop; requeue timer | query kernels and terminals, record activity, stop idle notebooks |
| mutating webhook | `odh/notebook_mutating_webhook.go` | none of its own; writes two ConfigMaps | lock on create, inject into the pod template, hold back what would restart a running notebook, mark it `update-pending` |
| odh-notebook-controller | `odh/notebook_controller.go` and the files it calls | finalizers, HTTPRoute, ReferenceGrant, ClusterRoleBinding, CA bundle, network policies, RoleBindings, Secrets, ConfigMaps | provide them, clean up on deletion, release the lock, write TLS flags |
| servers of both managers | `notebook-controller/pkg/tls`, `odh-notebook-controller/main.go` | TLS settings, the profile they were made from, a watcher | read the cluster's profile at the start, restart when it changes |

How they interact:

* **The lock.** The webhook creates every Notebook with the stop annotation set
  to a special value. notebook-controller treats it as a stop (0 replicas).
  odh-notebook-controller removes it at the end of its first successful
  reconcile. The culler and the user write the same annotation.
* **Every write goes through the webhook**, the controllers' own writes too. It
  decides from the old and the new object whether a template change may pass.
* **Caches.** Controllers decide on cached objects and write to the API server.
  An Update fails on a newer resourceVersion; a merge Patch does not. ConfigMaps
  and Secrets are read from the API server (`odh/cache.go`).
* **Finalizers** stand for owner references where those are impossible:
  HTTPRoutes live in another namespace, ClusterRoleBindings in none, and the
  ReferenceGrant belongs to all Notebooks of a namespace.
* **Owner references** tie network policies, RoleBindings, ServiceAccount,
  Service and ConfigMap to the UID of their Notebook. Kubernetes' garbage
  collector deletes them some time after it, when a Notebook of the same name may
  have been created again.
* **Shared objects of a namespace**: CA bundle, runtime-images ConfigMap and Elyra
  Secret are written by every admission and every reconcile.
* **Watches** turn changes of Notebooks, routes, grants, ConfigMaps and
  Namespaces into requests; some of them queue one Notebook for all.

What is hard: steps of five writers of one object in any order; decisions on
stale caches; calls that fail between two effects; a process that is killed or
stops itself in the middle; events filtered or sent to one of several Notebooks;
and a timer that must never be forgotten. `PROJECT.json` lists these hazards at
their lines.

What makes each part correct:

* lock and lifecycle: nothing runs before it is prepared; nothing that runs is
  restarted unasked, but by the one patch that takes out the mount of a CA bundle
  that is gone or cannot be read; a stop is a stop; what is asked for finally
  happens;
* culler: only idle notebooks are culled, and those are; activity is not lost;
* clean-up: nothing provided is left behind that the clean-up could see, nobody
  else's is taken away;
* routes: every Notebook ends at the Gateway that is configured for it;
* CA bundle: it is complete, mounted before the start, and not mounted when gone;
* owned objects: there, repaired, of the Notebook that exists now, gone with it,
  and nobody else's policy is taken over;
* pipeline configuration: mounted from the first Notebook on, never outdated for
  good, no credentials left behind;
* servers: the cluster's TLS profile or no service, without restarts in circles.

## 2. Modules

| module | models | state | 
|---|---|---|
| `NotebookAdmission` | the Notebook, the webhook's decisions (`Handle`, `maybeRestartRunningNotebook`), a write through admission | pure operators |
| `NotebookLifecycle` | one Notebook from creation on, both controllers, user, StatefulSet controller, whether the CA bundle is found | `nb`, `sts`, `pod`, caches `upC`, `stsC`, `odhC`, queues, the two running reconciles `up`, `odh` |
| `Workbench` | the promise to the user, without caches and versions (abstract) | `want`, `running`, `prepared`, ... |
| `Culling` | `CullingReconciler` and what it asks | annotations as ages, server, caches, timer, running check |
| `OdhCleanup` | routes, grant and bindings of several Notebooks of a namespace, the OAuthClients of an earlier release, ingress assignment, finalizers | objects and their caches, queue, running reconcile |
| `OwnedObjects` | policies, RoleBindings, ServiceAccount, ConfigMap and Service of one Notebook name through its re-creations; garbage collector | Notebook, objects with owner and content, caches, events on their way, running reconcile |
| `PipelineConfig` | the runtime-images ConfigMap and the Elyra Secret; webhook and controller as concurrent writers | sources, the two objects, Notebooks with their mounts, one running job per Notebook and the controller's |
| `ServerTLS` | TLS settings of the managers' servers: start, watcher, restart | the APIServer object, state of the API, settings, watcher |
| `TrustedCABundle` | the CA bundle: controller, webhook, sources | files of the sources, bundle, Notebooks, writes being admitted, running reconcile |
| `NotebookLifecycleProofs`, `WorkbenchProofs` | theorems about `NotebookLifecycle`; that it implements `Workbench` | |
| `OdhCleanupProofs`, `OwnedObjectsProofs`, `TrustedCABundleProofs`, `PipelineConfigProofs`, `CullingProofs`, `ServerTLSProofs` | theorems about the module of that name | |
| `MC...` | instances for TLC | |

`NotebookLifecycle` and `TrustedCABundle` are compositions: both extend
`NotebookAdmission` and put every write of a Notebook through it.

Correspondence with the code (the map in `PROJECT.json` gives the lines):

* A reconcile is a record with a program counter and what it has read. It is cut
  into one action per call to the API server whose order with other actors' steps
  matters. `UpStart`, `UpStatefulSet`, `UpStatus`, `UpRestart`, `UpClearRestart` are
  `NotebookReconciler.Reconcile`; `OdhStart` to `RemoveReconciliationLock`, with
  `UnsetNotebookCertConfig` between the finalizers and everything else that is
  provided, are `OpenshiftNotebookReconciler.Reconcile` of an active Notebook;
  `Start`, `AddFinalizers` to `ReconcileHTTPRoute`, and `DelOAuth` to
  `DelFinalizers` are both of its branches in `OdhCleanup`. `OwnedObjects` goes
  through the objects in the order of `Steps`, which is the order of the calls in
  `Reconcile`; `PipelineConfig` has the two syncs as steps of a job. A job is an
  admission or a reconcile; the two differ in what becomes of an error
  (`AfterSync`).
* In `ServerTLS` a behaviour is about one manager. `Resolve` is the start of
  notebook-controller, `FetchProfile` and `FetchAdherence` that of
  odh-notebook-controller; `ReconcileProfile` is the watcher of the first.
  The second one's is a library's and is modelled from its use.
* `Sync...` actions are informers: the cache catches up and the key is queued.
* `...Crash`, `OdhProfileReload` end a process; its queue is refilled by the list
  an informer starts with.
* Faults are nondeterministic: each call that can fail may do so (`CallFails`,
  `UpFail`, `OdhFail`, `HookFails`). Errors that the code swallows are swallowed
  in the model (`ReadSource`, `ReadBundle`, `CheckBundle`).
* A `RetryOnConflict` block is a loop through the same step.

Abstractions, with the reason they are safe for the properties:

* a pod template is a version of what users write and two of what the webhook
  injects: the TLS flags, and the mount of the CA bundle with its variables (none,
  or the order in which they were appended, since the webhook ranges over a Go
  map); equality of templates is all the code asks of them;
* of the CA bundle `NotebookLifecycle` has whether a reader finds it (`bundle`): it
  exists or can be made from its source, and the call succeeds. A change of that is
  one of the counted faults; what is in the bundle is the subject of
  `TrustedCABundle`;
* the objects odh-notebook-controller provides are one Boolean in
  `NotebookLifecycle`; they are taken apart in the other modules;
* `resourceVersion` is a counter in `NotebookLifecycle`; elsewhere a Boolean says
  whether the cached Notebook is the stored version;
* times in `Culling` are ages, capped where no comparison can tell them apart;
* in `TrustedCABundle` a file is missing, blank, no certificate, or a
  certificate. An event of a ConfigMap is delivered at once, because the cached
  list it is matched with is then as old as it can be (`SyncNotebook` may come
  arbitrarily late). Two concurrent writes of the same Notebook are admitted
  one after the other. White space does not make two bundles different;
* in `NotebookLifecycle` the failures of the objects it provides are the failing of
  the preparation step;
* in `OwnedObjects` an object is absent, or has an owner (none, a UID of this
  name, something else) and the desired content or not. A read of a cache and the
  write that follows are one step, since a change in between looks like a cache
  that lags. The ConfigMap is read from the API server, so its read and write are
  two steps. The garbage collector looks at an owner and deletes in two steps for
  the kinds whose owner may change in between;
* in `PipelineConfig` the ImageStreams are one value in order or with a defect, a
  DSPA is complete, incomplete or gone, and of the Elyra configuration the host
  name is told apart: syncs compare data for equality only. Sources are read
  without cache: an older copy looks like a source that changed later;
* in `ServerTLS` cipher suites are four classes, by which both implementations
  distinguish them: usable with TLS 1.2 and in the Intermediate profile, only in
  the Old one, TLS 1.3, unusable. The tables by which the two managers know suites
  by name (`notebook-controller/pkg/tls/tls.go:43`, and a library's in
  `odh-notebook-controller/main.go:280`) are assumed to put a name into the same
  class: `ManagersAgree` compares the control flow around them.

Histories that properties leave out, and why: `unmounted` in `NotebookLifecycle`
(`UnsetNotebookCertConfig` has taken the mount of the CA bundle out); in
`OdhCleanup` `switched` and `tampered`, `missed` (the last clean-up of the name took
the route's finalizer off without having listed the route) and `overlooked` (the
last reconcile of an active Notebook took the cached copy of a deleted grant for the
grant); `strays` in `OwnedObjects` (objects that lost or never had an owner
reference and that the code does not adopt: their events reach nobody), `lost` in
`PipelineConfig` (an object that was deleted or a call that failed while the
admission ran), `outcome = "absent"` in `ServerTLS` (a process that found no
APIServer object has no watcher). `missed` and `overlooked` are taken back when a
later clean-up finds the route, or a later reconcile the loss of the grant. Section
5 lists what happens in those cases.

## 3. Runs

Bounds are named constants; they limit what users, administrators and faults do,
never what the controllers do.

| run | instance | shows |
|---|---|---|
| `LifecycleSafety` | 2 acts of the user, 1 fault | `PodOnlyAfterPreparation`, `UntouchedPodKeepsRunning`, `RunningTemplateHeld`, `StopSticks` |
| `LifecycleLive` | 1 act, 1 fault | `EventuallySettled`; `ImplementsWorkbench`: the system refines `Workbench` |
| `LifecycleStop` | violation | a stop is lost with the lock |
| `CullingSafety` | idle time 2, check period 1 | `ActivityNeverGoesBack`, `CulledOnlyIfIdle`, `CullerKeepsStops` |
| `CullingLive` | idle time 1, check period 1 | `IdleNotebookCulled`, `StoppedNotebookForgotten` |
| `CleanupSafety` | 2 Notebooks, one with an OAuthClient, 3 events, all caches lag | `RouteHasOwner`, `BindingHasOwner`, `ClientHasOwner`, `RouteHasGrant` |
| `CleanupLive` | 2 Notebooks, 3 events, all caches lag | `EventuallyRouted`, `GrantRestored` |
| `TrustedCABundle` | 2 Notebooks, 3 events | `StartedWithBundle`, `BundleCurrent`, `NoDanglingMount` |
| `OwnedSafety` | 1 policy, RoleBinding, account, ConfigMap; 2 incarnations, 2 events | `OneIncarnation`, `UnlockedBehindPolicies`, `ForeignPolicyUntouched` |
| `OwnedLive` | 2 policies, MLflow's binding; 2 incarnations, 2 events | `EventuallyProvided`, `NothingOutlives` |
| `PipelineConfig` | 2 Notebooks, 2 DSPAs, 1 event | `AdmittedWithMounts`, `EventuallyUpToDate`, `SecretGoesWithDSPA` |
| `ServerTLS` | 8 profiles, 2 policies, 3 events, both managers | `ManagersAgree`, `NoSilentSubstitution`, `NoNeedlessRestart`, `EventuallyCurrent` |

Why these bounds are enough for the cases of interest: two acts of the user give
every ordered pair of stop, start, restart and edit around each of the controllers'
steps, and a fault falls between any two of them. The one fault may be that the CA
bundle, there at first, is not found any more; that it is mounted again in another
order takes a second one, so the runs have one order, the proofs any number. Two
Notebooks are the fewest for which "the last one" and "one of them" mean something.
In `Culling` nothing is counted: the ages are capped, the state space is finite,
users and the server act without bound, and idle times of 1 and 2 periods separate
"at once" from "after a check in between". Three events in `OdhCleanup` are two
creations and a deletion, failure, switch or configuration change; one of the
Notebooks of `CleanupSafety` is there from the start, which leaves two of them:
enough for a route that is created and missed, and for the grant of the last
Notebook to be deleted while another one is created. Caches of Notebooks, routes,
bindings and the grant lag without bound in all runs. `CleanupLive` was also run to
its end with a Notebook that is there from the start (2.5 million states, 12
minutes, and so not among the runs): there a lost grant may queue a Notebook that is
gone but still cached, the case that `GrantRestored` leaves out. Three events in
`TrustedCABundle` are two creations and a failure, or a creation, the removal of the
source and the removal of the bundle. In `OwnedObjects` creations are bounded by
`MaxUID` alone, so that the two events are, for example, the deletion of the first
Notebook and something planted, edited or removed under the second, a failing call
or a crash; two policies are the fewest of which one can fail and another still be
due. In `PipelineConfig` first requests, deployments and removals of DSPAs are not
counted (two of the latter, by `MaxUID`), so the one event is an edit of a source, a
failing call, a second admission or an interference on top of them; the two
admissions and the reconcile are three writers at a time. In `ServerTLS` three
events are a change before, one between the two reads or before the watch starts,
and a failure; the starts and the recoveries of the API are not counted.
`ManagersAgree` is evaluated for every version, set of classes and policy, not only
for those of the eight profiles. `LifecycleSafety` uses a view that forgets what
no later step or property reads: the numbers of versions (only whether a copy is the
stored version matters), the parts of stale copies their reader does not use, and
histories that something else has already decided for ever (`MCNotebookLifecycle`
gives the argument); no run uses symmetry. Deadlock checking is off where the system may come
to rest once the bounds are used up.

The violation is a disagreement between the code and what a comment of the
repository says of it; the finding in `PROJECT.json` quotes both.

**Fairness.** Weak fairness of the informers (watches deliver), of the work queues
(client-go workers take what is queued, errors are requeued), and of Kubernetes'
StatefulSet controller. In `Culling` time passes. In `OdhCleanup` each queued
Notebook is served in the end (strong fairness of `Start(n)`): the work queue is
first in, first out, and the set in the model is not. In `OwnedObjects` the garbage
collector goes round. In `PipelineConfig` a namespace with a Notebook is reconciled
again and again, at the latest by the informers' periodic resync (neither
ImageStreams nor DSPAs are watched), and calls return. In `ServerTLS` a process that
has ended is started again by Kubernetes; that the API recovers is not assumed
(`EventuallyCurrent` speaks of behaviours in which it does). Nothing is assumed of
users, administrators, the notebook's server, or failures; crashes are bounded or,
in `CullingLive`, left out.

## 4. Proofs

Every invariant and every action property that a passing run checks is also a
theorem, for every value of the constants that the named assumptions of the modules
allow, and so is the refinement of `Workbench`.

| module | theorems | property |
|---|---|---|
| `NotebookLifecycleProofs` | `TypeCorrect` | `TypeOK` |
| | `LockProtectsPreparation` | `PodOnlyAfterPreparation` |
| | `StopsStick` | `StopSticks` |
| | `RunningTemplateIsHeld` | `RunningTemplateHeld` |
| `WorkbenchProofs` | `UntouchedKeepsRunning` | `UntouchedPodKeepsRunning` |
| | `Refinement` | `ImplementsWorkbench` |
| `OdhCleanupProofs` | `TypeTheorem`, `ClientTheorem`, `BindingTheorem` | `TypeOK`, `ClientHasOwner`, `BindingHasOwner` |
| | `RouteTheorem`, `GrantTheorem` | `RouteHasOwner`, `RouteHasGrant` |
| `OwnedObjectsProofs` | `TypeTheorem`, `IncarnationTheorem` | `TypeOK`, `OneIncarnation` |
| | `PoliciesTheorem`, `ForeignPolicyTheorem` | `UnlockedBehindPolicies`, `ForeignPolicyUntouched` |
| `TrustedCABundleProofs` | `TypeTheorem`, `BundleTheorem` | `TypeOK`, `StartedWithBundle` |
| `PipelineConfigProofs` | `TypeTheorem`, `MountsTheorem` | `TypeOK`, `AdmittedWithMounts` |
| `CullingProofs` | `TypeTheorem`, `ActivityTheorem` | `TypeOK`, `ActivityNeverGoesBack` |
| | `StopTheorem`, `IdleTheorem` | `CullerKeepsStops`, `CulledOnlyIfIdle` |
| `ServerTLSProofs` | `TypeTheorem`, `AgreementTheorem` | `TypeOK`, `ManagersAgree` |
| | `SubstitutionTheorem`, `RestartTheorem` | `NoSilentSubstitution`, `NoNeedlessRestart` |

**Assumptions.** Bounds are naturals and say nothing else; sets of Notebooks,
configurations, images and certificates are not empty. Beyond that:
`Cfgs` of `NotebookLifecycle` are naturals with 0 among them and its `Orders` positive
naturals, at least one; the idle time and the check period are positive; `MaxUID` of
`PipelineConfig` is positive because a DSPA is there from the start; names of
policies are not those of other objects, images and certificates not the values
that stand for "none" or a defect; profiles have the fields of the API's type. TLC
evaluates all of them in the runs.

**The arguments.** None of the invariants is inductive by itself. What has to be
added says in each module why stale copies do no harm.

* *Lifecycle.* `PodOnlyAfterPreparation` says nothing of how a pod comes up. `Inv`
  follows the permission to run back to where it is given. A pod comes from a
  StatefulSet with one replica, this one from a Notebook that notebook-controller
  held in its reconcile, that one from its cache, and the cache from the API
  server: none of them is `Cleared` of the stop annotation unless the preparation
  is complete or the user overrode the lock (`PreparationInv`). The controller that
  removes the lock is past the preparation, and prepares only with finalizers on
  (`FinalizersInv`). Old copies are older versions of the same object, and equal
  versions are equal (`CacheInv`), which is what makes an Update with a matching
  resourceVersion change only what it means to. There is a lemma per action or per
  group of actions that write the Notebook in the same way; `WrittenFields` says
  what admission and storage keep of any write and is used by all of them;
  `PutTemplate` and `UnsetFields` say it of the template, for any order in which the
  webhook appends, and of the patch that takes the CA bundle's mount out. The two
  action properties follow by one case per action (`StopSteps`, `TemplateSteps`).
* *Refinement.* The mapping forgets versions, caches and processes. One lemma per
  kind of step shows it to be a step of `Workbench` or a stutter (`CreateStep`,
  `UserStep`, `PodStep`, `ProvideStep`, `ReleaseStep`, `SettleStep`). The difficult
  one is `PodStep`: `Workbench` takes the pod of a workbench down only when its user
  has acted or the mount has been taken out (`Unmount`, to which
  `UnsetNotebookCertConfig` maps; `UnmountStep`). That needs `Steady`: until then a
  cleared copy in the cache or in a running reconcile has the stored template, a
  StatefulSet with a replica has the template of that copy, and the pod that of the
  StatefulSet.
* *Clean-up and owned objects.* The argument is about incarnations. A Notebook
  that is deleted keeps its finalizers until the worker takes them off, and it does
  so by an Update from a copy that must be the stored version. Hence a copy with
  finalizers and a stored, active Notebook with finalizers are the same one
  (`CacheInv` in `OdhCleanupProofs`, `NotebookInv` in `OwnedObjectsProofs`), and
  what a running reconcile has seen is still true of what is stored (`ProvidingInv`,
  `CleaningInv`; `OneIncarnation`). A finalizer is marked for removal only when what
  it stands for is gone (`RemovalInv`). The loop over the policies goes on after an
  error, so that `LoopInv` has to say which of them are known to be right, and
  `PolicyInv` that a copy was stored once.
* *Routes and the grant.* Every cache lags in all theorems. OAuthClients, bindings and
  the grant are deleted by name, routes as they are listed, from a cache
  (`odh/notebook_route.go:320`): the finalizer comes off a route only if that list had
  it, or the name is among the `missed`. A grant is there when a route is about to be
  written, or the last reconcile took the cached copy of a deleted one for it
  (`overlooked`, `odh/notebook_referencegrant.go:89`); it stays there, because the copy
  of an active Notebook that has a route of its own is active, so that no other
  Notebook is the last (`DelGrantInv`).
* *CA bundle.* `StartedWithBundle` rests on two links. A Notebook loses the lock only
  in a reconcile that has seen its finalizers, and those it has seen are still on it
  (`FinalizerInv`); whatever has finalizers, or is not locked any more, has been
  written at a time when the webhook found a bundle, and so has the mount
  (`MountInv`).
* *Pipeline configuration.* For any number of admissions: what an admission wants is
  there when it mounts it, since it found it, wrote it, or lost the write to another
  sync (`MapFits`, `SecretFits`); and no sync ever writes what cannot be mounted
  (`Shape`).
* *Culling.* The functions a check is composed of only move last-activity to a more
  recent time and never past what the server reported (`UpdateTimestampFacts`,
  `CheckedFacts`); they are applied to the stored Notebook, because an Update from an
  old version is refused. The times are capped above both limits
  (`CapFacts`), so the cap hides no comparison.
* *Servers.* `ManagersAgree` is a fact about two functions. For the other two,
  `MemoryInv` says that all the process and its watcher remember are states the
  object has had since the start.

TLC has checked each inductive invariant on an instance of a run of its module. The
proofs corrected the models in one respect: removing or adding
finalizers updates the Notebook only if there is something to change
(`odh/notebook_controller.go:321`, `:390`), which `OwnedObjects` and `TrustedCABundle`
did not have.

**Only model-checked**: the liveness properties `EventuallySettled`,
`IdleNotebookCulled`, `StoppedNotebookForgotten`, `EventuallyRouted`, `GrantRestored`,
`BundleCurrent`, `NoDanglingMount`, `EventuallyProvided`, `NothingOutlives`,
`EventuallyUpToDate`, `SecretGoesWithDSPA` and `EventuallyCurrent`, since TLAPS
handles neither fairness nor `ENABLED`. For the same reason `Refinement` is about the
safety part: `Workbench` states no fairness.

## 5. Known behaviour outside the properties

The models contain the following as the code has it; the properties above hold
besides it, or leave it out by name.

* One restart request takes two pods down when the update that clears the
  annotation meets a conflict (`nbc/notebook_controller.go:279`): `UpRestart`,
  `UpClearRestart`.
* A notebook that is stopped and started again before a reconcile of the stopped
  one keeps the annotations of its previous run and may be culled by them
  (`nbc/culling_controller.go:142`).
* A Notebook whose `inject-auth` is switched off right before its deletion leaves
  its ClusterRoleBinding behind (`odh/notebook_controller.go:287`): `switched`.
* A route that was created just before its Notebook is deleted may be missing from
  the cached list by which routes are deleted, and is then left behind
  (`odh/notebook_route.go:320`): `missed`.
* A Notebook that is created just after the clean-up of the last one of its namespace
  may find the deleted grant in the cache, and has a route without a grant until the
  event of the deletion (`odh/notebook_referencegrant.go:89`): `overlooked`.
* A grant that somebody deletes is restored by the first Notebook of the list; if
  that one is being deleted, or is gone but still cached, nobody restores it
  (`odh/notebook_controller.go:838`).
* When the CA bundle of a namespace is gone, or one Get of it fails
  (`odh/notebook_controller.go:677`), `UnsetNotebookCertConfig` takes its mount out of
  running Notebooks too. The webhook takes the patch for a user's change of the
  template and lets it pass, and the pod restarts. The patch carries the cached lists of
  containers and volumes and no resourceVersion, so that an edit the cache has not seen
  is undone (`odh/notebook_controller.go:762`): `unmounted`.
* The pipelines' RoleBinding is repaired by an update without owner references
  and then outlives its Notebook, against the comment at
  `odh/notebook_rbac.go:113-114`: `strays`. Its Role is not watched.
* A ServiceAccount, Service or ConfigMap that somebody else made is used as it is,
  and its deletion is not noticed (`odh/notebook_kube_rbac_auth.go:75`): `strays`.
* Without the annotation MLflow's binding is deleted by its name, whoever made it
  (`odh/notebook_mlflow.go:203`). The validating webhook looks at the stop
  annotation of the new object only, so that one update may stop a Notebook and
  remove the annotation while the pod still runs.
* Without ImageStreams that are in order the ConfigMap of runtime images keeps its
  last data (`odh/notebook_runtime.go:109`).
* A manager that found no APIServer object when it started does not notice one
  later; odh-notebook-controller keeps its settings when a Custom profile loses
  its block.
* ClusterRoleBindings that somebody deletes are restored with the next reconcile
  only; an ingress configuration that cannot be parsed removes the routes of all
  Notebooks (`odh/notebook_route.go:152`); the webhook's reason in
  `update-pending` may stay when the flags match again
  (`odh/kube_rbac_proxy_tls.go:410`).

## 6. Not modelled

* Service, VirtualService, re-emitted events and long names of
  notebook-controller. A StatefulSet of a long name is created with
  `GenerateName` and found again in a cache that may lag; modelling it needs more
  than one StatefulSet per Notebook.
* Feast, probe timeouts, MLflow's environment variables, the image taken from an
  ImageStream, proxy variables, the validating webhook, the validation of pod
  specs: functions of one object without state between calls. Their effect on the
  template is the injected version of `NotebookAdmission`.
* Parsing of ingress configurations and certificates beyond valid or not, the
  translation of TLS profiles into flags of kube-rbac-proxy, formatting of keys and
  JSON in `odh/notebook_runtime.go` and `odh/notebook_dspa_secret.go`.
* `notebook-controller/pkg/culler` (an older copy of the culler of which constants
  are used), metrics, flags, API types, manifests, tests.
* Leader election: each manager is one process at a time.

## 7. Plan

1. `NotebookAdmission`, `NotebookLifecycle`, `Workbench`, `Culling`,
   `OdhCleanup`, `TrustedCABundle`, then `OwnedObjects`, `PipelineConfig`,
   `ServerTLS` - done - in the order of what users notice first: starting,
   stopping, culling, reaching and trusting, then what notebooks are given.
2. Properties: routes kept or deleted under an invalid configuration; route names
   across namespaces.
3. Theorems: all invariants and action properties of the runs and the refinement -
   done. Left: that a missed route was created in the reconcile before the deletion,
   and that `TrustedCABundle` changes Notebooks as `NotebookLifecycle` says they
   change.

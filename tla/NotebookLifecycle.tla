--------------------------- MODULE NotebookLifecycle ---------------------------
(***************************************************************************)
(* The life of one Notebook between its user, the admission webhook,       *)
(* odh-notebook-controller (the reconciliation lock, finalizers, the mount *)
(* of the CA bundle, TLS flags) and notebook-controller (StatefulSet,      *)
(* status, restart), from creation on.  Deletion is the subject of         *)
(* OdhCleanup, the contents of the CA bundle that of TrustedCABundle.      *)
(*                                                                         *)
(* Each controller reads the API server through an informer cache that     *)
(* may lag (upC, stsC; odhC) and is started by its work queue (upQ,        *)
(* odhQ).  A reconcile is split at every call to the API server, so steps  *)
(* of the user, of the other controller and of Kubernetes fall between     *)
(* them.  An Update carries the resourceVersion of the object it was made  *)
(* from and fails on a newer one; a merge Patch carries none.              *)
(***************************************************************************)
EXTENDS NotebookAdmission, Integers

CONSTANTS
    Auth,       \* the notebook asks for kube-rbac-proxy (inject-auth)
    Cfgs,       \* versions of the TLS profile the webhook injects
    Orders,     \* orders in which the webhook appends the variables of the
                \* CA bundle (it ranges over a Go map)
    MaxActs,    \* bound on the patches of users
    MaxFaults   \* bound on configuration changes, crashes, failed calls and
                \* status changes

ASSUME AuthAssumption == Auth \in BOOLEAN
ASSUME CfgsAssumption == Cfgs \subseteq Nat /\ 0 \in Cfgs
ASSUME OrdersAssumption == Orders \subseteq Nat \ {0} /\ Orders # {}
ASSUME BoundsAssumption == MaxActs \in Nat /\ MaxFaults \in Nat

VARIABLES
    nb,         \* the stored Notebook
    sts,        \* the stored StatefulSet
    pod,        \* the pod <name>-0
    prepared,   \* the objects odh-notebook-controller provides all exist
    cfg,        \* the TLS profile the webhook injects
    bundle,     \* a reader of the CA bundle finds it (it exists, or can be
                \* made from its source, and its Get succeeds)
    upC, stsC,  \* informer caches of notebook-controller
    upQ, up,          \* its work queue and its running reconcile
    odhC,             \* informer cache of odh-notebook-controller
    odhQ, odh,        \* its work queue and its running reconcile
    bootCfg,    \* the TLS profile odh-notebook-controller started with
    acts,       \* patches of users so far
    faults,     \* configuration changes, crashes, failures, status changes
    overridden, \* history: the user started it before it was prepared
    unmounted   \* history: the mount of the CA bundle has been taken out

world   == <<nb, sts, pod, prepared, cfg, bundle>>
upVars  == <<upC, stsC, upQ, up>>
odhVars == <<odhC, odhQ, odh, bootCfg>>
bounds  == <<acts, faults>>
history == <<overridden, unmounted>>
vars    == <<world, upVars, odhVars, bounds, history>>

NoNotebook == [rv |-> 0, stop |-> NoStop, restart |-> FALSE, user |-> 0,
               inj |-> [tls |-> 0, ca |-> 0], pending |-> "none",
               fin |-> FALSE]
NoSts == [rv |-> 0, replicas |-> 0, tmpl |-> Template(NoNotebook)]
NoPod == [up |-> FALSE, tmpl |-> Template(NoNotebook)]

\* A stored object has a positive resourceVersion.
Exists(object) == object.rv > 0

StatefulSets == [rv: Nat, replicas: {0, 1}, tmpl: Templates]
Pods == [up: BOOLEAN, tmpl: Templates]

Idle(q) == q.pc = "idle"
UpIdle  == [pc |-> "idle", inst |-> NoNotebook]
OdhIdle == [pc |-> "idle", locked |-> FALSE]
UpPcs  == {"idle", "statefulset", "status", "restart", "clear"}
OdhPcs == {"idle", "finalizers", "prepare", "provide", "tls", "unlock"}

TypeOK ==
    /\ nb \in Notebooks
    /\ sts \in StatefulSets
    /\ pod \in Pods
    /\ prepared \in BOOLEAN
    /\ cfg \in Cfgs /\ bundle \in BOOLEAN
    /\ upC \in Notebooks
    /\ stsC \in StatefulSets
    /\ upQ \in BOOLEAN
    /\ up \in [pc: UpPcs, inst: Notebooks]
    /\ odhC \in Notebooks
    /\ odhQ \in BOOLEAN
    /\ odh \in [pc: OdhPcs, locked: BOOLEAN]
    /\ bootCfg \in Cfgs
    /\ acts \in 0..MaxActs
    /\ faults \in 0..MaxFaults
    /\ overridden \in BOOLEAN
    /\ unmounted \in BOOLEAN

Init ==
    /\ nb = NoNotebook /\ sts = NoSts /\ pod = NoPod
    /\ prepared = FALSE /\ cfg = 0 /\ bundle \in BOOLEAN
    /\ upC = NoNotebook /\ stsC = NoSts
    /\ upQ = FALSE /\ up = UpIdle
    /\ odhC = NoNotebook /\ odhQ = FALSE /\ odh = OdhIdle
    /\ bootCfg = 0
    /\ acts = 0 /\ faults = 0
    /\ overridden = FALSE /\ unmounted = FALSE

\* One step of the budget for faults.
Spend == faults < MaxFaults /\ faults' = faults + 1 /\ UNCHANGED acts

\* What the webhook may inject into the Notebook new: the TLS flags of the
\* profile; the mount it has or, if it has none and the bundle is found, a new
\* one with its variables in some order (CheckAndMountCACertBundle).
Injections(new) ==
    {[tls |-> cfg, ca |-> order] : order \in IF new.inj.ca # 0 THEN {new.inj.ca}
                                             ELSE IF bundle THEN Orders ELSE {0}}

\* The stored Notebook is replaced by new, through admission.
Put(new) == \E c \in Injections(new) : nb' = Written(nb, new, c)

--------------------------------------------------------------------------------
(* The user (dashboard, kubectl, or the culler's stop: see Culling).       *)

CreateNotebook ==
    /\ ~Exists(nb)
    /\ \E c \in Injections(NoNotebook) :
          nb' = [HandleCreate(NoNotebook, c) EXCEPT !.rv = 1]
    /\ UNCHANGED <<sts, pod, prepared, cfg, bundle, upVars, odhVars, bounds, history>>

\* A user's patch that makes the stored Notebook look like new.
UserPatch(new) ==
    /\ Exists(nb)
    /\ acts < MaxActs
    /\ acts' = acts + 1
    /\ Put(new)
    /\ UNCHANGED <<sts, pod, prepared, cfg, bundle, upVars, odhVars, faults, unmounted>>

UserStop ==
    /\ nb.stop # Stopped
    /\ UserPatch([nb EXCEPT !.stop = Stopped])
    /\ UNCHANGED overridden

UserStart ==
    /\ nb.stop # NoStop
    /\ UserPatch([nb EXCEPT !.stop = NoStop])
    /\ overridden' = (overridden \/ ~prepared)

UserRestart ==
    /\ ~nb.restart
    /\ UserPatch([nb EXCEPT !.restart = TRUE])
    /\ UNCHANGED overridden

UserEdit ==
    /\ UserPatch([nb EXCEPT !.user = @ + 1])
    /\ UNCHANGED overridden

\* An administrator changes what the webhook injects (the TLS profile).
ChangeCfg ==
    /\ Spend
    /\ \E c \in Cfgs \ {cfg} : cfg' = c
    /\ UNCHANGED <<nb, sts, pod, prepared, bundle, upVars, odhVars, history>>

\* The CA bundle and its source are created or deleted, or the reads of them
\* begin or cease to fail.
ChangeBundle ==
    /\ Spend
    /\ bundle' = ~bundle
    /\ UNCHANGED <<nb, sts, pod, prepared, cfg, upVars, odhVars, history>>

--------------------------------------------------------------------------------
(* Kubernetes: informers, the StatefulSet controller, requeues.            *)

SyncUp ==
    /\ upC # nb
    /\ upC' = nb /\ upQ' = TRUE
    /\ UNCHANGED <<world, stsC, up, odhVars, bounds, history>>

SyncSts ==
    /\ stsC # sts
    /\ stsC' = sts /\ upQ' = TRUE
    /\ UNCHANGED <<world, upC, up, odhVars, bounds, history>>

SyncOdh ==
    /\ odhC # nb
    /\ odhC' = nb /\ odhQ' = TRUE
    /\ UNCHANGED <<world, upVars, odh, bootCfg, bounds, history>>

\* The StatefulSet controller: create the pod, or delete one that should not
\* run or runs an old template (RollingUpdate).  Pod events are mapped to a
\* request for the notebook.
StsController ==
    /\ \/ /\ sts.replicas = 1 /\ ~pod.up
          /\ pod' = [up |-> TRUE, tmpl |-> sts.tmpl]
       \/ /\ pod.up
          /\ sts.replicas = 0 \/ pod.tmpl # sts.tmpl
          /\ pod' = NoPod
    /\ upQ' = TRUE
    /\ UNCHANGED <<nb, sts, prepared, cfg, bundle, upC, stsC, up, odhVars, bounds, history>>

--------------------------------------------------------------------------------
(* notebook-controller: NotebookReconciler.Reconcile.                      *)

\* Return an error (or requeue): the key goes back into the work queue.
UpFail == up' = UpIdle /\ upQ' = TRUE

\* After the StatefulSet, only the version of the Notebook in hand matters: a
\* write that is accepted is one of the stored object.
VersionOf(n) == [NoNotebook EXCEPT !.rv = n.rv]

\* Reconcile reads the Notebook from the cache.
UpStart ==
    /\ Idle(up) /\ upQ /\ Exists(upC)
    /\ up' = [pc |-> "statefulset", inst |-> upC]
    /\ upQ' = FALSE
    /\ UNCHANGED <<world, upC, stsC, odhVars, bounds, history>>

\* Fault: a stopped notebook is given a replica.
FaultAlwaysRun(n) == [replicas |-> 1, tmpl |-> Template(n)]

\* generateStatefulSet: no replica while the stop annotation is present.
generateStatefulSet(n) ==
    [replicas |-> IF n.stop # NoStop THEN 0 ELSE 1, tmpl |-> Template(n)]

\* Fault: the copy does not report a changed number of replicas.
FaultCopyIgnoresReplicas(from, to) == from.tmpl # to.tmpl

\* CopyStatefulSetFields, on the two fields kept: is there anything to write?
CopyStatefulSetFields(from, to) ==
    from.replicas # to.replicas \/ from.tmpl # to.tmpl

\* The list of StatefulSets comes from the cache: create, update or leave.
UpStatefulSet ==
    /\ up.pc = "statefulset"
    /\ LET ss   == generateStatefulSet(up.inst)
           next == /\ up' = [pc |-> "status", inst |-> VersionOf(up.inst)]
                   /\ UNCHANGED upQ
       IN \/ /\ ~Exists(stsC) /\ ~Exists(sts)
             /\ sts' = [rv |-> 1, replicas |-> ss.replicas, tmpl |-> ss.tmpl]
             /\ next
          \/ /\ ~Exists(stsC) /\ Exists(sts)             \* AlreadyExists
             /\ UNCHANGED sts /\ UpFail
          \/ /\ Exists(stsC) /\ ~CopyStatefulSetFields(ss, stsC)
             /\ UNCHANGED sts /\ next
          \/ /\ Exists(stsC) /\ CopyStatefulSetFields(ss, stsC)
             /\ stsC.rv = sts.rv
             /\ sts' = [rv |-> sts.rv + 1, replicas |-> ss.replicas,
                        tmpl |-> ss.tmpl]
             /\ next
          \/ /\ Exists(stsC) /\ CopyStatefulSetFields(ss, stsC)
             /\ stsC.rv # sts.rv                          \* Conflict
             /\ UNCHANGED sts /\ UpFail
    /\ UNCHANGED <<nb, pod, prepared, cfg, bundle, upC, stsC, odhVars,
                   bounds, history>>

\* updateNotebookStatus, then the test of the restart annotation.  The write
\* changes the stored object when the pod's state or, while a pod is seen, the
\* probe times set to Now() have moved on since the last one.
UpStatus ==
    /\ up.pc = "status"
    /\ \/ /\ up.inst.rv # nb.rv                            \* Conflict
          /\ UpFail
          /\ UNCHANGED <<nb, bounds>>
       \/ /\ up.inst.rv = nb.rv
          /\ \/ UNCHANGED <<nb, bounds>>
             \/ Spend /\ nb' = [nb EXCEPT !.rv = @ + 1]
          /\ up' = IF nb'.restart
                   THEN [pc |-> "restart", inst |-> VersionOf(nb')]
                   ELSE UpIdle
          /\ UNCHANGED upQ
    /\ UNCHANGED <<sts, pod, prepared, cfg, bundle, upC, stsC, odhVars, history>>

\* Get the pod (cache) and delete it by name (API server).  Without a pod, or
\* with one the cache has not seen, the reconcile ends with an error.
UpRestart ==
    /\ up.pc = "restart"
    /\ \/ /\ pod.up
          /\ pod' = NoPod
          /\ up' = [up EXCEPT !.pc = "clear"]
          /\ upQ' = TRUE
          /\ UNCHANGED bounds
       \/ /\ ~pod.up
          /\ UpFail
          /\ UNCHANGED <<pod, bounds>>
       \/ /\ pod.up /\ Spend
          /\ UpFail
          /\ UNCHANGED pod
    /\ UNCHANGED <<nb, sts, prepared, cfg, bundle, upC, stsC, odhVars, history>>

\* Fault: the annotation is cleared with a blind write of the cached object.
FaultClearBlind ==
    /\ up.pc = "clear"
    /\ \E c \in Injections(upC) :
          nb' = [Written(nb, [upC EXCEPT !.restart = FALSE], c)
                    EXCEPT !.rv = nb.rv + 1]
    /\ up' = UpIdle
    /\ UNCHANGED <<upQ, sts, pod, prepared, cfg, bundle, upC, stsC,
                   odhVars, bounds, history>>

\* Update the Notebook without the restart annotation.
UpClearRestart ==
    /\ up.pc = "clear"
    /\ \/ /\ up.inst.rv = nb.rv
          /\ Put([nb EXCEPT !.restart = FALSE])
          /\ up' = UpIdle /\ UNCHANGED upQ
       \/ /\ up.inst.rv # nb.rv                            \* Conflict
          /\ UpFail /\ UNCHANGED nb
    /\ UNCHANGED <<sts, pod, prepared, cfg, bundle, upC, stsC, odhVars,
                   bounds, history>>

\* The process dies and starts again: caches are listed anew.
UpCrash ==
    /\ Spend
    /\ up' = UpIdle
    /\ upC' = nb /\ stsC' = sts
    /\ upQ' = Exists(nb)
    /\ UNCHANGED <<world, odhVars, history>>

--------------------------------------------------------------------------------
(* odh-notebook-controller: OpenshiftNotebookReconciler.Reconcile.         *)

OdhFail == odh' = OdhIdle /\ odhQ' = TRUE

\* Reconcile reads the Notebook from the cache.  Of what it read, whether it
\* was locked is kept; UnsetNotebookCertConfig takes the rest from odhC, since
\* a cache that catches up before it could as well have done so after it.
OdhStart ==
    /\ Idle(odh) /\ odhQ /\ Exists(odhC)
    /\ odh' = [pc |-> IF odhC.fin THEN "prepare" ELSE "finalizers",
               locked |-> ReconciliationLockIsEnabled(odhC)]
    /\ odhQ' = FALSE
    /\ UNCHANGED <<world, upVars, odhC, bootCfg, bounds, history>>

\* Add the finalizers to a re-read Notebook; success, an exhausted retry and
\* a Notebook that has them by now all put the key back into the queue.
OdhAddFinalizers ==
    /\ odh.pc = "finalizers"
    /\ IF ~odhC.fin /\ odhC.rv = nb.rv
       THEN Put([nb EXCEPT !.fin = TRUE]) ELSE UNCHANGED nb
    /\ OdhFail
    /\ UNCHANGED <<sts, pod, prepared, cfg, bundle, upVars, odhC, bootCfg, bounds,
                   history>>

\* IsConfigMapDeleted: the Get of the CA bundle does not return it (there is
\* none, or the call fails), and the Notebook that was read mounts it.
IsConfigMapDeleted(n) == ~bundle /\ n.inj.ca # 0

\* UnsetNotebookCertConfig takes the mount out, of a running Notebook too: the
\* merge patch replaces the containers and the volumes of the stored template
\* by those of the copy in hand, whatever has been written since.
UnsetNotebookCertConfig ==
    /\ odh.pc = "prepare"
    /\ IsConfigMapDeleted(odhC)
    /\ Put([nb EXCEPT !.user = odhC.user, !.inj = [odhC.inj EXCEPT !.ca = 0]])
    /\ odh' = [odh EXCEPT !.pc = "provide"]
    /\ unmounted' = TRUE
    /\ UNCHANGED <<sts, pod, prepared, cfg, bundle, upVars, odhC, odhQ, bootCfg,
                   bounds, overridden>>

\* Everything else between the finalizers and the lock, which OdhCleanup,
\* OwnedObjects, TrustedCABundle and PipelineConfig describe: it succeeds, or
\* some call fails.
OdhPrepare ==
    /\ odh.pc \in {"prepare", "provide"}
    /\ \/ /\ odh.pc = "prepare" => ~IsConfigMapDeleted(odhC)
          /\ prepared' = TRUE
          /\ odh' = [odh EXCEPT !.pc = IF Auth THEN "tls" ELSE "unlock"]
          /\ UNCHANGED <<odhQ, bounds>>
       \/ Spend /\ OdhFail /\ UNCHANGED prepared
    /\ UNCHANGED <<nb, sts, pod, cfg, bundle, upVars, odhC, bootCfg, history>>

\* Fault: a running notebook is not spared.
FaultNeverDefers(n) == FALSE

\* notebookDefersPodTemplateChange: neither stopped nor restarting.
notebookDefersPodTemplateChange(n) == n.stop = NoStop /\ ~n.restart

\* deferRunningNotebookTLS: what to write for a running notebook.
deferRunningNotebookTLS(current, argsMatch) ==
    IF argsMatch /\ current.pending = "tls"
    THEN [current EXCEPT !.pending = "none"]
    ELSE IF argsMatch \/ current.pending # "none" THEN current
    ELSE [current EXCEPT !.pending = "tls"]

\* reconcileKubeRbacProxyTLS: the Notebook it wants stored (current itself
\* when it writes nothing).
reconcileKubeRbacProxyTLS(current) ==
    IF notebookDefersPodTemplateChange(current)
    THEN deferRunningNotebookTLS(current, current.inj.tls = cfg)
    ELSE [current EXCEPT !.inj.tls = cfg,
                         !.pending = IF @ = "tls" THEN "none" ELSE @]

\* One attempt of the retry loop around the TLS flags; waiting for a fresher
\* cache before an attempt is the in-process retry.  syncReconciledNotebook
\* copies fields of the result nothing reads afterwards.
OdhTLS ==
    /\ odh.pc = "tls"
    /\ LET want == reconcileKubeRbacProxyTLS(odhC) IN
       \/ /\ want = odhC                                  \* nothing to write
          /\ UNCHANGED <<nb, odhQ>>
          /\ odh' = [odh EXCEPT !.pc = "unlock"]
       \/ /\ want # odhC /\ odhC.rv = nb.rv
          /\ Put(want)
          /\ UNCHANGED odhQ
          /\ odh' = [odh EXCEPT !.pc = "unlock"]
       \/ /\ want # odhC /\ odhC.rv # nb.rv               \* Conflict
          /\ UNCHANGED nb
          /\ OdhFail                                      \* retries exhausted
    /\ UNCHANGED <<sts, pod, prepared, cfg, bundle, upVars, odhC, bootCfg, bounds,
                   history>>

\* MLflow's ClusterRole is missing, or the patch of the lock fails: come back
\* later, with the lock still on.
OdhMLflowWait ==
    /\ odh.pc = "unlock"
    /\ Spend
    /\ OdhFail
    /\ UNCHANGED <<world, upVars, odhC, bootCfg, history>>

\* Fault: the annotation is blanked, not removed.
FaultBlankStop(n) == [n EXCEPT !.stop = ""]

\* The merge patch of RemoveReconciliationLock: it sets the stop annotation to
\* null, whatever it holds.
LockPatch(n) == [n EXCEPT !.stop = NoStop]

\* RemoveReconciliationLock, when the Notebook read at the start was locked:
\* wait for the pull secret or give up waiting, then patch the annotation.
RemoveReconciliationLock ==
    /\ odh.pc = "unlock"
    /\ IF odh.locked THEN Put(LockPatch(nb)) ELSE UNCHANGED nb
    /\ odh' = OdhIdle
    /\ UNCHANGED <<sts, pod, prepared, cfg, bundle, upVars, odhC, odhQ, bootCfg,
                   bounds, history>>

\* The process ends: it crashed, or SecurityProfileWatcher stopped it because
\* the TLS profile is not the one it started with.  It lists all Notebooks.
OdhReboot ==
    /\ odh' = OdhIdle
    /\ odhC' = nb /\ odhQ' = Exists(nb)
    /\ bootCfg' = cfg
    /\ UNCHANGED <<world, upVars, history>>

OdhProfileReload == bootCfg # cfg /\ OdhReboot /\ UNCHANGED bounds

OdhCrash == Spend /\ OdhReboot

--------------------------------------------------------------------------------
User == CreateNotebook \/ UserStop \/ UserStart \/ UserRestart \/ UserEdit
            \/ ChangeCfg \/ ChangeBundle
Cluster == SyncUp \/ SyncSts \/ SyncOdh \/ StsController
UpReconcile == UpStart \/ UpStatefulSet \/ UpStatus \/ UpRestart
            \/ UpClearRestart
OdhReconcile == OdhStart \/ OdhAddFinalizers \/ UnsetNotebookCertConfig
            \/ OdhPrepare \/ OdhTLS \/ OdhMLflowWait
            \/ RemoveReconciliationLock

Next == User \/ Cluster \/ UpReconcile \/ UpCrash \/ OdhReconcile
            \/ OdhProfileReload \/ OdhCrash

Spec == Init /\ [][Next]_vars

(***************************************************************************)
(* Informers deliver, work queues are served, and the StatefulSet          *)
(* controller acts: client-go and Kubernetes promise that.  Nothing is     *)
(* assumed of users, crashes, failures or the pull secret.                 *)
(***************************************************************************)
Fairness ==
    /\ WF_vars(Cluster)
    /\ WF_vars(UpReconcile)
    /\ WF_vars(OdhReconcile \/ OdhProfileReload)

FairSpec == Spec /\ Fairness

--------------------------------------------------------------------------------
(* Properties.                                                             *)

\* The pod runs only once the first reconciliation of odh-notebook-controller
\* has provided its objects and its finalizers, unless the user started it
\* before by hand (InjectReconciliationLock's promise).
PodOnlyAfterPreparation ==
    pod.up => (prepared /\ nb.fin) \/ overridden

\* Until its user acts on it, only one thing takes a started notebook down:
\* UnsetNotebookCertConfig, after a reconcile that did not find, or could not
\* read, the CA bundle.  Neither a change of what the webhook would inject nor
\* any other reconcile, crash or failure restarts it
\* (maybeRestartRunningNotebook, notebookDefersPodTemplateChange).
UntouchedPodKeepsRunning ==
    [][pod.up /\ ~pod'.up => acts > 0 \/ unmounted]_vars

\* While neither a stop nor a restart is asked for, no write changes the
\* injected part of the pod template, unless it changes the user's part as
\* well or is the patch of UnsetNotebookCertConfig, which the webhook lets pass
\* (maybeRestartRunningNotebook against the TLS writer).
RunningTemplateHeld ==
    [][(/\ Exists(nb) /\ nb'.inj # nb.inj
        /\ nb'.stop = NoStop /\ ~nb'.restart)
       => nb'.user # nb.user \/ UnsetNotebookCertConfig]_vars

\* odh-notebook-controller still holds, or may still read, the lock.
LockInSight == \/ ReconciliationLockIsEnabled(nb)
               \/ ReconciliationLockIsEnabled(odhC)
               \/ odh.locked

\* Once the lock is out of sight, only the user ends a stop: no conflict,
\* retry or late write of a controller starts a stopped notebook.
StopSticks ==
    [][(nb.stop = Stopped /\ nb'.stop # Stopped /\ ~LockInSight) => UserStart]_vars

\* What the stored Notebook asks for.
Want == IF ~Exists(nb) THEN "absent"
        ELSE IF nb.stop = Lock THEN "locked"
        ELSE IF nb.stop = Stopped THEN "stopped" ELSE "started"

WB == INSTANCE Workbench WITH
        want <- Want, prepared <- prepared, forced <- overridden,
        locking <- LockInSight, touched <- acts > 0, unmounted <- unmounted,
        running <- pod.up

\* The controllers and the webhook together keep the promise of Workbench.
ImplementsWorkbench == WB!Spec

\* The lock is the only annotation value the controller's patch takes away
\* ("Remove the reconciliation lock annotation").
OnlyLockIsRemoved ==
    [][(nb.stop = Stopped /\ nb'.stop # Stopped) => UserStart]_vars

\* The pod is what the Notebook asks for.
Converged ==
    IF nb.stop # NoStop \/ ~Exists(nb) THEN ~pod.up
    ELSE pod = [up |-> TRUE, tmpl |-> Template(nb)]

\* A running notebook whose injected template fell behind is marked.
PendingShown ==
    Exists(nb) /\ nb.stop = NoStop /\ ~nb.restart /\ nb.inj.tls # cfg
        => nb.pending # "none"

\* When users and faults come to rest, stale caches, conflicts, crashes and
\* failed calls have all been made good, for ever: the lock is released, the
\* pod is up or down and of the template as the Notebook asks, a restart of a
\* started notebook has been served, and with kube-rbac-proxy a notebook that
\* runs with outdated TLS flags says so.
EventuallySettled ==
    <>[](/\ nb.stop # Lock
         /\ Converged
         /\ nb.restart => nb.stop # NoStop
         /\ Auth => PendingShown)
================================================================================

-------------------------------- MODULE Culling --------------------------------
(***************************************************************************)
(* CullingReconciler (culling_controller.go): the idle culler of           *)
(* notebook-controller, for one Notebook.                                  *)
(*                                                                         *)
(* Time is measured in ticks, and a timestamp is kept as its age, the      *)
(* number of ticks since, capped at Cap because nothing distinguishes      *)
(* older ones.  Two instants k ticks apart lie between k-1 and k+1 tick    *)
(* lengths apart, so at the boundary a comparison may go either way.       *)
(*                                                                         *)
(* The resourceVersion is kept as fresh: whether the informer cache holds  *)
(* the stored version.  An Update made from an older one is refused.       *)
(***************************************************************************)
EXTENDS Integers

CONSTANTS
    CULL_IDLE_TIME,         \* in ticks
    IDLENESS_CHECK_PERIOD   \* in ticks

ASSUME TimesAssumption ==
    /\ CULL_IDLE_TIME \in Nat \ {0}
    /\ IDLENESS_CHECK_PERIOD \in Nat \ {0}

VARIABLES
    nb,        \* stop, last-activity and last-activity-check annotations
    nbC,       \* the Notebook in the informer cache
    fresh,     \* the cache holds the stored version
    pod,       \* the pod is running
    podC,      \* the pod is in the informer cache
    due,       \* NotebookReconciler is going to write the status
    server,    \* what Jupyter's kernels and terminals are doing
    queued,    \* the Notebook is in the culler's work queue
    timer,     \* ticks left of RequeueAfter
    pc,        \* the culler's running reconcile
    kernels, terminals   \* answers the running reconcile has collected

cluster == <<pod, podC, server>>
culler  == <<queued, timer, pc, kernels, terminals>>
stored  == <<nb, nbC, fresh, due>>
vars    == <<stored, cluster, culler>>

Larger(a, b) == IF a > b THEN a ELSE b

Cap == Larger(CULL_IDLE_TIME, IDLENESS_CHECK_PERIOD) + 1
Absent == -1
Ages == 0..Cap

\* An annotation or an activity time that may be missing.
MaybeAges == Ages \cup {Absent}

Notebooks == [stop: BOOLEAN, last: MaybeAges, check: MaybeAges]

\* Kernels: some are busy, or all are idle and act is the most recent of their
\* last_activity, Absent without any (or without an answer that can be parsed).
KernelStatus == [busy: BOOLEAN, act: MaybeAges]
NoKernels == [busy |-> FALSE, act |-> Absent]
BusyKernel == [busy |-> TRUE, act |-> Absent]
NoServer == [kernels |-> NoKernels, terminals |-> Absent]

Pcs == {"idle", "remove", "init", "kernels", "terminals", "update"}

TypeOK ==
    /\ nb \in Notebooks
    /\ nbC \in Notebooks
    /\ fresh \in BOOLEAN
    /\ due \in BOOLEAN
    /\ pod \in BOOLEAN /\ podC \in BOOLEAN
    /\ server \in [kernels: KernelStatus, terminals: MaybeAges]
    /\ queued \in BOOLEAN
    /\ timer \in -1..IDLENESS_CHECK_PERIOD
    /\ pc \in Pcs
    /\ kernels \in KernelStatus
    /\ terminals \in MaybeAges

\* A notebook that has just been started.
Init ==
    /\ nb = [stop |-> FALSE, last |-> Absent, check |-> Absent]
    /\ nbC = nb /\ fresh = TRUE /\ due = FALSE
    /\ pod = FALSE /\ podC = FALSE
    /\ server = NoServer
    /\ queued = TRUE /\ timer = Absent /\ pc = "idle"
    /\ kernels = NoKernels /\ terminals = Absent

--------------------------------------------------------------------------------
(* Time, users, and what the rest of the system does to the Notebook.      *)

Older(a) == IF a = Absent \/ a = Cap THEN a ELSE a + 1

OlderNotebook(n) == [n EXCEPT !.last = Older(@), !.check = Older(@)]

Tick ==
    /\ nb' = OlderNotebook(nb) /\ nbC' = OlderNotebook(nbC)
    /\ server' = [server EXCEPT !.kernels.act = Older(@), !.terminals = Older(@)]
    /\ kernels' = [kernels EXCEPT !.act = Older(@)]
    /\ terminals' = Older(terminals)
    /\ timer' = IF timer > 0 THEN timer - 1 ELSE timer
    /\ UNCHANGED <<fresh, due, pod, podC, queued, pc>>

\* RequeueAfter has elapsed.
TimerFires ==
    /\ timer = 0
    /\ timer' = Absent /\ queued' = TRUE
    /\ UNCHANGED <<stored, cluster, pc, kernels, terminals>>

\* The informer delivers the stored Notebook: an event for the culler.
Sync ==
    /\ ~fresh
    /\ nbC' = nb /\ fresh' = TRUE /\ queued' = TRUE
    /\ UNCHANGED <<nb, due, cluster, timer, pc, kernels, terminals>>

SyncPod ==
    /\ podC # pod
    /\ podC' = pod /\ due' = TRUE
    /\ UNCHANGED <<nb, nbC, fresh, pod, server, culler>>

\* NotebookReconciler writes the status, some time after another write of the
\* Notebook or a change of the pod: its probe times have moved on.
StatusWrite ==
    /\ due
    /\ due' = FALSE /\ fresh' = FALSE
    /\ UNCHANGED <<nb, nbC, cluster, culler>>

\* A write of the Notebook by someone who is not writing its status: it keeps
\* the version if it changes nothing.
Put(new) == /\ nb' = new
            /\ fresh' = (fresh /\ new = nb)
            /\ due' = (due \/ new # nb)
            /\ UNCHANGED nbC

PodStarts ==
    /\ ~nb.stop /\ ~pod
    /\ pod' = TRUE
    /\ UNCHANGED <<stored, podC, server, culler>>

PodStops ==
    /\ nb.stop /\ pod
    /\ pod' = FALSE /\ server' = NoServer
    /\ UNCHANGED <<stored, podC, culler>>

UserStop ==
    /\ ~nb.stop
    /\ Put([nb EXCEPT !.stop = TRUE])
    /\ UNCHANGED <<cluster, culler>>

UserStart ==
    /\ nb.stop
    /\ Put([nb EXCEPT !.stop = FALSE])
    /\ UNCHANGED <<cluster, culler>>

\* A kernel starts to run a cell, or all of them finish.
KernelActivity ==
    /\ pod
    /\ \E k \in {BusyKernel, [busy |-> FALSE, act |-> 0]} :
          server' = [server EXCEPT !.kernels = k]
    /\ UNCHANGED <<stored, pod, podC, culler>>

TerminalActivity ==
    /\ pod
    /\ server' = [server EXCEPT !.terminals = 0]
    /\ UNCHANGED <<stored, pod, podC, culler>>

--------------------------------------------------------------------------------
(* CullingReconciler.Reconcile.                                            *)

\* The values that "more than limit ticks ago" may have for a given age.
MoreThan(age, limit) ==
    {b \in BOOLEAN : /\ age > limit => b
                     /\ age < limit => ~b}

annotationsExist(n) == n.last # Absent /\ n.check # Absent

\* cullingCheckPeriodHasPassed
cullingCheckPeriodHasPassed(n) ==
    IF n.check = Absent THEN {FALSE} ELSE MoreThan(n.check, IDLENESS_CHECK_PERIOD)

\* Fault: the annotations of the last run survive a stop.
FaultKeepAnnotations(n) == n

removeAnnotations(n) == [n EXCEPT !.last = Absent, !.check = Absent]

initializeAnnotations(n) == [n EXCEPT !.last = 0, !.check = 0]

\* compareAnnotationTimeToResource: the annotation is not the later one.
compareAnnotationTimeToResource(n, act) == n.last # Absent /\ ~(n.last < act)

\* Fault: activity the server reports is taken over even if it is older.
FaultGoBackInTime(n, act) ==
    IF act # Absent /\ n.last # Absent THEN [n EXCEPT !.last = act] ELSE n

\* The last-activity annotation after a reported activity time.
UpdateTimestamp(n, act) ==
    IF act # Absent /\ compareAnnotationTimeToResource(n, act)
    THEN [n EXCEPT !.last = act] ELSE n

\* Fault: a busy kernel is treated like an idle one.
FaultIgnoreBusy(n, k) == UpdateTimestamp(n, k.act)

\* updateTimestampFromKernelsActivity: a busy kernel makes it now.
updateTimestampFromKernelsActivity(n, k) ==
    IF k.busy THEN [n EXCEPT !.last = 0] ELSE UpdateTimestamp(n, k.act)

updateTimestampFromTerminalsActivity(n, t) == UpdateTimestamp(n, t)

updateLastCullingCheckTimestampAnnotation(n) == [n EXCEPT !.check = 0]

\* notebookIsIdle: not stopping, and no activity for the idle time.
notebookIsIdle(n) ==
    IF n.stop \/ n.last = Absent THEN {FALSE} ELSE MoreThan(n.last, CULL_IDLE_TIME)

\* What one check makes of the Notebook, given the answers and the verdict.
Checked(n) ==
    updateLastCullingCheckTimestampAnnotation(
        updateTimestampFromTerminalsActivity(
            updateTimestampFromKernelsActivity(n, kernels), terminals))

Done == /\ pc' = "idle"
        /\ kernels' = NoKernels /\ terminals' = Absent

\* An error: the key is put back into the queue.
Fail == Done /\ queued' = TRUE /\ UNCHANGED timer

\* Fault: minutes are taken for seconds.
FaultRequeueUnit == timer' = IF timer = Absent THEN 60 * IDLENESS_CHECK_PERIOD ELSE timer

\* Fault: nothing is scheduled.
FaultNoRequeue == UNCHANGED timer

\* RequeueAfter: getRequeueTime(); a request that is due sooner stays.
RequeueAfter == timer' = IF timer = Absent THEN IDLENESS_CHECK_PERIOD ELSE timer

\* Query the server if it is time for a check, else come back later.
CheckPeriod(n) ==
    \E passed \in cullingCheckPeriodHasPassed(n) :
        \/ passed /\ pc' = "kernels" /\ UNCHANGED timer
        \/ ~passed /\ pc' = "idle" /\ RequeueAfter

\* Read the Notebook and the pod from the cache, and decide.
CullStart ==
    /\ pc = "idle" /\ queued
    /\ queued' = FALSE
    /\ \/ /\ nbC.stop \/ ~podC
          /\ pc' = "remove" /\ UNCHANGED timer
       \/ /\ ~nbC.stop /\ podC /\ ~annotationsExist(nbC)
          /\ pc' = "init" /\ UNCHANGED timer
       \/ /\ ~nbC.stop /\ podC /\ annotationsExist(nbC)
          /\ CheckPeriod(nbC)
    /\ UNCHANGED <<stored, cluster, kernels, terminals>>

\* An Update made from a version that is not the stored one is refused; a
\* retry that reads a fresher cache is this action taken later.
Conflict == ~fresh /\ Fail /\ UNCHANGED stored

\* Stopping, or no pod: forget the activity.  Nothing is scheduled.
CullRemove ==
    /\ pc = "remove"
    /\ \/ /\ fresh /\ Put(removeAnnotations(nb))
          /\ Done /\ UNCHANGED <<queued, timer>>
       \/ Conflict
    /\ UNCHANGED cluster

CullInit ==
    /\ pc = "init"
    /\ \/ /\ fresh /\ Put(initializeAnnotations(nb))
          /\ CheckPeriod(initializeAnnotations(nb))
          /\ UNCHANGED <<queued, kernels, terminals>>
       \/ Conflict
    /\ UNCHANGED cluster

\* GET /api/kernels, which may fail or time out.
CullQueryKernels ==
    /\ pc = "kernels"
    /\ kernels' \in {NoKernels, server.kernels}
    /\ pc' = "terminals"
    /\ UNCHANGED <<stored, cluster, queued, timer, terminals>>

\* GET /api/terminals, likewise.
CullQueryTerminals ==
    /\ pc = "terminals"
    /\ terminals' \in {Absent, server.terminals}
    /\ pc' = "update"
    /\ UNCHANGED <<stored, cluster, queued, timer, kernels>>

\* Fault: the update is made of the cached Notebook and not refused.
FaultBlindUpdate ==
    /\ pc = "update"
    /\ \E idle \in notebookIsIdle(Checked(nbC)) :
          Put([Checked(nbC) EXCEPT !.stop = @ \/ idle])
    /\ Done /\ RequeueAfter
    /\ UNCHANGED <<cluster, queued>>

\* The consolidated update of all annotations, with the verdict.
CullUpdate ==
    /\ pc = "update"
    /\ \/ /\ fresh
          /\ \E idle \in notebookIsIdle(Checked(nb)) :
                Put([Checked(nb) EXCEPT !.stop = @ \/ idle])
          /\ Done /\ RequeueAfter /\ UNCHANGED queued
       \/ Conflict
    /\ UNCHANGED cluster

\* The process dies and starts again; the initial list queues the Notebook.
CullCrash ==
    /\ Done /\ queued' = TRUE /\ timer' = Absent
    /\ nbC' = nb /\ fresh' = TRUE /\ podC' = pod /\ due' = TRUE
    /\ UNCHANGED <<nb, pod, server>>

--------------------------------------------------------------------------------
Environment == Tick \/ UserStop \/ UserStart \/ KernelActivity \/ TerminalActivity
Cluster == Sync \/ SyncPod \/ StatusWrite \/ PodStarts \/ PodStops
Reconcile == CullStart \/ CullRemove \/ CullInit \/ CullQueryKernels
                \/ CullQueryTerminals \/ CullUpdate

Step == Environment \/ Cluster \/ TimerFires \/ Reconcile

Next == Step \/ CullCrash

Spec == Init /\ [][Next]_vars

(***************************************************************************)
(* Time passes, the informer, timers and other controllers do their work   *)
(* and the queue is served.  Nothing is assumed of users and of the server *)
(* the notebook runs; the process is not killed for ever.                  *)
(***************************************************************************)
FairSpec ==
    /\ Init /\ [][Step]_vars
    /\ WF_vars(Tick) /\ WF_vars(Cluster \/ TimerFires) /\ WF_vars(Reconcile)

--------------------------------------------------------------------------------
(* Properties.                                                             *)

\* Nothing but the passing of time makes a last-activity annotation older
\* ("to ensure we are not going backwards in time"), whatever the server
\* reports and however late it is written.
ActivityNeverGoesBack ==
    [][(nb.last # Absent /\ nb'.last # Absent /\ nb'.last > nb.last) => Tick]_vars

\* Activity the culler was told of, as the age of the most recent one.
OldEnough(act) == act # Absent => act >= CULL_IDLE_TIME

\* A check that culls has seen no busy kernel and no kernel or terminal used
\* within the idle time, even if the annotations changed while it asked.
CulledOnlyIfIdle ==
    [][CullUpdate /\ ~nb.stop /\ nb'.stop =>
            /\ ~kernels.busy
            /\ OldEnough(kernels.act) /\ OldEnough(terminals)]_vars

\* The culler's writes, made from what it read some time ago, never undo a
\* stop: only the user starts a stopped notebook.
CullerKeepsStops == [][nb.stop /\ ~nb'.stop => UserStart]_vars

\* The notebook runs and nobody has used it for longer than the idle time.
Inactive ==
    /\ pod /\ ~nb.stop
    /\ ~server.kernels.busy
    /\ server.kernels.act \in {Absent, Cap}
    /\ server.terminals \in {Absent, Cap}

\* No notebook stays idle for ever: it is culled, unless it is used again.
\* Failing queries, conflicts and lost timers do not keep it running.
IdleNotebookCulled == Inactive ~> ~Inactive

\* After a stop the annotations of the finished run are removed, so that they
\* do not count against the next one, unless it is started again before.
StoppedNotebookForgotten ==
    nb.stop ~> (~nb.stop \/ (nb.last = Absent /\ nb.check = Absent))
================================================================================

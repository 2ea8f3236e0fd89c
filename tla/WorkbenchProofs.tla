---------------------------- MODULE WorkbenchProofs ----------------------------
(***************************************************************************)
(* NotebookLifecycle implements Workbench, for every bound and every set   *)
(* of configurations.                                                      *)
(*                                                                         *)
(* Beside the invariant of NotebookLifecycleProofs that takes a second one *)
(* about a Notebook that no user has acted on and whose CA bundle was      *)
(* never found missing (Steady): once its lock is gone, the copy in the    *)
(* cache, the copy in a running reconcile, the StatefulSet and the pod     *)
(* agree with what is stored, as far as each of them has come.  Whatever   *)
(* order reconciles, conflicts, crashes and changes of the configuration   *)
(* happen in, there is then no reason to take the pod down.                *)
(***************************************************************************)
EXTENDS NotebookLifecycleProofs

Steady ==
    /\ ~nb.restart /\ up.pc \notin {"restart", "clear"}
    /\ Cleared(upC) => Cleared(nb) /\ Template(upC) = Template(nb)
    /\ up.pc = "statefulset" /\ Cleared(up.inst) =>
          Cleared(upC) /\ Template(up.inst) = Template(upC)
    /\ sts.replicas = 1 => /\ Cleared(upC) /\ Template(upC) = sts.tmpl
                           /\ up.pc = "statefulset" => Cleared(up.inst)
    /\ pod.up => sts.replicas = 1 /\ pod.tmpl = sts.tmpl

UntouchedInv == acts = 0 /\ ~unmounted => Steady

--------------------------------------------------------------------------------
(* Who writes what.                                                        *)

\* What a write through admission leaves as it was sent.
LEMMA WriteFacts ==
    ASSUME Inv, Exists(nb), NEW new \in Notebooks,
           nb' = nb \/ Put(new),
           new.user = nb.user, new.restart => nb.restart, new.stop = nb.stop
    PROVE  Exists(nb)' /\ nb'.user = nb.user /\ (nb'.restart => nb.restart)
           /\ nb'.stop = nb.stop
<1>1. cfg \in Nat /\ nb \in Notebooks /\ nb.rv \in Nat
  BY ConstantTypes DEF Inv, TypeOK, Notebooks
<1>2. CASE nb' = nb
  BY <1>2 DEF Exists
<1>3. CASE Put(new)
  <2>1. /\ nb'.stop = new.stop /\ nb'.restart = new.restart /\ nb'.user = new.user
        /\ nb' = nb \/ nb'.rv = nb.rv + 1
    BY <1>1, <1>3, PutFields
  <2> QED BY <1>1, <2>1 DEF Exists
<1> QED BY <1>2, <1>3

\* No step but a user's asks for a restart, changes the user's part of a Notebook
\* (but for the patch that takes the CA bundle out, which may undo an edit), or
\* changes the stop annotation, except the patch that removes the lock.
LEMMA ControllerWrites ==
    ASSUME Inv, Next, ~User, Exists(nb)
    PROVE  /\ Exists(nb)' /\ (nb'.restart => nb.restart)
           /\ nb'.user = nb.user \/ UnsetNotebookCertConfig
           /\ \/ nb'.stop = nb.stop
              \/ RemoveReconciliationLock /\ odh.locked /\ nb'.stop = NoStop
<1>1. cfg \in Nat /\ nb \in Notebooks /\ odhC \in Notebooks /\ nb.rv \in Nat
  BY ConstantTypes DEF Inv, TypeOK, Notebooks
<1>2. CASE nb' = nb
  BY <1>2 DEF Exists
<1>3. CASE Cluster \/ UpCrash \/ OdhProfileReload \/ OdhCrash \/ UpStart \/ UpStatefulSet
           \/ UpRestart \/ OdhStart \/ OdhPrepare \/ OdhMLflowWait
  <2>1. nb' = nb
    BY <1>3 DEF Cluster, SyncUp, SyncSts, SyncOdh, StsController, UpCrash,
                OdhProfileReload, OdhCrash, OdhReboot, UpStart, UpStatefulSet, UpRestart,
                OdhStart, OdhPrepare, OdhMLflowWait, world
  <2> QED BY <1>2, <2>1
<1>4. CASE UpStatus
  <2>1. nb' = nb \/ nb' = [nb EXCEPT !.rv = @ + 1]
    BY <1>4 DEF UpStatus
  <2> QED BY <1>1, <2>1 DEF Exists, Notebooks
<1>5. CASE UpClearRestart
  <2> DEFINE new == [nb EXCEPT !.restart = FALSE]
  <2>1. new \in Notebooks /\ new.user = nb.user /\ ~new.restart /\ new.stop = nb.stop
    BY <1>1 DEF Notebooks
  <2>2. nb' = nb \/ Put(new)
    BY <1>5 DEF UpClearRestart
  <2> HIDE DEF new
  <2> QED BY <2>1, <2>2, WriteFacts
<1>6. CASE OdhAddFinalizers
  <2> DEFINE new == [nb EXCEPT !.fin = TRUE]
  <2>1. /\ new \in Notebooks /\ new.user = nb.user /\ new.restart = nb.restart
        /\ new.stop = nb.stop
    BY <1>1 DEF Notebooks
  <2>2. nb' = nb \/ Put(new)
    BY <1>6 DEF OdhAddFinalizers
  <2> HIDE DEF new
  <2> QED BY <2>1, <2>2, WriteFacts
<1>7. CASE OdhTLS
  <2> DEFINE new == reconcileKubeRbacProxyTLS(odhC)
  <2>1. /\ new \in Notebooks /\ new.user = odhC.user /\ new.restart = odhC.restart
        /\ new.stop = odhC.stop
    BY <1>1, TLSFields
  <2>2. nb' = nb \/ (Put(new) /\ odhC = nb)
    BY <1>7 DEF OdhTLS, Inv, CacheInv
  <2> HIDE DEF new
  <2> QED BY <1>2, <2>1, <2>2, WriteFacts
<1>8. CASE RemoveReconciliationLock
  <2> DEFINE new == LockPatch(nb)
  <2>1. /\ new \in Notebooks /\ new.user = nb.user /\ new.restart = nb.restart
        /\ new.stop = NoStop
    BY <1>1 DEF LockPatch, Notebooks, StopAnnotation
  <2>2. nb' = nb \/ (Put(new) /\ odh.locked)
    BY <1>8 DEF RemoveReconciliationLock
  <2> HIDE DEF new
  <2>3. CASE Put(new) /\ odh.locked
    <3>1. /\ nb'.stop = new.stop /\ nb'.restart = new.restart /\ nb'.user = new.user
          /\ nb' = nb \/ nb'.rv = nb.rv + 1
      BY <1>1, <2>1, <2>3, PutFields
    <3> QED BY <1>1, <1>8, <2>1, <2>3, <3>1 DEF Exists
  <2> QED BY <1>2, <2>2, <2>3
<1>9. CASE UnsetNotebookCertConfig
  <2>1. Put(Unset)
    BY <1>9 DEF UnsetNotebookCertConfig, Unset
  <2>2. /\ nb'.stop = Unset.stop /\ nb'.restart = Unset.restart
        /\ nb' = nb \/ nb'.rv = nb.rv + 1
    BY <1>1, <2>1, UnsetFields, PutFields
  <2> QED BY <1>1, <1>9, <2>2, UnsetFields DEF Exists
<1> QED BY <1>3, <1>4, <1>5, <1>6, <1>7, <1>8, <1>9 DEF Next, UpReconcile, OdhReconcile

\* Until a user acts or the CA bundle is taken out, a Notebook that may run keeps
\* its template, may still run, and is not to be restarted.
LEMMA SteadyNotebook ==
    ASSUME Inv, Next, ~nb.restart, acts = 0, acts' = 0, ~unmounted'
    PROVE  /\ ~nb'.restart
           /\ Cleared(nb) => Cleared(nb)' /\ Template(nb)' = Template(nb)
<1>0. ~UnsetNotebookCertConfig
  BY DEF UnsetNotebookCertConfig
<1>1. ~UserStop /\ ~UserStart /\ ~UserRestart /\ ~UserEdit
  BY DEF UserStop, UserStart, UserRestart, UserEdit, UserPatch
<1>2. CASE ~Exists(nb)
  <2>1. nb = NoNotebook /\ ~Cleared(nb)
    BY <1>2 DEF Inv, CacheInv, Cleared
  <2>2. CASE CreateNotebook
    BY <2>1, <2>2 DEF CreateNotebook, HandleCreate, InjectTemplate,
                      InjectReconciliationLock, NoNotebook
  <2>3. CASE ~CreateNotebook
    <3>1. Idle(up) /\ Idle(odh) /\ ~Exists(upC) /\ ~Exists(odhC)
      BY <1>2 DEF Inv, CacheInv, Exists, TypeOK, Notebooks
    <3>2. nb' = nb
      BY <1>1, <1>0, <2>3, <3>1
      DEF Next, User, ChangeCfg, ChangeBundle, Cluster, SyncUp, SyncSts, SyncOdh, StsController,
          UpReconcile, UpStart, UpStatefulSet, UpStatus, UpRestart, UpClearRestart, UpCrash,
          OdhReconcile, OdhStart, OdhAddFinalizers, OdhPrepare, OdhTLS, OdhMLflowWait,
          RemoveReconciliationLock, OdhProfileReload, OdhCrash, OdhReboot, world, Idle
    <3> QED BY <2>1, <3>2
  <2> QED BY <2>2, <2>3
<1>3. CASE Exists(nb)
  <2>1. /\ Exists(nb)' /\ nb'.user = nb.user /\ ~nb'.restart
        /\ nb.stop = NoStop => nb'.stop = NoStop
    <3>1. CASE User
      <4>1. ChangeCfg \/ ChangeBundle
        BY <1>1, <1>3, <3>1 DEF User, CreateNotebook
      <4> QED BY <1>3, <4>1 DEF ChangeCfg, ChangeBundle, Exists
    <3>2. CASE ~User
      BY <1>3, <1>0, <3>2, ControllerWrites
    <3> QED BY <3>1, <3>2
  <2>2. nb.stop = NoStop => nb'.inj = nb.inj
    BY <1>3, <1>0, <2>1, TemplateSteps
  <2> QED BY <2>1, <2>2 DEF Cleared, Template
<1> QED BY <1>2, <1>3

--------------------------------------------------------------------------------
(* A Notebook nobody has acted on.                                         *)

\* Acts are counted, and only patches of users are acts; that the CA bundle was
\* taken out is never forgotten.
LEMMA ActsGrow ==
    ASSUME Inv, [Next]_vars
    PROVE  /\ acts \in Nat /\ acts' \in {acts, acts + 1}
           /\ acts' = acts + 1 => UserStop \/ UserStart \/ UserRestart \/ UserEdit
           /\ unmounted' = unmounted \/ (UnsetNotebookCertConfig /\ unmounted')
<1>1. acts \in Nat
  BY BoundsAssumption DEF Inv, TypeOK
<1>2. CASE UserStop \/ UserStart \/ UserRestart \/ UserEdit
  BY <1>1, <1>2 DEF UserStop, UserStart, UserRestart, UserEdit, UserPatch
<1>3. CASE ~(UserStop \/ UserStart \/ UserRestart \/ UserEdit)
  <2>1. acts' = acts /\ (unmounted' = unmounted \/ (UnsetNotebookCertConfig /\ unmounted'))
    BY <1>3
    DEF Next, User, CreateNotebook, ChangeCfg, ChangeBundle, Cluster, SyncUp, SyncSts, SyncOdh,
        StsController, UpReconcile, UpStart, UpStatefulSet, UpStatus, UpRestart,
        UpClearRestart, UpCrash, OdhReconcile, OdhStart, OdhAddFinalizers,
        UnsetNotebookCertConfig, OdhPrepare, OdhTLS, OdhMLflowWait,
        RemoveReconciliationLock, OdhProfileReload, OdhCrash, OdhReboot, Spend, bounds,
        history, vars
  <2> QED BY <1>1, <2>1
<1> QED BY <1>2, <1>3

\* Steps of others than notebook-controller, its cache and Kubernetes.
LEMMA SteadyAside ==
    ASSUME Steady, ~nb'.restart,
           Cleared(nb) => Cleared(nb)' /\ Template(nb)' = Template(nb),
           UNCHANGED <<upC, up, sts, pod>>
    PROVE  Steady'
<1>1. /\ Cleared(upC)' <=> Cleared(upC)
      /\ Cleared(up.inst)' <=> Cleared(up.inst)
      /\ Template(upC)' = Template(upC) /\ Template(up.inst)' = Template(up.inst)
  BY DEF Cleared, Exists, Template
<1> QED BY <1>1 DEF Steady

\* What notebook-controller makes of a Notebook follows the order in which its
\* cache saw it, so that no replica and no template is taken back.
LEMMA SteadyStep ==
    ASSUME Inv, Next, Steady, acts = 0, acts' = 0, ~unmounted'
    PROVE  Steady'
<1>1. /\ ~nb'.restart
      /\ Cleared(nb) => Cleared(nb)' /\ Template(nb)' = Template(nb)
  BY SteadyNotebook DEF Steady
<1>2. ~UserStop /\ ~UserStart /\ ~UserRestart /\ ~UserEdit
  BY DEF UserStop, UserStart, UserRestart, UserEdit, UserPatch
<1>3. CASE User
  <2>1. UNCHANGED <<upC, up, sts, pod>>
    BY <1>2, <1>3 DEF User, CreateNotebook, ChangeCfg, ChangeBundle, upVars
  <2> QED BY <1>1, <2>1, SteadyAside
<1>4. CASE OdhReconcile \/ OdhProfileReload \/ OdhCrash \/ SyncSts \/ SyncOdh
  <2>1. UNCHANGED <<upC, up, sts, pod>>
    BY <1>4 DEF OdhReconcile, OdhStart, OdhAddFinalizers, UnsetNotebookCertConfig,
                OdhPrepare, OdhTLS, OdhMLflowWait, RemoveReconciliationLock, OdhProfileReload, OdhCrash,
                OdhReboot, SyncSts, SyncOdh, upVars, world
  <2> QED BY <1>1, <2>1, SteadyAside
<1>5. CASE SyncUp \/ UpCrash
  <2>1. /\ upC' = nb /\ UNCHANGED <<nb, sts, pod>>
        /\ up' = up \/ up' = UpIdle
    BY <1>5 DEF SyncUp, UpCrash, world
  <2>2. /\ Cleared(nb)' <=> Cleared(nb)
        /\ Cleared(upC)' <=> Cleared(nb)
        /\ Template(upC)' = Template(nb)
        /\ Template(nb)' = Template(nb)
    BY <2>1 DEF Cleared, Exists, Template
  <2>3. CASE up' = up
    <3>1. (Cleared(up.inst)' <=> Cleared(up.inst)) /\ Template(up.inst)' = Template(up.inst)
      BY <2>3 DEF Cleared, Exists, Template
    <3> QED BY <2>1, <2>2, <2>3, <3>1 DEF Steady
  <2>4. CASE up' = UpIdle
    <3>1. up'.pc = "idle"
      BY <2>4 DEF UpIdle
    <3> QED BY <2>1, <2>2, <3>1 DEF Steady
  <2> QED BY <2>1, <2>3, <2>4
<1>6. CASE StsController
  <2>1. /\ UNCHANGED <<nb, upC, up, sts>>
        /\ \/ sts.replicas = 1 /\ pod' = [up |-> TRUE, tmpl |-> sts.tmpl]
           \/ pod' = NoPod
    BY <1>6 DEF StsController
  <2>2. pod'.up => sts'.replicas = 1 /\ pod'.tmpl = sts'.tmpl
    BY <2>1 DEF NoPod
  <2>3. /\ (Cleared(upC)' <=> Cleared(upC)) /\ (Cleared(nb)' <=> Cleared(nb))
        /\ Cleared(up.inst)' <=> Cleared(up.inst)
        /\ Template(upC)' = Template(upC) /\ Template(up.inst)' = Template(up.inst)
        /\ Template(nb)' = Template(nb)
    BY <2>1 DEF Cleared, Exists, Template
  <2> QED BY <2>1, <2>2, <2>3 DEF Steady
<1>7. CASE UpStart
  <2>1. /\ UNCHANGED <<nb, upC, sts, pod>>
        /\ up' = [pc |-> "statefulset", inst |-> upC]
    BY <1>7 DEF UpStart, world
  <2>2. /\ (Cleared(upC)' <=> Cleared(upC)) /\ (Cleared(nb)' <=> Cleared(nb))
        /\ Cleared(up.inst)' <=> Cleared(upC)
        /\ Template(upC)' = Template(upC) /\ Template(up.inst)' = Template(upC)
        /\ Template(nb)' = Template(nb)
        /\ up'.pc = "statefulset"
    BY <2>1 DEF Cleared, Exists, Template
  <2> QED BY <2>1, <2>2 DEF Steady
<1>8. CASE UpStatefulSet
  <2> DEFINE ss == generateStatefulSet(up.inst)
  <2>1. /\ up.pc = "statefulset" /\ UNCHANGED <<nb, upC, pod>>
        /\ up' \in {UpIdle, [pc |-> "status", inst |-> VersionOf(up.inst)]}
        /\ \/ sts' = sts
           \/ sts'.replicas = ss.replicas /\ sts'.tmpl = ss.tmpl
    BY <1>8 DEF UpStatefulSet, UpFail
  <2>2. /\ ss.tmpl = Template(up.inst)
        /\ ss.replicas = 1 <=> Cleared(up.inst)
    BY <2>1 DEF generateStatefulSet, Cleared, Inv, PreparationInv
  <2> HIDE DEF ss
  <2>3. /\ (Cleared(upC)' <=> Cleared(upC)) /\ (Cleared(nb)' <=> Cleared(nb))
        /\ Template(upC)' = Template(upC) /\ Template(nb)' = Template(nb)
        /\ up'.pc \in {"idle", "status"}
    BY <2>1 DEF Cleared, Exists, Template, UpIdle
  <2>4. sts'.replicas = 1 => Cleared(upC) /\ Template(upC) = sts'.tmpl
    BY <2>1, <2>2 DEF Steady
  <2>5. pod.up => sts'.replicas = 1 /\ pod.tmpl = sts'.tmpl
    BY <2>1, <2>2 DEF Steady
  <2> QED BY <1>1, <2>1, <2>3, <2>4, <2>5 DEF Steady
<1>9. CASE UpStatus
  <2>1. UNCHANGED <<upC, sts, pod>> /\ up' = UpIdle
    BY <1>1, <1>9 DEF UpStatus, UpFail
  <2>2. up'.pc = "idle"
    BY <2>1 DEF UpIdle
  <2>3. (Cleared(upC)' <=> Cleared(upC)) /\ Template(upC)' = Template(upC)
    BY <2>1 DEF Cleared, Exists, Template
  <2> QED BY <1>1, <2>1, <2>2, <2>3 DEF Steady
<1>10. ~UpRestart /\ ~UpClearRestart
  BY DEF Steady, UpRestart, UpClearRestart
<1> QED BY <1>3, <1>4, <1>5, <1>6, <1>7, <1>8, <1>9, <1>10 DEF Next, Cluster, UpReconcile

\* The invariant about a Notebook nobody has acted on is one.
LEMMA UntouchedInvariance == Spec => []UntouchedInv
<1>1. Init => UntouchedInv
  BY DEF Init, UntouchedInv, Steady, NoNotebook, NoSts, NoPod, UpIdle, Cleared, Exists
<1>2. Inv /\ UntouchedInv /\ [Next]_vars => UntouchedInv'
  <2> SUFFICES ASSUME Inv, UntouchedInv, [Next]_vars, acts' = 0, ~unmounted'
               PROVE  Steady'
    BY DEF UntouchedInv
  <2>1. acts = 0 /\ ~unmounted
    BY ActsGrow
  <2>2. CASE Next
    BY <2>1, <2>2, SteadyStep DEF UntouchedInv
  <2>3. CASE UNCHANGED vars
    BY <2>1, <2>3 DEF UntouchedInv, Steady, vars, world, upVars, Cleared, Exists, Template
  <2> QED BY <2>2, <2>3
<1> QED BY <1>1, <1>2, Invariance, PTL DEF Spec

\* The steps that take a pod down have no reason to until a user acts or the CA
\* bundle is taken out.
LEMMA PodSteps ==
    ASSUME UntouchedInv, [Next]_vars, pod.up, ~pod'.up, acts \in Nat
    PROVE  acts > 0 \/ unmounted
<1> SUFFICES ASSUME acts = 0, ~unmounted PROVE FALSE
  OBVIOUS
<1>1. Steady
  BY DEF UntouchedInv
<1>2. ~StsController /\ ~UpRestart
  BY <1>1 DEF StsController, UpRestart, Steady
<1>3. pod' = pod
  BY <1>2
  DEF Next, User, CreateNotebook, UserStop, UserStart, UserRestart, UserEdit, UserPatch,
      ChangeCfg, ChangeBundle, Cluster, SyncUp, SyncSts, SyncOdh, UpReconcile, UpStart,
      UpStatefulSet, UpStatus, UpClearRestart, UpCrash, OdhReconcile, OdhStart,
      OdhAddFinalizers, UnsetNotebookCertConfig, OdhPrepare, OdhTLS, OdhMLflowWait, RemoveReconciliationLock, OdhProfileReload,
      OdhCrash, OdhReboot, vars, world
<1> QED BY <1>3

\* Until its user acts on it, nothing takes a started notebook down but the patch
\* that takes a missing or unreadable CA bundle out: no stale read, conflict,
\* crash, other failing call or change of what the webhook injects.
THEOREM UntouchedKeepsRunning == Spec => UntouchedPodKeepsRunning
<1>1. Inv /\ UntouchedInv /\ [Next]_vars => [pod.up /\ ~pod'.up => acts > 0 \/ unmounted]_vars
  <2> SUFFICES ASSUME Inv, UntouchedInv, [Next]_vars, pod.up, ~pod'.up, vars' # vars
               PROVE  acts > 0 \/ unmounted
    OBVIOUS
  <2> QED BY ActsGrow, PodSteps
<1> QED BY <1>1, Invariance, UntouchedInvariance, PTL DEF Spec, UntouchedPodKeepsRunning

--------------------------------------------------------------------------------
(* The refinement.                                                         *)

\* The refinement mapping takes an initial state to an initial state.
LEMMA WorkbenchInit == Init => WB!Init
<1> SUFFICES ASSUME Init PROVE WB!Init
  OBVIOUS
<1>1. Want = "absent"
  BY DEF Init, Want, Exists, NoNotebook
<1>2. LockInSight = FALSE
  BY DEF Init, LockInSight, ReconciliationLockIsEnabled, NoNotebook, OdhIdle, Lock, NoStop
<1>3. pod.up = FALSE /\ (acts > 0) = FALSE /\ prepared = FALSE /\ overridden = FALSE
      /\ unmounted = FALSE
  BY DEF Init, NoPod
<1> QED BY <1>1, <1>2, <1>3 DEF WB!Init

\* What the Notebook asks for depends on its existence and its stop annotation.
LEMMA WantFacts ==
    ASSUME Inv
    PROVE  /\ Want = "absent" <=> ~Exists(nb)
           /\ Want = "locked" <=> Exists(nb) /\ nb.stop = Lock
           /\ Want = "stopped" <=> Exists(nb) /\ nb.stop = Stopped
           /\ Want = "started" <=> Exists(nb) /\ nb.stop = NoStop
           /\ Want \in {"absent", "locked", "stopped", "started"}
           /\ ~Exists(nb) => nb.stop = NoStop
<1>1. nb.stop \in {NoStop, Lock, Stopped} /\ (~Exists(nb) => nb = NoNotebook)
  BY DEF Inv, TypeOK, Notebooks, StopAnnotation, CacheInv
<1> QED BY <1>1 DEF Want, NoStop, Lock, Stopped, NoNotebook

\* A step that leaves the workbench alone is a stutter, or the end of the
\* hand-over: the lock goes out of sight when the last copy of it does.
LEMMA SettleStep ==
    ASSUME Inv, Inv', Exists(nb)' <=> Exists(nb), nb'.stop = nb.stop,
           prepared' = prepared, overridden' = overridden, acts' = acts,
           unmounted' = unmounted, pod'.up = pod.up, LockInSight' => LockInSight
    PROVE  [WB!Next]_(WB!abstract)
<1>1. Want' = Want
  BY DEF Want
<1>2. LockInSight \in BOOLEAN /\ LockInSight' \in BOOLEAN
  BY DEF LockInSight
<1>3. (acts > 0)' = (acts > 0)
  OBVIOUS
<1>4. CASE LockInSight' = LockInSight
  BY <1>1, <1>3, <1>4 DEF WB!abstract
<1>5. CASE LockInSight = TRUE /\ LockInSight' = FALSE
  <2>1. Want # "locked"
    BY <1>5, WantFacts DEF LockInSight, ReconciliationLockIsEnabled
  <2>2. WB!Settle
    BY <1>1, <1>3, <1>5, <2>1 DEF WB!Settle
  <2> QED BY <2>2 DEF WB!Next
<1> QED BY <1>2, <1>4, <1>5

\* A new Notebook is locked.
LEMMA CreateStep == ASSUME Inv, CreateNotebook PROVE WB!Create
<1>1. ~Exists(nb) /\ nb'.rv = 1 /\ nb'.stop = Lock
  <2>1. PICK c \in Injections(NoNotebook) :
           nb' = [HandleCreate(NoNotebook, c) EXCEPT !.rv = 1]
    BY DEF CreateNotebook
  <2> QED BY <2>1 DEF CreateNotebook, HandleCreate, InjectTemplate,
                      InjectReconciliationLock, NoNotebook
<1>2. Want = "absent" /\ Want' = "locked"
  BY <1>1 DEF Want, Exists
<1>3. LockInSight' = TRUE
  BY <1>1 DEF LockInSight, ReconciliationLockIsEnabled
<1>4. UNCHANGED <<prepared, overridden, unmounted, acts, pod>>
  BY DEF CreateNotebook, bounds, history
<1>5. (acts > 0)' = (acts > 0) /\ pod'.up = pod.up
  BY <1>4
<1> QED BY <1>2, <1>3, <1>4, <1>5 DEF WB!Create

\* An act of the user is one, also when it lifts the lock.
LEMMA UserStep ==
    ASSUME Inv, UserStop \/ UserStart \/ UserRestart \/ UserEdit
    PROVE  WB!UserActs
<1>1. cfg \in Nat /\ nb \in Notebooks /\ nb.rv \in Nat /\ acts \in Nat
      /\ nb.stop \in {NoStop, Lock, Stopped}
  BY ConstantTypes, BoundsAssumption DEF Inv, TypeOK, Notebooks, StopAnnotation
<1>2. /\ Exists(nb) /\ acts' = acts + 1
      /\ UNCHANGED <<prepared, pod, odhC, odh, unmounted>>
  BY DEF UserStop, UserStart, UserRestart, UserEdit, UserPatch, odhVars
<1>3. /\ Exists(nb)'
      /\ \/ nb'.stop = nb.stop /\ overridden' = overridden
         \/ nb'.stop = Stopped /\ overridden' = overridden
         \/ /\ nb'.stop = NoStop /\ nb.stop # NoStop
            /\ overridden' = (overridden \/ ~prepared)
  <2> DEFINE Sent(new) == Put(new)
  <2>1. PICK new \in Notebooks :
           /\ Sent(new)
           /\ \/ new.stop = nb.stop /\ overridden' = overridden
              \/ new.stop = Stopped /\ overridden' = overridden
              \/ /\ new.stop = NoStop /\ nb.stop # NoStop
                 /\ overridden' = (overridden \/ ~prepared)
    <3>1. CASE UserStop
      <4> DEFINE new == [nb EXCEPT !.stop = Stopped]
      <4>1. new \in Notebooks /\ new.stop = Stopped
        BY <1>1 DEF Notebooks, StopAnnotation
      <4>2. Sent(new) /\ overridden' = overridden
        BY <3>1 DEF UserStop, UserPatch
      <4> HIDE DEF new
      <4> QED BY <4>1, <4>2
    <3>2. CASE UserStart
      <4> DEFINE new == [nb EXCEPT !.stop = NoStop]
      <4>1. new \in Notebooks /\ new.stop = NoStop
        BY <1>1 DEF Notebooks, StopAnnotation
      <4>2. Sent(new) /\ overridden' = (overridden \/ ~prepared) /\ nb.stop # NoStop
        BY <3>2 DEF UserStart, UserPatch
      <4> HIDE DEF new
      <4> QED BY <4>1, <4>2
    <3>3. CASE UserRestart
      <4> DEFINE new == [nb EXCEPT !.restart = TRUE]
      <4>1. new \in Notebooks /\ new.stop = nb.stop
        BY <1>1 DEF Notebooks
      <4>2. Sent(new) /\ overridden' = overridden
        BY <3>3 DEF UserRestart, UserPatch
      <4> HIDE DEF new
      <4> QED BY <4>1, <4>2
    <3>4. CASE UserEdit
      <4> DEFINE new == [nb EXCEPT !.user = @ + 1]
      <4>1. new \in Notebooks /\ new.stop = nb.stop
        BY <1>1 DEF Notebooks
      <4>2. Sent(new) /\ overridden' = overridden
        BY <3>4 DEF UserEdit, UserPatch
      <4> HIDE DEF new
      <4> QED BY <4>1, <4>2
    <3> QED BY <3>1, <3>2, <3>3, <3>4
  <2>2. nb'.stop = new.stop /\ (nb' = nb \/ nb'.rv = nb.rv + 1)
    BY <1>1, <2>1, PutFields
  <2>3. Exists(nb)'
    BY <1>1, <1>2, <2>2 DEF Exists
  <2> QED BY <2>1, <2>2, <2>3
<1>4. /\ Want # "absent" /\ (nb.stop = NoStop <=> Want = "started")
      /\ Want' = IF nb'.stop = Lock THEN "locked"
                 ELSE IF nb'.stop = Stopped THEN "stopped" ELSE "started"
      /\ nb'.stop = nb.stop => Want' = Want
      /\ Want' = "locked" <=> nb'.stop = Lock
      /\ Want' = "started" => nb'.stop # Stopped
  BY <1>1, <1>2, <1>3 DEF Want, NoStop, Lock, Stopped
<1>5. Want' \in {Want, "stopped", "started"}
  BY <1>3, <1>4 DEF NoStop, Lock, Stopped
<1>6. IF Want' = "started" /\ Want # "started" /\ ~prepared
      THEN overridden' = TRUE ELSE overridden' = overridden
  <2>1. overridden \in BOOLEAN /\ prepared \in BOOLEAN
    BY DEF Inv, TypeOK
  <2>2. CASE nb'.stop = nb.stop /\ overridden' = overridden
    BY <1>4, <2>2
  <2>3. CASE nb'.stop = Stopped /\ overridden' = overridden
    BY <1>4, <2>3
  <2>4. CASE /\ nb'.stop = NoStop /\ nb.stop # NoStop
             /\ overridden' = (overridden \/ ~prepared)
    <3>1. Want' = "started" /\ Want # "started"
      BY <1>4, <2>4 DEF NoStop, Lock, Stopped
    <3> QED BY <2>1, <2>4, <3>1
  <2> QED BY <1>3, <2>2, <2>3, <2>4
<1>7. LockInSight' \in {LockInSight, Want' = "locked"}
  <2> DEFINE copies == ReconciliationLockIsEnabled(odhC) \/ odh.locked
  <2>1. copies' = copies
    BY <1>2 DEF ReconciliationLockIsEnabled
  <2>2. CASE copies
    BY <2>1, <2>2 DEF LockInSight
  <2>3. CASE ~copies
    <3>1. LockInSight' = (nb'.stop = Lock)
      BY <2>1, <2>3 DEF LockInSight, ReconciliationLockIsEnabled
    <3> QED BY <1>4, <3>1
  <2> QED BY <2>2, <2>3
<1>8. (acts > 0)' = TRUE /\ pod'.up = pod.up
  BY <1>1, <1>2
<1> QED BY <1>2, <1>4, <1>5, <1>6, <1>7, <1>8 DEF WB!UserActs

\* The pod comes only when it may, and goes only when the user has acted or the
\* CA bundle was taken out.
LEMMA PodStep ==
    ASSUME Inv, Inv', UntouchedInv, Next, StsController \/ UpRestart
    PROVE  [WB!Next]_(WB!abstract)
<1>1. UNCHANGED <<nb, prepared, overridden, unmounted, acts, odhC, odh>>
  BY DEF StsController, UpRestart, Spend, bounds, odhVars, history
<1>2. Want' = Want /\ LockInSight' = LockInSight /\ (acts > 0)' = (acts > 0)
  BY <1>1 DEF Want, Exists, LockInSight, ReconciliationLockIsEnabled
<1>3. pod.up \in BOOLEAN /\ acts \in Nat
  BY BoundsAssumption DEF Inv, TypeOK, Pods
<1>4. pod' = pod \/ pod' = NoPod \/ (sts.replicas = 1 /\ pod' = [up |-> TRUE, tmpl |-> sts.tmpl])
  BY DEF StsController, UpRestart
<1>5. pod'.up \in BOOLEAN
  BY DEF Inv, TypeOK, Pods
<1>6. CASE pod'.up = pod.up
  BY <1>1, <1>2, <1>6 DEF WB!abstract
<1>7. CASE pod.up = FALSE /\ pod'.up = TRUE
  <2>1. prepared \/ overridden
    BY <1>4, <1>7 DEF Inv, PreparationInv, Ready, NoPod
  <2>2. WB!PodUp
    BY <1>1, <1>2, <1>7, <2>1 DEF WB!PodUp
  <2> QED BY <2>2 DEF WB!Next
<1>8. CASE pod.up = TRUE /\ pod'.up = FALSE
  <2>1. acts > 0 \/ unmounted
    BY <1>3, <1>8, PodSteps
  <2>2. WB!PodDown
    BY <1>1, <1>2, <1>8, <2>1 DEF WB!PodDown
  <2> QED BY <2>2 DEF WB!Next
<1> QED BY <1>3, <1>5, <1>6, <1>7, <1>8

\* The objects are provided, for a Notebook that exists.
LEMMA ProvideStep ==
    ASSUME Inv, Inv', OdhPrepare PROVE [WB!Next]_(WB!abstract)
<1>1. UNCHANGED <<nb, pod, odhC, overridden, unmounted, acts>>
      /\ odh.pc \in {"prepare", "provide"}
  BY DEF OdhPrepare, Spend, bounds, history
<1>2. Exists(nb)
  BY <1>1 DEF Inv, CacheInv, Idle
<1>3. Want' = Want /\ Want # "absent" /\ (acts > 0)' = (acts > 0)
  BY <1>1, <1>2, WantFacts DEF Want, Exists
<1>4. CASE prepared' = TRUE /\ odh' = [odh EXCEPT !.pc = IF Auth THEN "tls" ELSE "unlock"]
  <2>1. odh'.locked = odh.locked
    BY <1>4 DEF Inv, TypeOK
  <2>2. LockInSight' = LockInSight
    BY <1>1, <2>1 DEF LockInSight, ReconciliationLockIsEnabled
  <2>3. WB!Provide
    BY <1>1, <1>3, <1>4, <2>2 DEF WB!Provide
  <2> QED BY <2>3 DEF WB!Next
<1>5. CASE prepared' = prepared /\ odh' = OdhIdle
  <2>1. LockInSight' => LockInSight
    BY <1>1, <1>5 DEF LockInSight, ReconciliationLockIsEnabled, OdhIdle
  <2> QED BY <1>1, <1>5, <2>1, SettleStep DEF Exists
<1> QED BY <1>4, <1>5 DEF OdhPrepare, OdhFail

\* The CA bundle is taken out of a Notebook that exists.
LEMMA UnmountStep ==
    ASSUME Inv, Next, UnsetNotebookCertConfig PROVE WB!Unmount
<1>1. /\ UNCHANGED <<pod, prepared, overridden, acts, odhC>> /\ unmounted' = TRUE
      /\ odh.pc = "prepare" /\ odh' = [odh EXCEPT !.pc = "provide"]
  BY DEF UnsetNotebookCertConfig, bounds
<1>2. Exists(nb)
  BY <1>1 DEF Inv, CacheInv, Idle
<1>3. Exists(nb)' /\ nb'.stop = nb.stop
  <2>1. nb \in Notebooks /\ odhC \in Notebooks /\ cfg \in Nat /\ nb.rv \in Nat
    BY ConstantTypes DEF Inv, TypeOK, Notebooks
  <2>2. Put(Unset)
    BY DEF UnsetNotebookCertConfig, Unset
  <2>3. nb'.stop = Unset.stop /\ (nb' = nb \/ nb'.rv = nb.rv + 1)
    BY <2>1, <2>2, UnsetFields, PutFields
  <2> QED BY <1>2, <2>1, <2>3, UnsetFields DEF Exists
<1>4. Want # "absent" /\ Want' = Want /\ (acts > 0)' = (acts > 0)
  BY <1>1, <1>2, <1>3, WantFacts DEF Want
<1>5. odh'.locked = odh.locked
  BY <1>1 DEF Inv, TypeOK
<1>6. LockInSight' = LockInSight
  BY <1>1, <1>3, <1>5 DEF LockInSight, ReconciliationLockIsEnabled
<1> QED BY <1>1, <1>4, <1>6 DEF WB!Unmount

\* The lock is removed when it was seen, and after the preparation.
LEMMA ReleaseStep ==
    ASSUME Inv, Next, RemoveReconciliationLock, odh.locked, nb'.stop = NoStop, Exists(nb)'
    PROVE  WB!Release
<1>1. UNCHANGED <<prepared, overridden, unmounted, acts, pod>> /\ odh.pc = "unlock"
  BY DEF RemoveReconciliationLock, bounds, history
<1>2. Exists(nb) /\ prepared
  BY <1>1 DEF Inv, CacheInv, PreparationInv, Idle
<1>3. Want # "absent" /\ Want' = "started"
  BY <1>2, WantFacts DEF Want, NoStop, Lock, Stopped
<1>4. LockInSight /\ LockInSight' \in BOOLEAN
  BY DEF LockInSight
<1>5. (acts > 0)' = (acts > 0) /\ pod'.up = pod.up
  BY <1>1
<1> QED BY <1>1, <1>2, <1>3, <1>4, <1>5 DEF WB!Release

\* Every step is a step of Workbench or a stutter.
LEMMA WorkbenchStep ==
    ASSUME Inv, Inv', UntouchedInv, Next
    PROVE  [WB!Next]_(WB!abstract)
<1>1. CASE User
  <2>1. CASE CreateNotebook
    BY <2>1, CreateStep DEF WB!Next
  <2>2. CASE UserStop \/ UserStart \/ UserRestart \/ UserEdit
    BY <2>2, UserStep DEF WB!Next
  <2>3. CASE ChangeCfg \/ ChangeBundle
    <3>1. UNCHANGED <<nb, pod, prepared, odhC, odh, overridden, unmounted, acts>>
      BY <2>3 DEF ChangeCfg, ChangeBundle, Spend, odhVars, history
    <3> QED BY <3>1, SettleStep DEF LockInSight, ReconciliationLockIsEnabled, Exists
  <2> QED BY <1>1, <2>1, <2>2, <2>3 DEF User
<1>2. CASE StsController \/ UpRestart
  BY <1>2, PodStep
<1>3. CASE OdhPrepare
  BY <1>3, ProvideStep
<1>4. CASE /\ ~User /\ ~StsController /\ ~UpRestart
           /\ ~OdhPrepare /\ ~UnsetNotebookCertConfig
  <2>1. UNCHANGED <<pod, prepared, overridden, unmounted, acts>>
    BY <1>4
    DEF Next, Cluster, SyncUp, SyncSts, SyncOdh, UpReconcile, UpStart, UpStatefulSet,
        UpStatus, UpClearRestart, UpCrash, OdhReconcile, OdhStart, OdhAddFinalizers,
        OdhTLS, OdhMLflowWait, RemoveReconciliationLock, OdhProfileReload, OdhCrash,
        OdhReboot, Spend, bounds, world, history
  <2>2. CASE ~Exists(nb)
    <3>1. Idle(up) /\ Idle(odh) /\ ~Exists(upC) /\ ~Exists(odhC) /\ odhC = nb
      BY <2>2 DEF Inv, CacheInv, Exists, TypeOK, Notebooks
    <3>2. nb' = nb /\ odhC' = nb /\ (odh' = odh \/ odh' = OdhIdle)
      BY <1>4, <3>1
      DEF Next, Cluster, SyncUp, SyncSts, SyncOdh, UpReconcile, UpStart, UpStatefulSet,
          UpStatus, UpClearRestart, UpCrash, OdhReconcile, OdhStart, OdhAddFinalizers,
          OdhTLS, OdhMLflowWait, RemoveReconciliationLock, OdhProfileReload, OdhCrash,
          OdhReboot, world, odhVars, Idle
    <3>3. LockInSight' => LockInSight
      BY <3>1, <3>2 DEF LockInSight, ReconciliationLockIsEnabled, OdhIdle
    <3> QED BY <2>1, <3>2, <3>3, SettleStep DEF Exists
  <2>3. CASE Exists(nb)
    <3>1. /\ Exists(nb)'
          /\ \/ nb'.stop = nb.stop
             \/ RemoveReconciliationLock /\ odh.locked /\ nb'.stop = NoStop
      BY <1>4, <2>3, ControllerWrites
    <3>2. CASE RemoveReconciliationLock /\ odh.locked /\ nb'.stop = NoStop
      BY <3>1, <3>2, ReleaseStep DEF WB!Next
    <3>3. CASE nb'.stop = nb.stop
      <4>1. odhC' = odhC \/ odhC' = nb
        BY <1>4
        DEF Next, Cluster, SyncUp, SyncSts, SyncOdh, UpReconcile, UpStart, UpStatefulSet,
            UpStatus, UpClearRestart, UpCrash, OdhReconcile, OdhStart, OdhAddFinalizers,
            OdhTLS, OdhMLflowWait, RemoveReconciliationLock, OdhProfileReload, OdhCrash,
            OdhReboot, odhVars
      <4>2. \/ odh' = odh \/ odh' = OdhIdle
            \/ odh' = [odh EXCEPT !.pc = "unlock"]
            \/ odh'.locked = ReconciliationLockIsEnabled(odhC)
        BY <1>4
        DEF Next, Cluster, SyncUp, SyncSts, SyncOdh, UpReconcile, UpStart, UpStatefulSet,
            UpStatus, UpClearRestart, UpCrash, OdhReconcile, OdhStart, OdhAddFinalizers,
            OdhTLS, OdhMLflowWait, RemoveReconciliationLock, OdhProfileReload, OdhCrash,
            OdhReboot, OdhFail, odhVars
      <4>3. odh'.locked => odh.locked \/ ReconciliationLockIsEnabled(odhC)
        <5>1. ~OdhIdle.locked
          BY DEF OdhIdle
        <5>2. [odh EXCEPT !.pc = "unlock"].locked = odh.locked
          BY DEF Inv, TypeOK
        <5> QED BY <4>2, <5>1, <5>2
      <4>4. LockInSight' => LockInSight
        BY <3>3, <4>1, <4>3 DEF LockInSight, ReconciliationLockIsEnabled
      <4> QED BY <2>1, <2>3, <3>1, <3>3, <4>4, SettleStep
    <3> QED BY <3>1, <3>2, <3>3
  <2> QED BY <2>2, <2>3
<1>5. CASE UnsetNotebookCertConfig
  BY <1>5, UnmountStep DEF WB!Next
<1> QED BY <1>1, <1>2, <1>3, <1>4, <1>5

\* The two controllers, the webhook and Kubernetes together keep the promise of
\* Workbench: a new workbench is locked, handed over once and after the
\* preparation, and what runs is taken down only if the user has acted or the CA
\* bundle was found missing, whatever is read late, refused, repeated or lost on
\* the way.
THEOREM Refinement == Spec => ImplementsWorkbench
<1>1. Inv /\ Inv' /\ UntouchedInv /\ [Next]_vars => [WB!Next]_(WB!abstract)
  <2> SUFFICES ASSUME Inv, Inv', UntouchedInv, [Next]_vars
               PROVE  [WB!Next]_(WB!abstract)
    OBVIOUS
  <2>1. CASE Next
    BY <2>1, WorkbenchStep
  <2>2. CASE UNCHANGED vars
    <3>1. UNCHANGED <<nb, pod, prepared, odhC, odh, overridden, unmounted, acts>>
      BY <2>2 DEF vars, world, odhVars, bounds, history
    <3> QED BY <3>1, SettleStep DEF LockInSight, ReconciliationLockIsEnabled, Exists
  <2> QED BY <2>1, <2>2
<1> QED BY <1>1, WorkbenchInit, Invariance, UntouchedInvariance, PTL
        DEF Spec, ImplementsWorkbench, WB!Spec

================================================================================

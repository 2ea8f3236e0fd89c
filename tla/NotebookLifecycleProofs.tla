------------------------ MODULE NotebookLifecycleProofs ------------------------
(***************************************************************************)
(* Proofs about NotebookLifecycle, for every bound and every set of        *)
(* configurations.  All of them rest on one inductive invariant, Inv:      *)
(* what a cache or a running reconcile holds is at most as new as what is  *)
(* stored, and equal to it at the same version (CacheInv); and nothing     *)
(* that leads to a pod, from the annotation over the cache and the running *)
(* reconcile to the StatefulSet, is ready before the preparation           *)
(* (PreparationInv).                                                       *)
(***************************************************************************)
EXTENDS NotebookLifecycle, TLAPS

\* Everything is provided, or the user did not wait for it.
Ready == prepared \/ overridden

\* A Notebook that asks for a pod.
Cleared(n) == Exists(n) /\ n.stop = NoStop

CacheInv ==
    /\ odhC.rv <= nb.rv
    /\ odhC.rv = nb.rv => odhC = nb
    /\ ~Exists(nb) => nb = NoNotebook
    /\ Exists(upC) \/ ~Idle(up) \/ ~Idle(odh) => Exists(nb)

FinalizersInv ==
    /\ odhC.fin => nb.fin
    /\ odh.pc \in {"prepare", "provide", "tls", "unlock"} => nb.fin
    /\ prepared => nb.fin

PreparationInv ==
    /\ odh.pc \in {"tls", "unlock"} => prepared
    /\ Cleared(nb) => Ready
    /\ Cleared(upC) => Ready
    /\ up.pc = "statefulset" /\ Cleared(up.inst) => Ready
    /\ up.pc = "statefulset" => Exists(up.inst)
    /\ sts.replicas = 1 => Ready
    /\ pod.up => Ready

Inv == TypeOK /\ CacheInv /\ FinalizersInv /\ PreparationInv

--------------------------------------------------------------------------------
\* Admission keeps every field but the injected template and the mark of a
\* pending update, and a write that changes anything makes a new version.
LEMMA WrittenFields ==
    ASSUME NEW old \in Notebooks, NEW new \in Notebooks, NEW c \in Injected
    PROVE  /\ Written(old, new, c) \in Notebooks
           /\ Written(old, new, c).stop = new.stop
           /\ Written(old, new, c).restart = new.restart
           /\ Written(old, new, c).user = new.user
           /\ Written(old, new, c).fin = new.fin
           /\ Written(old, new, c) = old \/ Written(old, new, c).rv = old.rv + 1
<1> DEFINE h == HandleUpdate(old, new, c)
<1>1. /\ h \in Notebooks
      /\ h.stop = new.stop /\ h.restart = new.restart
      /\ h.user = new.user /\ h.fin = new.fin
  BY DEF HandleUpdate, maybeRestartRunningNotebook, InjectTemplate, Notebooks,
         UpdatePending
<1>2. CASE [h EXCEPT !.rv = old.rv] = old
  <2>1. Written(old, new, c) = old
    BY <1>2 DEF Written, Stored
  <2>2. /\ old.stop = h.stop /\ old.restart = h.restart
        /\ old.user = h.user /\ old.fin = h.fin
    BY <1>1, <1>2 DEF Notebooks
  <2> QED BY <1>1, <2>1, <2>2
<1>3. CASE [h EXCEPT !.rv = old.rv] # old
  <2>1. Written(old, new, c) = [h EXCEPT !.rv = old.rv + 1]
    BY <1>3 DEF Written, Stored
  <2> QED BY <1>1, <2>1 DEF Notebooks
<1> QED BY <1>2, <1>3

\* A write that asks for neither a stop nor a restart and leaves the injected
\* template alone is not given another one, unless the user's part changed.
LEMMA WrittenTemplate ==
    ASSUME NEW old \in Notebooks, NEW new \in Notebooks, NEW c \in Injected,
           new.inj = old.inj, new.stop = NoStop, ~new.restart,
           Written(old, new, c).inj # old.inj
    PROVE  new.user # old.user
<1> DEFINE h == HandleUpdate(old, new, c)
<1>1. h \in Notebooks
  BY DEF HandleUpdate, maybeRestartRunningNotebook, InjectTemplate, Notebooks,
         UpdatePending
<1>2. h.inj # old.inj
  BY <1>1 DEF Written, Stored, Notebooks
<1>3. new.user = old.user => h.inj = old.inj
  BY DEF HandleUpdate, maybeRestartRunningNotebook, InjectTemplate, Notebooks,
         UpdatePending, Template
<1> QED BY <1>2, <1>3

\* What the webhook may inject is of its type.
LEMMA InjectionsTyped ==
    ASSUME cfg \in Nat, NEW new \in Notebooks
    PROVE  Injections(new) \subseteq Injected
<1>1. new.inj.ca \in Nat
  BY DEF Notebooks, Injected
<1>2. \A order \in IF new.inj.ca # 0 THEN {new.inj.ca}
                   ELSE IF bundle THEN Orders ELSE {0} : order \in Nat
  BY <1>1, OrdersAssumption
<1> QED BY <1>2 DEF Injections, Injected

\* The same two facts about a write of the stored Notebook, whatever the webhook
\* finds to inject.
LEMMA PutFields ==
    ASSUME nb \in Notebooks, cfg \in Nat, NEW new \in Notebooks, Put(new)
    PROVE  /\ nb' \in Notebooks
           /\ nb'.stop = new.stop /\ nb'.restart = new.restart
           /\ nb'.user = new.user /\ nb'.fin = new.fin
           /\ nb' = nb \/ nb'.rv = nb.rv + 1
<1>1. PICK c \in Injections(new) : nb' = Written(nb, new, c)
  BY DEF Put
<1>2. c \in Injected
  BY <1>1, InjectionsTyped
<1> QED BY <1>1, <1>2, WrittenFields

\* A write that changes the injected part of a Notebook that is neither stopped
\* nor restarting, and does not itself name another injected part, changes the
\* user's part too (maybeRestartRunningNotebook).
LEMMA PutTemplate ==
    ASSUME nb \in Notebooks, cfg \in Nat, NEW new \in Notebooks, Put(new),
           new.inj = nb.inj, new.stop = NoStop, ~new.restart, nb'.inj # nb.inj
    PROVE  new.user # nb.user
<1>1. PICK c \in Injections(new) : nb' = Written(nb, new, c)
  BY DEF Put
<1>2. c \in Injected
  BY <1>1, InjectionsTyped
<1> QED BY <1>1, <1>2, WrittenTemplate

\* What UnsetNotebookCertConfig sends.
Unset == [nb EXCEPT !.user = odhC.user, !.inj = [odhC.inj EXCEPT !.ca = 0]]

\* It is a Notebook that differs from the stored one in the pod template only.
LEMMA UnsetFields ==
    ASSUME nb \in Notebooks, odhC \in Notebooks
    PROVE  /\ Unset \in Notebooks
           /\ Unset.stop = nb.stop /\ Unset.restart = nb.restart
           /\ Unset.fin = nb.fin
<1>1. [odhC.inj EXCEPT !.ca = 0] \in Injected /\ odhC.user \in Nat
  BY DEF Notebooks, Injected
<1> QED BY <1>1 DEF Unset, Notebooks

\* What reconcileKubeRbacProxyTLS wants stored differs from what it read in
\* the injected template and the mark only, and in the template only if a stop
\* or a restart is asked for.
LEMMA TLSFields ==
    ASSUME NEW n \in Notebooks, cfg \in Nat
    PROVE  LET w == reconcileKubeRbacProxyTLS(n) IN
           /\ w \in Notebooks
           /\ w.rv = n.rv /\ w.stop = n.stop /\ w.restart = n.restart
           /\ w.user = n.user /\ w.fin = n.fin
           /\ n.stop = NoStop /\ ~n.restart => w.inj = n.inj
<1>1. [n.inj EXCEPT !.tls = cfg] \in Injected
  BY DEF Notebooks, Injected
<1> QED BY <1>1 DEF reconcileKubeRbacProxyTLS, deferRunningNotebookTLS,
                    notebookDefersPodTemplateChange, Notebooks, UpdatePending

\* The constant records are of their types: absent objects and idle reconciles.
LEMMA ConstantTypes ==
           /\ Cfgs \subseteq Nat
           /\ NoNotebook \in Notebooks
           /\ NoSts \in StatefulSets
           /\ NoPod \in Pods
           /\ UpIdle \in [pc: UpPcs, inst: Notebooks]
           /\ OdhIdle \in [pc: OdhPcs, locked: BOOLEAN]
<1>1. Cfgs \subseteq Nat
  BY CfgsAssumption
<1>2. NoNotebook \in Notebooks
  BY DEF NoNotebook, Notebooks, Injected, StopAnnotation, UpdatePending, NoStop
<1>3. Template(NoNotebook) \in Templates
  BY <1>2 DEF Template, Templates, Notebooks
<1>4. NoSts \in StatefulSets /\ NoPod \in Pods
  BY <1>3 DEF NoSts, NoPod, StatefulSets, Pods
<1> QED BY <1>1, <1>2, <1>4 DEF UpIdle, OdhIdle, UpPcs, OdhPcs

\* Every initial state satisfies the invariant.
LEMMA InitInv == Init => Inv
<1> SUFFICES ASSUME Init PROVE Inv
  OBVIOUS
<1>1. TypeOK
  <2>1. acts \in 0..MaxActs /\ faults \in 0..MaxFaults
    BY BoundsAssumption DEF Init
  <2>2. /\ prepared \in BOOLEAN /\ upQ \in BOOLEAN /\ odhQ \in BOOLEAN
        /\ overridden \in BOOLEAN /\ unmounted \in BOOLEAN /\ bundle \in BOOLEAN
    BY Zenon DEF Init
  <2>3. cfg \in Cfgs /\ bootCfg \in Cfgs
    BY CfgsAssumption DEF Init
  <2> QED BY <2>1, <2>2, <2>3, ConstantTypes, Zenon DEF Init, TypeOK
<1>2. CacheInv /\ FinalizersInv /\ PreparationInv
  BY DEF Init, CacheInv, FinalizersInv, PreparationInv, Cleared, Exists, Idle,
         NoNotebook, NoSts, NoPod, UpIdle, OdhIdle
<1> QED BY <1>1, <1>2 DEF Inv

--------------------------------------------------------------------------------
(* Steps that write the Notebook.  Each of them makes a new version of it, *)
(* or leaves it alone, and takes no finalizer away.                        *)

\* A write of the Notebook that keeps the invariant: it makes a newer version
\* or none, keeps the finalizers, and clears the stop annotation only of a
\* workbench that is ready.
GoodWrite ==
    /\ nb' \in Notebooks
    /\ nb' = nb \/ nb'.rv = nb.rv + 1
    /\ nb.fin => nb'.fin
    /\ nb'.stop = NoStop => nb.stop = NoStop \/ Ready'

\* A write through admission is one, if what is sent is.
LEMMA AcceptedWrite ==
    ASSUME nb \in Notebooks, cfg \in Nat, NEW new \in Notebooks,
           nb' = nb \/ Put(new),
           nb.fin => new.fin,
           new.stop = NoStop => nb.stop = NoStop \/ Ready'
    PROVE  GoodWrite
<1>1. CASE nb' = nb
  BY <1>1 DEF GoodWrite
<1>2. CASE Put(new)
  <2>1. /\ nb' \in Notebooks
        /\ nb'.stop = new.stop
        /\ nb'.fin = new.fin
        /\ nb' = nb \/ nb'.rv = nb.rv + 1
    BY <1>2, PutFields
  <2> QED BY <2>1 DEF GoodWrite
<1> QED BY <1>1, <1>2

\* The parts of the invariant that speak of the stored Notebook survive such a
\* write, as long as the rest of what they speak of is left alone.
LEMMA GoodWriteInv ==
    ASSUME Inv, Exists(nb), GoodWrite,
           prepared => prepared', overridden => overridden',
           odhC' = odhC, upC' = upC
    PROVE  /\ CacheInv'
           /\ odhC'.fin => nb'.fin
           /\ prepared => nb'.fin
           /\ odh.pc \in {"prepare", "provide", "tls", "unlock"} => nb'.fin
           /\ Cleared(nb)' => Ready'
           /\ Cleared(upC)' => Ready'
<1> USE DEF Inv, GoodWrite
<1>1. nb.rv \in Nat /\ odhC.rv \in Nat /\ nb'.rv \in Nat
  BY DEF TypeOK, Notebooks
<1>2. CacheInv'
  <2>1. CASE nb' = nb
    BY <2>1 DEF CacheInv, Exists, Idle
  <2>2. CASE nb'.rv = nb.rv + 1
    BY <1>1, <2>2 DEF CacheInv, Exists, Idle
  <2> QED BY <2>1, <2>2
<1>3. /\ odhC'.fin => nb'.fin
      /\ prepared => nb'.fin
      /\ odh.pc \in {"prepare", "provide", "tls", "unlock"} => nb'.fin
  BY DEF FinalizersInv
<1>4. Cleared(nb)' => Ready'
  BY DEF PreparationInv, Cleared, Ready, Exists
<1>5. Cleared(upC)' => Ready'
  BY DEF PreparationInv, Cleared, Ready, Exists
<1> QED BY <1>2, <1>3, <1>4, <1>5

\* A new Notebook is locked: creating it makes nothing ready.
LEMMA CreateNotebookInv == Inv /\ CreateNotebook => Inv'
<1> SUFFICES ASSUME Inv, CreateNotebook PROVE Inv'
  OBVIOUS
<1> USE DEF Inv
<1>1. /\ nb' \in Notebooks
      /\ nb'.rv = 1 /\ nb'.stop = Lock /\ nb'.fin = FALSE
  <2>1. cfg \in Nat /\ NoNotebook \in Notebooks /\ NoNotebook.fin = FALSE
    BY ConstantTypes DEF TypeOK, NoNotebook
  <2>2. PICK c \in Injections(NoNotebook) :
           nb' = [HandleCreate(NoNotebook, c) EXCEPT !.rv = 1]
    BY DEF CreateNotebook
  <2>3. c \in Injected
    BY <2>1, <2>2, InjectionsTyped
  <2> QED BY <2>1, <2>2, <2>3
          DEF HandleCreate, InjectTemplate, InjectReconciliationLock, Notebooks,
              StopAnnotation, UpdatePending, Lock
<1>2. nb = NoNotebook /\ odhC = NoNotebook
  BY DEF CreateNotebook, Exists, TypeOK, Notebooks, CacheInv, NoNotebook
<1>3. TypeOK'
  BY <1>1 DEF CreateNotebook, TypeOK, upVars, odhVars, bounds, history
<1>4. CacheInv' /\ FinalizersInv'
  BY <1>1, <1>2 DEF CreateNotebook, CacheInv, FinalizersInv, NoNotebook, Exists,
                    odhVars
<1>5. PreparationInv'
  BY <1>1 DEF CreateNotebook, PreparationInv, Cleared, Ready, Exists, Lock, NoStop,
              upVars, odhVars, history
<1> QED BY <1>3, <1>4, <1>5

\* Patches of users: nothing but the Notebook and the history changes.
LEMMA UserPatchInv ==
    ASSUME Inv, NEW new \in Notebooks, UserPatch(new),
           new.fin = nb.fin,
           new.stop = NoStop => nb.stop = NoStop \/ Ready',
           overridden => overridden',
           overridden' \in BOOLEAN
    PROVE  Inv'
<1> USE DEF Inv
<1>1. cfg \in Nat /\ nb \in Notebooks
  BY ConstantTypes DEF TypeOK
<1>2. Put(new)
  BY DEF UserPatch
<1>3. GoodWrite
  BY <1>1, <1>2, AcceptedWrite
<1>4. TypeOK'
  <2>1. acts' \in 0..MaxActs
    BY BoundsAssumption DEF UserPatch, TypeOK
  <2> QED BY <1>3, <2>1 DEF GoodWrite, UserPatch, TypeOK, upVars, odhVars
<1>5. prepared' = prepared /\ odhC' = odhC /\ upC' = upC
  BY DEF UserPatch, upVars, odhVars
<1>6. /\ CacheInv'
      /\ odhC'.fin => nb'.fin
      /\ prepared => nb'.fin
      /\ odh.pc \in {"prepare", "provide", "tls", "unlock"} => nb'.fin
      /\ Cleared(nb)' => Ready'
      /\ Cleared(upC)' => Ready'
  BY <1>3, <1>5, GoodWriteInv DEF UserPatch
<1>7. FinalizersInv' /\ PreparationInv'
  BY <1>5, <1>6 DEF FinalizersInv, PreparationInv, UserPatch, upVars, odhVars,
                    Ready, Cleared, Exists, Idle
<1> QED BY <1>4, <1>6, <1>7

\* No act of a user or an administrator breaks the invariant: starting a locked
\* workbench by hand is recorded as overriding.
LEMMA UserInv == Inv /\ User => Inv'
<1> SUFFICES ASSUME Inv, User PROVE Inv'
  OBVIOUS
<1> USE DEF Inv
<1>1. nb \in Notebooks /\ overridden \in BOOLEAN /\ prepared \in BOOLEAN
  BY DEF TypeOK
<1>2. CASE CreateNotebook
  BY <1>2, CreateNotebookInv
<1>3. CASE UserStop
  <2> DEFINE new == [nb EXCEPT !.stop = Stopped]
  <2>1. new \in Notebooks /\ new.fin = nb.fin /\ new.stop # NoStop
    BY <1>1 DEF Notebooks, StopAnnotation, Stopped, NoStop
  <2>2. UserPatch(new) /\ overridden' = overridden
    BY <1>3 DEF UserStop
  <2> QED BY <1>1, <2>1, <2>2, UserPatchInv
<1>4. CASE UserStart
  <2> DEFINE new == [nb EXCEPT !.stop = NoStop]
  <2>1. new \in Notebooks /\ new.fin = nb.fin
    BY <1>1 DEF Notebooks, StopAnnotation
  <2>2. UserPatch(new) /\ overridden' = (overridden \/ ~prepared)
    BY <1>4 DEF UserStart
  <2>3. overridden' \in BOOLEAN /\ (overridden => overridden')
    BY <2>2, Zenon
  <2>4. Ready'
    BY <2>2, <1>1 DEF UserPatch, Ready
  <2> QED BY <1>1, <2>1, <2>2, <2>3, <2>4, UserPatchInv
<1>5. CASE UserRestart
  <2> DEFINE new == [nb EXCEPT !.restart = TRUE]
  <2>1. new \in Notebooks /\ new.fin = nb.fin /\ new.stop = nb.stop
    BY <1>1 DEF Notebooks
  <2>2. UserPatch(new) /\ overridden' = overridden
    BY <1>5 DEF UserRestart
  <2> QED BY <1>1, <2>1, <2>2, UserPatchInv
<1>6. CASE UserEdit
  <2> DEFINE new == [nb EXCEPT !.user = @ + 1]
  <2>1. new \in Notebooks /\ new.fin = nb.fin /\ new.stop = nb.stop
    BY <1>1 DEF Notebooks
  <2>2. UserPatch(new) /\ overridden' = overridden
    BY <1>6 DEF UserEdit
  <2> QED BY <1>1, <2>1, <2>2, UserPatchInv
<1>7. CASE ChangeCfg
  <2>1. TypeOK'
    BY <1>7, BoundsAssumption DEF ChangeCfg, Spend, TypeOK, upVars, odhVars, history
  <2>2. CacheInv' /\ FinalizersInv' /\ PreparationInv'
    BY <1>7 DEF ChangeCfg, CacheInv, FinalizersInv, PreparationInv, upVars, odhVars,
                history, Ready, Cleared, Exists, Idle
  <2> QED BY <2>1, <2>2
<1>8. CASE ChangeBundle
  <2>1. bundle' \in BOOLEAN
    BY <1>8 DEF ChangeBundle
  <2>2. TypeOK'
    BY <1>8, <2>1, BoundsAssumption DEF ChangeBundle, Spend, TypeOK, upVars, odhVars,
                                        history
  <2>3. CacheInv' /\ FinalizersInv' /\ PreparationInv'
    BY <1>8 DEF ChangeBundle, CacheInv, FinalizersInv, PreparationInv, upVars, odhVars,
                history, Ready, Cleared, Exists, Idle
  <2> QED BY <2>2, <2>3
<1> QED BY <1>2, <1>3, <1>4, <1>5, <1>6, <1>7, <1>8 DEF User

--------------------------------------------------------------------------------
(* Informers and the StatefulSet controller.                               *)

\* A cache that catches up and a pod that follows its StatefulSet pass on what
\* was ready before.
LEMMA ClusterInv == Inv /\ Cluster => Inv'
<1> SUFFICES ASSUME Inv, Cluster PROVE Inv'
  OBVIOUS
<1> USE DEF Inv
<1>1. CASE SyncUp
  <2>1. TypeOK'
    BY <1>1 DEF SyncUp, TypeOK, world, odhVars, bounds, history
  <2>2. CacheInv' /\ FinalizersInv' /\ PreparationInv'
    BY <1>1 DEF SyncUp, CacheInv, FinalizersInv, PreparationInv, world, odhVars,
                history, Ready, Cleared, Exists, Idle
  <2> QED BY <2>1, <2>2
<1>2. CASE SyncSts
  <2>1. TypeOK'
    BY <1>2 DEF SyncSts, TypeOK, world, odhVars, bounds, history
  <2>2. CacheInv' /\ FinalizersInv' /\ PreparationInv'
    BY <1>2 DEF SyncSts, CacheInv, FinalizersInv, PreparationInv, world, odhVars,
                history, Ready, Cleared, Exists, Idle
  <2> QED BY <2>1, <2>2
<1>3. CASE SyncOdh
  <2>1. TypeOK'
    BY <1>3 DEF SyncOdh, TypeOK, world, upVars, bounds, history
  <2>2. CacheInv' /\ FinalizersInv' /\ PreparationInv'
    BY <1>3 DEF SyncOdh, CacheInv, FinalizersInv, PreparationInv, world, upVars,
                history, Ready, Cleared, Exists, Idle, TypeOK, Notebooks
  <2> QED BY <2>1, <2>2
<1>4. CASE StsController
  <2>1. pod' \in Pods
    <3>1. sts.tmpl \in Templates
      BY DEF TypeOK, StatefulSets
    <3>2. [up |-> TRUE, tmpl |-> sts.tmpl] \in Pods
      BY <3>1, Zenon DEF Pods
    <3> QED BY <1>4, <3>2, ConstantTypes DEF StsController
  <2>2. TypeOK'
    BY <1>4, <2>1 DEF StsController, TypeOK, odhVars, bounds, history
  <2>3. pod'.up => Ready
    BY <1>4 DEF StsController, PreparationInv, NoPod
  <2>4. CacheInv' /\ FinalizersInv' /\ PreparationInv'
    BY <1>4, <2>3 DEF StsController, CacheInv, FinalizersInv, PreparationInv,
                      odhVars, history, Ready, Cleared, Exists, Idle
  <2> QED BY <2>2, <2>4
<1> QED BY <1>1, <1>2, <1>3, <1>4 DEF Cluster
--------------------------------------------------------------------------------
(* notebook-controller.                                                    *)

\* What the reconcile may be about after a step that leaves "statefulset".
LEMMA UpTypes ==
    ASSUME NEW n \in Notebooks, NEW pc \in UpPcs
    PROVE  /\ VersionOf(n) \in Notebooks
           /\ [pc |-> pc, inst |-> n] \in [pc: UpPcs, inst: Notebooks]
           /\ [pc |-> pc, inst |-> VersionOf(n)] \in [pc: UpPcs, inst: Notebooks]
<1>1. VersionOf(n) \in Notebooks
  BY ConstantTypes DEF VersionOf, Notebooks
<1> QED BY <1>1

\* Reconcile of notebook-controller begins with the cached Notebook.
LEMMA UpStartInv == Inv /\ UpStart => Inv'
<1> SUFFICES ASSUME Inv, UpStart PROVE Inv'
  OBVIOUS
<1> USE DEF Inv
<1>1. up' = [pc |-> "statefulset", inst |-> upC] /\ Exists(upC)
  BY DEF UpStart
<1>2. up' \in [pc: UpPcs, inst: Notebooks]
  BY <1>1, UpTypes DEF TypeOK, UpPcs
<1>3. TypeOK'
  BY <1>2 DEF UpStart, TypeOK, world, odhVars, bounds, history
<1>4. CacheInv' /\ FinalizersInv' /\ PreparationInv'
  BY <1>1 DEF UpStart, CacheInv, FinalizersInv, PreparationInv, world, odhVars,
              history, Ready, Cleared, Exists, Idle
<1> QED BY <1>3, <1>4

\* It gives a replica only to a workbench that is ready, even from an old read.
LEMMA UpStatefulSetInv == Inv /\ UpStatefulSet => Inv'
<1> SUFFICES ASSUME Inv, UpStatefulSet PROVE Inv'
  OBVIOUS
<1> USE DEF Inv
<1> DEFINE ss == generateStatefulSet(up.inst)
<1>1. up.pc = "statefulset" /\ up.inst \in Notebooks
  BY DEF UpStatefulSet, TypeOK
<1>2. ss.replicas \in {0, 1} /\ ss.tmpl \in Templates
  BY <1>1 DEF generateStatefulSet, Template, Templates, Notebooks
<1>3. ss.replicas = 1 => Ready
  BY <1>1 DEF generateStatefulSet, PreparationInv, Cleared
<1>4. up' \in {UpIdle, [pc |-> "status", inst |-> VersionOf(up.inst)]}
  BY DEF UpStatefulSet, UpFail
<1>5. up' \in [pc: UpPcs, inst: Notebooks] /\ up'.pc # "statefulset"
  BY <1>1, <1>4, UpTypes, ConstantTypes DEF UpPcs, UpIdle
<1>6. \/ sts' = sts
      \/ sts' = [rv |-> 1, replicas |-> ss.replicas, tmpl |-> ss.tmpl]
      \/ sts' = [rv |-> sts.rv + 1, replicas |-> ss.replicas, tmpl |-> ss.tmpl]
  BY DEF UpStatefulSet
<1>7. sts' \in StatefulSets /\ (sts'.replicas = 1 => Ready)
  <2>1. sts \in StatefulSets /\ sts.rv \in Nat
    BY DEF TypeOK, StatefulSets
  <2> HIDE DEF ss
  <2> QED BY <1>2, <1>3, <1>6, <2>1 DEF StatefulSets, PreparationInv
<1>8. upQ' \in BOOLEAN
  BY DEF UpStatefulSet, UpFail, TypeOK
<1>9. TypeOK'
  BY <1>5, <1>7, <1>8 DEF UpStatefulSet, TypeOK, odhVars, bounds, history
<1>10. CacheInv' /\ FinalizersInv' /\ PreparationInv'
  BY <1>5, <1>7 DEF UpStatefulSet, CacheInv, FinalizersInv, PreparationInv, odhVars,
                    history, Ready, Cleared, Exists, Idle
<1> QED BY <1>9, <1>10

\* Status, and the restart annotation taken off.
LEMMA UpWriteInv ==
    ASSUME Inv, UpStatus \/ UpClearRestart
    PROVE  Inv'
<1> USE DEF Inv
<1>1. cfg \in Nat /\ nb \in Notebooks /\ up.inst \in Notebooks
  BY ConstantTypes DEF TypeOK
<1>2. up.inst.rv = nb.rv \/ nb' = nb
  BY DEF UpStatus, UpClearRestart
<1>3. /\ nb' \in Notebooks
      /\ nb' = nb \/ nb'.rv = nb.rv + 1
      /\ nb'.fin = nb.fin /\ nb'.stop = nb.stop
  <2>1. CASE UpStatus
    <3>1. nb' = nb \/ nb' = [nb EXCEPT !.rv = @ + 1]
      BY <2>1 DEF UpStatus
    <3> QED BY <1>1, <3>1 DEF Notebooks
  <2>2. CASE UpClearRestart
    <3> DEFINE new == [nb EXCEPT !.restart = FALSE]
    <3>1. new \in Notebooks /\ new.fin = nb.fin /\ new.stop = nb.stop
      BY <1>1 DEF Notebooks
    <3>2. nb' = nb \/ Put(new)
      BY <2>2 DEF UpClearRestart
    <3> HIDE DEF new
    <3> QED BY <1>1, <3>1, <3>2, PutFields
  <2> QED BY <2>1, <2>2
<1>4. up' \in [pc: UpPcs, inst: Notebooks] /\ up'.pc # "statefulset"
  <2>1. up' \in {UpIdle, [pc |-> "restart", inst |-> VersionOf(nb')]}
    BY DEF UpStatus, UpClearRestart, UpFail
  <2> QED BY <1>3, <2>1, UpTypes, ConstantTypes DEF UpPcs, UpIdle
<1>5. upQ' \in BOOLEAN /\ acts' \in 0..MaxActs /\ faults' \in 0..MaxFaults
  <2>1. upQ' = TRUE \/ upQ' = upQ
    BY DEF UpStatus, UpClearRestart, UpFail
  <2>2. acts' = acts /\ (faults' = faults \/ (faults < MaxFaults /\ faults' = faults + 1))
    BY DEF UpStatus, UpClearRestart, Spend, bounds
  <2>3. upQ' \in BOOLEAN
    BY <2>1, Zenon DEF TypeOK
  <2> QED BY <2>2, <2>3, BoundsAssumption DEF TypeOK
<1>6. /\ UNCHANGED <<sts, pod, prepared, cfg, bundle, upC, stsC, overridden, unmounted>>
      /\ UNCHANGED <<odhC, odhQ, odh, bootCfg>>
  BY DEF UpStatus, UpClearRestart, odhVars, history
<1>7. TypeOK'
  BY <1>3, <1>4, <1>5, <1>6 DEF TypeOK
<1>8. Exists(nb)
  BY DEF UpStatus, UpClearRestart, CacheInv, Idle
<1>9. GoodWrite
  BY <1>3, <1>8 DEF GoodWrite
<1>10. /\ CacheInv'
       /\ odhC'.fin => nb'.fin
       /\ prepared => nb'.fin
       /\ odh.pc \in {"prepare", "provide", "tls", "unlock"} => nb'.fin
       /\ Cleared(nb)' => Ready'
       /\ Cleared(upC)' => Ready'
  BY <1>6, <1>8, <1>9, GoodWriteInv
<1>11. FinalizersInv' /\ PreparationInv'
  BY <1>4, <1>6, <1>10 DEF FinalizersInv, PreparationInv, Ready, Cleared, Exists, Idle
<1> QED BY <1>7, <1>10, <1>11

\* A restart takes a pod down and nothing else.
LEMMA UpRestartInv == Inv /\ UpRestart => Inv'
<1> SUFFICES ASSUME Inv, UpRestart PROVE Inv'
  OBVIOUS
<1> USE DEF Inv
<1>1. /\ pod' = pod \/ pod' = NoPod
      /\ upQ' = TRUE
      /\ up' \in {UpIdle, [up EXCEPT !.pc = "clear"]}
      /\ acts' = acts /\ (faults' = faults \/ (faults < MaxFaults /\ faults' = faults + 1))
  BY DEF UpRestart, UpFail, Spend, bounds
<1>2. up' \in [pc: UpPcs, inst: Notebooks] /\ up'.pc # "statefulset"
  BY <1>1, ConstantTypes DEF TypeOK, UpPcs, UpIdle
<1>3. pod' \in Pods /\ (pod'.up => pod.up)
  <2>1. pod \in Pods /\ NoPod \in Pods
    BY ConstantTypes DEF TypeOK
  <2>2. ~NoPod.up
    BY DEF NoPod
  <2> QED BY <1>1, <2>1, <2>2
<1>4. acts' \in 0..MaxActs /\ faults' \in 0..MaxFaults
  BY <1>1, BoundsAssumption DEF TypeOK
<1>5. UNCHANGED <<nb, sts, prepared, cfg, bundle, upC, stsC, odhC, odhQ, odh, bootCfg, overridden, unmounted>>
  BY DEF UpRestart, odhVars, history
<1>6. TypeOK'
  BY <1>1, <1>2, <1>3, <1>4, <1>5 DEF TypeOK
<1>7. CacheInv' /\ FinalizersInv' /\ PreparationInv'
  <2>1. Exists(nb)
    BY DEF UpRestart, CacheInv, Idle
  <2> QED BY <1>2, <1>3, <1>5, <2>1 DEF CacheInv, FinalizersInv, PreparationInv,
                                        Ready, Cleared, Exists, Idle
<1> QED BY <1>6, <1>7

\* A restarted notebook-controller reads what is stored.
LEMMA UpCrashInv == Inv /\ UpCrash => Inv'
<1> SUFFICES ASSUME Inv, UpCrash PROVE Inv'
  OBVIOUS
<1> USE DEF Inv
<1>1. acts' \in 0..MaxActs /\ faults' \in 0..MaxFaults
  BY BoundsAssumption DEF UpCrash, Spend, TypeOK
<1>2. upQ' \in BOOLEAN
  BY DEF UpCrash, Exists
<1>3. TypeOK'
  BY <1>1, <1>2, ConstantTypes DEF UpCrash, TypeOK, world, odhVars, history
<1>4. CacheInv' /\ FinalizersInv' /\ PreparationInv'
  BY DEF UpCrash, UpIdle, CacheInv, FinalizersInv, PreparationInv, world, odhVars,
         history, Ready, Cleared, Exists, Idle
<1> QED BY <1>3, <1>4

--------------------------------------------------------------------------------
(* odh-notebook-controller.                                                *)

\* Steps that do not write the Notebook.
LEMMA OdhQuietInv ==
    ASSUME Inv, OdhStart \/ OdhPrepare \/ OdhMLflowWait
    PROVE  Inv'
<1> USE DEF Inv
<1>1. /\ UNCHANGED <<nb, sts, pod, cfg, bundle, upC, stsC, upQ, up, odhC, bootCfg>>
      /\ UNCHANGED <<overridden, unmounted>>
      /\ acts' = acts /\ (faults' = faults \/ (faults < MaxFaults /\ faults' = faults + 1))
  BY DEF OdhStart, OdhPrepare, OdhMLflowWait, Spend, world, upVars, bounds, history
<1>2. acts' \in 0..MaxActs /\ faults' \in 0..MaxFaults
  BY <1>1, BoundsAssumption DEF TypeOK
<1>3. prepared' \in BOOLEAN /\ odhQ' \in BOOLEAN /\ (prepared => prepared')
  BY Zenon DEF OdhStart, OdhPrepare, OdhMLflowWait, OdhFail, world, TypeOK
<1>4. odh' \in [pc: OdhPcs, locked: BOOLEAN]
  <2>1. CASE OdhStart
    <3>1. ReconciliationLockIsEnabled(odhC) \in BOOLEAN
      BY DEF ReconciliationLockIsEnabled
    <3> QED BY <2>1, <3>1 DEF OdhStart, OdhPcs
  <2>2. CASE OdhPrepare
    BY <2>2, ConstantTypes DEF OdhPrepare, OdhFail, OdhPcs, TypeOK
  <2>3. CASE OdhMLflowWait
    BY <2>3, ConstantTypes DEF OdhMLflowWait, OdhFail
  <2> QED BY <2>1, <2>2, <2>3
<1>5. TypeOK'
  BY <1>1, <1>2, <1>3, <1>4 DEF TypeOK
<1>6. Exists(nb)
  BY DEF OdhStart, OdhPrepare, OdhMLflowWait, CacheInv, Idle, Exists, TypeOK, Notebooks
<1>7. CacheInv'
  BY <1>1, <1>6 DEF CacheInv, Exists, Idle
<1>8. /\ odh'.pc \in {"prepare", "provide", "tls", "unlock"} => nb.fin
      /\ odh'.pc \in {"tls", "unlock"} => prepared'
      /\ prepared' => nb.fin
  BY DEF OdhStart, OdhPrepare, OdhMLflowWait, OdhFail, OdhIdle, FinalizersInv,
         PreparationInv, world, TypeOK
<1>9. FinalizersInv' /\ PreparationInv'
  BY <1>1, <1>3, <1>8 DEF FinalizersInv, PreparationInv, Ready, Cleared, Exists
<1> QED BY <1>5, <1>7, <1>9

\* The write of finalizers, of the template without the CA bundle, of TLS flags,
\* and of the lock.
LEMMA OdhWriteInv ==
    ASSUME Inv, \/ OdhAddFinalizers \/ UnsetNotebookCertConfig
                \/ OdhTLS \/ RemoveReconciliationLock
    PROVE  Inv'
<1> USE DEF Inv
<1>1. cfg \in Nat /\ nb \in Notebooks /\ odhC \in Notebooks
  BY ConstantTypes DEF TypeOK
<1>2. /\ UNCHANGED <<sts, pod, prepared, cfg, bundle, upC, stsC, upQ, up, odhC, bootCfg>>
      /\ UNCHANGED <<acts, faults, overridden>>
      /\ unmounted' = unmounted \/ unmounted' = TRUE
  BY DEF OdhAddFinalizers, UnsetNotebookCertConfig, OdhTLS,
         RemoveReconciliationLock, upVars, bounds, history
<1>3. /\ \/ odh' = OdhIdle
         \/ odh' = [odh EXCEPT !.pc = "provide"] /\ odh.pc = "prepare"
         \/ odh' = [odh EXCEPT !.pc = "unlock"] /\ odh.pc = "tls"
      /\ odhQ' = odhQ \/ odhQ' = TRUE
  BY DEF OdhAddFinalizers, UnsetNotebookCertConfig, OdhTLS,
         RemoveReconciliationLock, OdhFail
<1>4. /\ odh' \in [pc: OdhPcs, locked: BOOLEAN]
      /\ odh'.pc \in {"idle", "provide", "unlock"}
      /\ odh'.pc = "unlock" => odh.pc = "tls"
      /\ odh'.pc = "provide" => odh.pc = "prepare"
  BY <1>3, ConstantTypes DEF TypeOK, OdhIdle, OdhPcs
<1>5. odhQ' \in BOOLEAN /\ unmounted' \in BOOLEAN
  BY <1>2, <1>3, Zenon DEF TypeOK
<1>6. Exists(nb)
  BY DEF OdhAddFinalizers, UnsetNotebookCertConfig, OdhTLS,
         RemoveReconciliationLock, CacheInv, Idle
<1>7. GoodWrite
  <2>1. CASE OdhAddFinalizers
    <3> DEFINE new == [nb EXCEPT !.fin = TRUE]
    <3>1. new \in Notebooks /\ new.fin /\ new.stop = nb.stop
      BY <1>1 DEF Notebooks
    <3>2. nb' = nb \/ Put(new)
      BY <2>1 DEF OdhAddFinalizers
    <3> HIDE DEF new
    <3> QED BY <1>1, <3>1, <3>2, AcceptedWrite
  <2>2. CASE OdhTLS
    <3> DEFINE new == reconcileKubeRbacProxyTLS(odhC)
    <3>1. new \in Notebooks /\ new.fin = odhC.fin /\ new.stop = odhC.stop
      BY <1>1, TLSFields
    <3>2. nb' = nb \/ (Put(new) /\ odhC = nb)
      BY <2>2 DEF OdhTLS, CacheInv
    <3> HIDE DEF new
    <3> QED BY <1>1, <3>1, <3>2, AcceptedWrite
  <2>3. CASE RemoveReconciliationLock
    <3> DEFINE new == LockPatch(nb)
    <3>1. new \in Notebooks /\ new.fin = nb.fin
      BY <1>1 DEF LockPatch, Notebooks, StopAnnotation
    <3>2. nb' = nb \/ Put(new)
      BY <2>3 DEF RemoveReconciliationLock
    <3>3. Ready'
      BY <1>2, <2>3 DEF RemoveReconciliationLock, PreparationInv, Ready
    <3> HIDE DEF new
    <3> QED BY <1>1, <3>1, <3>2, <3>3, AcceptedWrite
  <2>4. CASE UnsetNotebookCertConfig
    <3>1. Put(Unset)
      BY <2>4 DEF UnsetNotebookCertConfig, Unset
    <3> QED BY <1>1, <3>1, UnsetFields, AcceptedWrite
  <2> QED BY <2>1, <2>2, <2>3, <2>4
<1>8. TypeOK'
  BY <1>2, <1>4, <1>5, <1>7 DEF TypeOK, GoodWrite
<1>9. /\ CacheInv'
      /\ odhC'.fin => nb'.fin
      /\ prepared => nb'.fin
      /\ odh.pc \in {"prepare", "provide", "tls", "unlock"} => nb'.fin
      /\ Cleared(nb)' => Ready'
      /\ Cleared(upC)' => Ready'
  BY <1>2, <1>6, <1>7, GoodWriteInv
<1>10. FinalizersInv' /\ PreparationInv'
  BY <1>2, <1>3, <1>4, <1>9 DEF FinalizersInv, PreparationInv, Ready, Cleared, Exists
<1> QED BY <1>8, <1>9, <1>10

\* A restarted odh-notebook-controller reads what is stored.
LEMMA OdhRebootInv ==
    ASSUME Inv, OdhProfileReload \/ OdhCrash
    PROVE  Inv'
<1> USE DEF Inv
<1>1. OdhReboot
  BY DEF OdhProfileReload, OdhCrash
<1>2. acts' \in 0..MaxActs /\ faults' \in 0..MaxFaults
  BY BoundsAssumption DEF OdhProfileReload, OdhCrash, Spend, bounds, TypeOK
<1>3. odhQ' \in BOOLEAN
  BY <1>1 DEF OdhReboot, Exists
<1>4. TypeOK'
  BY <1>1, <1>2, <1>3, ConstantTypes DEF OdhReboot, TypeOK, world, upVars, history
<1>5. CacheInv' /\ FinalizersInv' /\ PreparationInv'
  BY <1>1 DEF OdhReboot, OdhIdle, CacheInv, FinalizersInv, PreparationInv, world,
              upVars, history, Ready, Cleared, Exists, Idle, TypeOK, Notebooks
<1> QED BY <1>4, <1>5

--------------------------------------------------------------------------------
\* The invariant is inductive.
LEMMA NextInv == Inv /\ [Next]_vars => Inv'
<1> SUFFICES ASSUME Inv, [Next]_vars PROVE Inv'
  OBVIOUS
<1>1. CASE User
  BY <1>1, UserInv
<1>2. CASE Cluster
  BY <1>2, ClusterInv
<1>3. CASE UpReconcile
  BY <1>3, UpStartInv, UpStatefulSetInv, UpWriteInv, UpRestartInv DEF UpReconcile
<1>4. CASE UpCrash
  BY <1>4, UpCrashInv
<1>5. CASE OdhReconcile
  BY <1>5, OdhQuietInv, OdhWriteInv DEF OdhReconcile
<1>6. CASE OdhProfileReload \/ OdhCrash
  BY <1>6, OdhRebootInv
<1>7. CASE UNCHANGED vars
  BY <1>7 DEF Inv, TypeOK, CacheInv, FinalizersInv, PreparationInv, vars, world,
              upVars, odhVars, bounds, history, Ready, Cleared, Exists, Idle
<1> QED BY <1>1, <1>2, <1>3, <1>4, <1>5, <1>6, <1>7 DEF Next

\* The invariant holds in every reachable state.
LEMMA Invariance == Spec => []Inv
  BY InitInv, NextInv, PTL DEF Spec

\* Every variable keeps its type: no write of a client, a controller or the
\* webhook makes a Notebook the others cannot read.
THEOREM TypeCorrect == Spec => []TypeOK
<1>1. Inv => TypeOK
  BY DEF Inv
<1> QED BY <1>1, Invariance, PTL

\* The pod runs only once odh-notebook-controller's finalizers and objects are
\* in place, unless the user started it by hand: InjectReconciliationLock and
\* RemoveReconciliationLock keep their promise for every interleaving.
THEOREM LockProtectsPreparation == Spec => []PodOnlyAfterPreparation
<1>1. Inv => PodOnlyAfterPreparation
  BY DEF Inv, PreparationInv, FinalizersInv, Ready, PodOnlyAfterPreparation
<1> QED BY <1>1, Invariance, PTL

--------------------------------------------------------------------------------
(* Action properties.                                                      *)

\* The only steps that change the stop annotation of a stored Notebook are
\* the user's and the removal of a lock that was seen.
LEMMA StopSteps ==
    ASSUME Inv, Next, nb.stop = Stopped, nb'.stop # Stopped, ~LockInSight
    PROVE  UserStart
<1> USE DEF Inv
<1>1. cfg \in Nat /\ nb \in Notebooks /\ odhC \in Notebooks
  BY ConstantTypes DEF TypeOK
<1>2. CASE User
  <2>1. ~CreateNotebook
    BY DEF CreateNotebook, CacheInv, NoNotebook, Stopped, NoStop
  <2>2. ~UserStop
    BY DEF UserStop
  <2>3. ~UserRestart
    <3> DEFINE new == [nb EXCEPT !.restart = TRUE]
    <3>1. new \in Notebooks /\ new.stop = nb.stop
      BY <1>1 DEF Notebooks
    <3>2. UserRestart => Put(new)
      BY DEF UserRestart, UserPatch
    <3> HIDE DEF new
    <3>3. Put(new) => nb'.stop = new.stop
      BY <1>1, <3>1, PutFields
    <3> QED BY <3>1, <3>2, <3>3
  <2>4. ~UserEdit
    <3> DEFINE new == [nb EXCEPT !.user = @ + 1]
    <3>1. new \in Notebooks /\ new.stop = nb.stop
      BY <1>1 DEF Notebooks
    <3>2. UserEdit => Put(new)
      BY DEF UserEdit, UserPatch
    <3> HIDE DEF new
    <3>3. Put(new) => nb'.stop = new.stop
      BY <1>1, <3>1, PutFields
    <3> QED BY <3>1, <3>2, <3>3
  <2>5. ~ChangeCfg /\ ~ChangeBundle
    BY DEF ChangeCfg, ChangeBundle
  <2> QED BY <1>2, <2>1, <2>2, <2>3, <2>4, <2>5 DEF User
<1>3. CASE Cluster
  BY <1>3 DEF Cluster, SyncUp, SyncSts, SyncOdh, StsController, world
<1>4. CASE UpReconcile
  <2>1. ~UpStart /\ ~UpStatefulSet /\ ~UpRestart
    BY DEF UpStart, UpStatefulSet, UpRestart, world
  <2>2. ~UpStatus
    BY <1>1 DEF UpStatus, Notebooks
  <2>3. ~UpClearRestart
    <3> DEFINE new == [nb EXCEPT !.restart = FALSE]
    <3>1. new \in Notebooks /\ new.stop = nb.stop
      BY <1>1 DEF Notebooks
    <3>2. UpClearRestart => nb' = nb \/ Put(new)
      BY DEF UpClearRestart
    <3> HIDE DEF new
    <3>3. Put(new) => nb'.stop = new.stop
      BY <1>1, <3>1, PutFields
    <3> QED BY <3>1, <3>2, <3>3
  <2> QED BY <1>4, <2>1, <2>2, <2>3 DEF UpReconcile
<1>5. CASE UpCrash \/ OdhProfileReload \/ OdhCrash
  BY <1>5 DEF UpCrash, OdhProfileReload, OdhCrash, OdhReboot, world
<1>6. CASE OdhReconcile
  <2>1. ~OdhStart /\ ~OdhPrepare /\ ~OdhMLflowWait
    BY DEF OdhStart, OdhPrepare, OdhMLflowWait, world
  <2>2. ~OdhAddFinalizers
    <3> DEFINE new == [nb EXCEPT !.fin = TRUE]
    <3>1. new \in Notebooks /\ new.stop = nb.stop
      BY <1>1 DEF Notebooks
    <3>2. OdhAddFinalizers => nb' = nb \/ Put(new)
      BY DEF OdhAddFinalizers
    <3> HIDE DEF new
    <3>3. Put(new) => nb'.stop = new.stop
      BY <1>1, <3>1, PutFields
    <3> QED BY <3>1, <3>2, <3>3
  <2>3. ~OdhTLS
    <3> DEFINE new == reconcileKubeRbacProxyTLS(odhC)
    <3>1. new \in Notebooks /\ new.stop = odhC.stop
      BY <1>1, TLSFields
    <3>2. OdhTLS => nb' = nb \/ (Put(new) /\ odhC = nb)
      BY DEF OdhTLS, CacheInv
    <3> HIDE DEF new
    <3>3. Put(new) => nb'.stop = new.stop
      BY <1>1, <3>1, PutFields
    <3> QED BY <3>1, <3>2, <3>3
  <2>4. ~RemoveReconciliationLock
    BY DEF RemoveReconciliationLock, LockInSight
  <2>5. ~UnsetNotebookCertConfig
    <3>1. UnsetNotebookCertConfig => Put(Unset)
      BY DEF UnsetNotebookCertConfig, Unset
    <3>2. Put(Unset) => nb'.stop = Unset.stop
      BY <1>1, UnsetFields, PutFields
    <3> QED BY <1>1, <3>1, <3>2, UnsetFields
  <2> QED BY <1>6, <2>1, <2>2, <2>3, <2>4, <2>5 DEF OdhReconcile
<1> QED BY <1>2, <1>3, <1>4, <1>5, <1>6 DEF Next

\* Once the lock is out of sight nobody but the user ends a stop: every write
\* a controller makes from what it read before either is refused or keeps it.
THEOREM StopsStick == Spec => StopSticks
<1>1. Inv /\ [Next]_vars =>
        [(nb.stop = Stopped /\ nb'.stop # Stopped /\ ~LockInSight) => UserStart]_vars
  <2> SUFFICES ASSUME Inv, [Next]_vars,
                      nb.stop = Stopped, nb'.stop # Stopped, ~LockInSight,
                      vars' # vars
               PROVE  UserStart
    OBVIOUS
  <2> QED BY StopSteps
<1> QED BY <1>1, Invariance, PTL DEF Spec, StopSticks

\* A write through admission that sends the injected template of the stored
\* Notebook, or asks for a stop or a restart, keeps that of a running one.
LEMMA HeldWrite ==
    ASSUME nb \in Notebooks, cfg \in Nat, NEW new \in Notebooks,
           nb' = nb \/ Put(new),
           new.inj = nb.inj \/ new.stop # NoStop \/ new.restart,
           nb'.inj # nb.inj, nb'.stop = NoStop, ~nb'.restart
    PROVE  nb'.user # nb.user
<1>1. Put(new)
  OBVIOUS
<1>2. nb'.stop = new.stop /\ nb'.restart = new.restart /\ nb'.user = new.user
  BY <1>1, PutFields
<1>3. new.inj = nb.inj /\ new.stop = NoStop /\ ~new.restart
  BY <1>2
<1>4. new.user # nb.user
  BY <1>1, <1>3, PutTemplate
<1> QED BY <1>2, <1>4

\* Of all steps only an edit of the user and UnsetNotebookCertConfig give a
\* running notebook another injected template.
LEMMA TemplateSteps ==
    ASSUME Inv, Next, ~UnsetNotebookCertConfig,
           Exists(nb), nb'.inj # nb.inj, nb'.stop = NoStop, ~nb'.restart
    PROVE  nb'.user # nb.user
<1> USE DEF Inv
<1>1. cfg \in Nat /\ nb \in Notebooks /\ odhC \in Notebooks
  BY ConstantTypes DEF TypeOK
<1>2. CASE User
  <2>1. \E new \in Notebooks : Put(new) /\ new.inj = nb.inj
    <3>1. CASE UserStop
      <4>1. Put([nb EXCEPT !.stop = Stopped])
        BY <3>1 DEF UserStop, UserPatch
      <4>2. /\ [nb EXCEPT !.stop = Stopped] \in Notebooks
            /\ [nb EXCEPT !.stop = Stopped].inj = nb.inj
        BY <1>1 DEF Notebooks, StopAnnotation
      <4> QED BY <4>1, <4>2
    <3>2. CASE UserStart
      <4>1. Put([nb EXCEPT !.stop = NoStop])
        BY <3>2 DEF UserStart, UserPatch
      <4>2. /\ [nb EXCEPT !.stop = NoStop] \in Notebooks
            /\ [nb EXCEPT !.stop = NoStop].inj = nb.inj
        BY <1>1 DEF Notebooks, StopAnnotation
      <4> QED BY <4>1, <4>2
    <3>3. CASE UserRestart
      <4>1. Put([nb EXCEPT !.restart = TRUE])
        BY <3>3 DEF UserRestart, UserPatch
      <4>2. /\ [nb EXCEPT !.restart = TRUE] \in Notebooks
            /\ [nb EXCEPT !.restart = TRUE].inj = nb.inj
        BY <1>1 DEF Notebooks
      <4> QED BY <4>1, <4>2
    <3>4. CASE UserEdit
      <4>1. Put([nb EXCEPT !.user = @ + 1])
        BY <3>4 DEF UserEdit, UserPatch
      <4>2. /\ [nb EXCEPT !.user = @ + 1] \in Notebooks
            /\ [nb EXCEPT !.user = @ + 1].inj = nb.inj
        BY <1>1 DEF Notebooks
      <4> QED BY <4>1, <4>2
    <3>5. ~CreateNotebook /\ ~ChangeCfg /\ ~ChangeBundle
      BY DEF CreateNotebook, ChangeCfg, ChangeBundle
    <3> QED BY <1>2, <3>1, <3>2, <3>3, <3>4, <3>5 DEF User
  <2> QED BY <1>1, <2>1, HeldWrite
<1>3. CASE Cluster
  BY <1>3 DEF Cluster, SyncUp, SyncSts, SyncOdh, StsController, world
<1>4. CASE UpReconcile
  <2>1. ~UpStart /\ ~UpStatefulSet /\ ~UpRestart
    BY DEF UpStart, UpStatefulSet, UpRestart, world
  <2>2. ~UpStatus
    BY <1>1 DEF UpStatus, Notebooks
  <2>3. CASE UpClearRestart
    <3> DEFINE new == [nb EXCEPT !.restart = FALSE]
    <3>1. new \in Notebooks /\ new.inj = nb.inj
      BY <1>1 DEF Notebooks
    <3>2. nb' = nb \/ Put(new)
      BY <2>3 DEF UpClearRestart
    <3> HIDE DEF new
    <3> QED BY <1>1, <3>1, <3>2, HeldWrite
  <2> QED BY <1>4, <2>1, <2>2, <2>3 DEF UpReconcile
<1>5. CASE UpCrash \/ OdhProfileReload \/ OdhCrash
  BY <1>5 DEF UpCrash, OdhProfileReload, OdhCrash, OdhReboot, world
<1>6. CASE OdhReconcile
  <2>1. ~OdhStart /\ ~OdhPrepare /\ ~OdhMLflowWait
    BY DEF OdhStart, OdhPrepare, OdhMLflowWait, world
  <2>2. CASE OdhAddFinalizers
    <3> DEFINE new == [nb EXCEPT !.fin = TRUE]
    <3>1. new \in Notebooks /\ new.inj = nb.inj
      BY <1>1 DEF Notebooks
    <3>2. nb' = nb \/ Put(new)
      BY <2>2 DEF OdhAddFinalizers
    <3> HIDE DEF new
    <3> QED BY <1>1, <3>1, <3>2, HeldWrite
  <2>3. CASE OdhTLS
    <3> DEFINE new == reconcileKubeRbacProxyTLS(odhC)
    <3>1. /\ new \in Notebooks
          /\ new.stop = odhC.stop /\ new.restart = odhC.restart
          /\ odhC.stop = NoStop /\ ~odhC.restart => new.inj = odhC.inj
      BY <1>1, TLSFields
    <3>2. nb' = nb \/ (Put(new) /\ odhC = nb)
      BY <2>3 DEF OdhTLS, CacheInv
    <3> HIDE DEF new
    <3> QED BY <1>1, <3>1, <3>2, HeldWrite
  <2>4. CASE RemoveReconciliationLock
    <3> DEFINE new == LockPatch(nb)
    <3>1. new \in Notebooks /\ new.inj = nb.inj
      BY <1>1 DEF LockPatch, Notebooks, StopAnnotation
    <3>2. nb' = nb \/ Put(new)
      BY <2>4 DEF RemoveReconciliationLock
    <3> HIDE DEF new
    <3> QED BY <1>1, <3>1, <3>2, HeldWrite
  <2> QED BY <1>6, <2>1, <2>2, <2>3, <2>4 DEF OdhReconcile
<1> QED BY <1>2, <1>3, <1>4, <1>5, <1>6 DEF Next

\* While neither a stop nor a restart is asked for, the webhook and the TLS
\* reconciler between them hold back every change of the injected template
\* that does not come with an edit of the user, from however old a read, except
\* the patch that takes a missing or unreadable CA bundle out.
THEOREM RunningTemplateIsHeld == Spec => RunningTemplateHeld
<1>1. Inv /\ [Next]_vars =>
        [(/\ Exists(nb) /\ nb'.inj # nb.inj
          /\ nb'.stop = NoStop /\ ~nb'.restart)
         => nb'.user # nb.user \/ UnsetNotebookCertConfig]_vars
  <2> SUFFICES ASSUME Inv, [Next]_vars, Exists(nb), nb'.inj # nb.inj,
                      nb'.stop = NoStop, ~nb'.restart, vars' # vars,
                      ~UnsetNotebookCertConfig
               PROVE  nb'.user # nb.user
    OBVIOUS
  <2> QED BY TemplateSteps
<1> QED BY <1>1, Invariance, PTL DEF Spec, RunningTemplateHeld
================================================================================

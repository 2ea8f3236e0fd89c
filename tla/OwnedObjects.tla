------------------------------ MODULE OwnedObjects ------------------------------
(***************************************************************************)
(* The objects odh-notebook-controller keeps beside one Notebook name, and *)
(* who owns them: the NetworkPolicies (notebook_network.go), the           *)
(* RoleBinding for pipelines (notebook_rbac.go), the ServiceAccount, the   *)
(* ConfigMap and the Service of kube-rbac-proxy                            *)
(* (notebook_kube_rbac_auth.go), and the RoleBinding for MLflow            *)
(* (notebook_mlflow.go). Each is made with an owner reference to the       *)
(* Notebook's UID; when the Notebook is gone the garbage collector of      *)
(* Kubernetes deletes what refers to it. A Notebook of the same name may   *)
(* be created before the collector is through, and users may put objects   *)
(* with these names there first, change them, or delete them.              *)
(*                                                                         *)
(* The controller reads Notebook and objects from caches that lag, except  *)
(* the ConfigMap.  A read of a cache and the write that depends on it are  *)
(* one step: that the object changes between the two is the case of a      *)
(* cache that lags.  An update carries the resourceVersion it has read and *)
(* fails when that is not the stored one; a retry inside the call          *)
(* (RetryOnConflict) that succeeds is the same step taken later.           *)
(*                                                                         *)
(* The Notebook has inject-auth set, and SET_PIPELINE_RBAC is true; MLflow *)
(* is enabled if its binding is among the objects.  What a reconcile does  *)
(* besides (CA bundle, routes, grants, secrets) is in other modules.       *)
(***************************************************************************)
EXTENDS Naturals, Sequences, FiniteSets

CONSTANTS
    Policies,   \* names of the required NetworkPolicies, in their order
    Others,     \* the other objects, in the order they are reconciled
    MaxUID,     \* bound on the Notebooks created under the name
    MaxEvents   \* bound on what users do, failing calls and crashes together

OtherNames == {"pipeline", "account", "config", "service", "mlflow"}

\* What is a policy is none of the other objects.
ASSUME PoliciesAssumption == Policies \in Seq(STRING \ OtherNames) /\ Policies # <<>>
ASSUME OthersAssumption == Others \in Seq(OtherNames)
ASSUME BoundAssumption == MaxUID \in Nat /\ MaxEvents \in Nat

VARIABLES
    nb,         \* the stored Notebook
    nbC,        \* the controller's copy of it
    obj,        \* the stored objects
    objC,       \* the controller's copies of them
    fresh,      \* objects whose copy has the stored resourceVersion
    pending,    \* objects with an undelivered event that queues the Notebook
    condemned,  \* objects the garbage collector has decided to delete
    roles,      \* bindings whose Role or ClusterRole exists
    queue,      \* the Notebook's name is in the work queue
    work,       \* the running reconcile
    events,     \* acts, failing calls and crashes so far
    confirmed,  \* history: policies that have been right for this Notebook
    mine,       \* history: objects the controller has created or adopted
    strays      \* history: objects that have been without an owner reference
                \* and that the controller does not adopt

copies  == <<nbC, objC>>
history == <<events, confirmed, mine, strays>>
vars    == <<nb, obj, copies, fresh, pending, condemned, roles, queue, work, history>>

\* The order in which a reconcile goes through the objects.  After the policies
\* come the RoleBinding, the account, the ConfigMap, the Service and MLflow's
\* binding.
Steps == Policies \o Others

PolicySet  == {Policies[i] : i \in DOMAIN Policies}
Objects    == {Steps[i] : i \in DOMAIN Steps}
Bindings   == Objects \cap {"pipeline", "mlflow"}

\* The controller reference of an object: none, a Notebook of this name, or
\* something else.
UIDs    == 1..MaxUID
NoOwner == 0
Other   == MaxUID + 1
Owners  == UIDs \cup {NoOwner, Other}

\* good: labels and content are the desired ones.
Absent == [there |-> FALSE, owner |-> NoOwner, good |-> FALSE]
Stored == [there: {TRUE}, owner: Owners, good: BOOLEAN]
OwnedBy(uid) == [there |-> TRUE, owner |-> uid, good |-> TRUE]

\* phase: absent, stored without and with the finalizers, terminating.
\* mlflow: annotated with the name of an MLflow instance.
NoNotebook == [uid |-> 0, phase |-> "absent", lock |-> FALSE, mlflow |-> FALSE]
Notebooks  ==
    [uid: UIDs, phase: {"new", "active", "deleting"}, lock: BOOLEAN, mlflow: BOOLEAN]
       \cup [uid: 0..MaxUID, phase: {"absent"}, lock: {FALSE}, mlflow: {FALSE}]

\* at: the position in Steps; failed: some policy was not reconciled.
IdleWork == [pc |-> "idle", at |-> 0, inst |-> NoNotebook, failed |-> FALSE,
             seen |-> Absent]

TypeOK ==
    /\ nb \in Notebooks /\ nbC \in Notebooks
    /\ obj \in [Objects -> Stored \cup {Absent}]
    /\ objC \in [Objects -> Stored \cup {Absent}]
    /\ fresh \in SUBSET Objects /\ pending \in SUBSET Objects
    /\ condemned \in SUBSET Objects
    /\ roles \in SUBSET Bindings /\ queue \in BOOLEAN
    /\ work \in [pc: {"idle", "finalizers", "cleanup", "object", "write", "unlock"},
                 at: 0..Len(Steps), inst: Notebooks, failed: BOOLEAN,
                 seen: Stored \cup {Absent}]
    /\ events \in 0..MaxEvents
    /\ confirmed \in SUBSET PolicySet /\ mine \in SUBSET Objects
    /\ strays \in SUBSET Objects

Init ==
    /\ nb = NoNotebook /\ nbC = NoNotebook
    /\ obj = [o \in Objects |-> Absent] /\ objC = obj
    /\ fresh = Objects /\ pending = {} /\ condemned = {}
    /\ roles = Bindings /\ queue = FALSE /\ work = IdleWork
    /\ events = 0 /\ confirmed = {} /\ mine = {} /\ strays = {}

--------------------------------------------------------------------------------
(* The API server.                                                         *)

\* Owns(): an event of an object queues the Notebook the old or the new version
\* has for its controller.  The name is matched, not the UID.
EnqueueRequestForOwner(old, new) == old.owner \in UIDs \/ new.owner \in UIDs

\* Object o becomes new.  A deleted object is no longer the one the garbage
\* collector has looked at; who counts as responsible for it is the caller's.
Put(o, new) ==
    /\ obj' = [obj EXCEPT ![o] = new]
    /\ fresh' = IF new = obj[o] THEN fresh ELSE fresh \ {o}
    /\ pending' = IF new # obj[o] /\ EnqueueRequestForOwner(obj[o], new)
                  THEN pending \cup {o} ELSE pending
    /\ condemned' = IF new.there THEN condemned ELSE condemned \ {o}
    /\ confirmed' = IF o \in PolicySet /\ new.owner = nb.uid /\ new.good
                    THEN confirmed \cup {o} ELSE confirmed

Dangling(o) ==
    obj[o].owner \in UIDs \ {IF nb.phase = "absent" THEN 0 ELSE nb.uid}

\* The garbage collector looks for the owner and finds it gone.
Condemn(o) ==
    /\ Dangling(o) /\ o \in PolicySet \cup Bindings
    /\ condemned' = condemned \cup {o}
    /\ UNCHANGED <<nb, obj, copies, fresh, pending, roles, queue, work, history>>

\* It deletes the object it has looked at (a precondition on the object's UID),
\* whatever owner it may have got since.  The other objects keep their owner, so
\* that for them looking and deleting are one step.
Collect(o) ==
    /\ o \in condemned \/ (Dangling(o) /\ o \in {"account", "config", "service"})
    /\ Put(o, Absent)
    /\ mine' = mine \ {o}
    /\ UNCHANGED <<nb, copies, roles, queue, work, events, strays>>

SyncNotebook ==
    /\ nbC # nb
    /\ nbC' = nb /\ queue' = TRUE
    /\ UNCHANGED <<nb, obj, objC, fresh, pending, condemned, roles, work, history>>

\* The part of an object the controller looks at in its cache: whether there is
\* one, the content of a RoleBinding, and the owner of a NetworkPolicy and of
\* MLflow's binding as well.
\* ConfigMaps are not read from the cache.
Cached(o, new) ==
    [there |-> new.there /\ o # "config",
     good  |-> new.good /\ o \in PolicySet \cup Bindings,
     owner |-> IF o \in PolicySet \cup {"mlflow"} THEN new.owner ELSE NoOwner]

SyncObject(o) ==
    /\ o \notin fresh
    /\ objC' = [objC EXCEPT ![o] = Cached(o, obj[o])]
    /\ fresh' = fresh \cup {o} /\ pending' = pending \ {o}
    /\ queue' = (queue \/ o \in pending)
    /\ UNCHANGED <<nb, nbC, obj, condemned, roles, work, history>>

--------------------------------------------------------------------------------
(* Users.                                                                  *)

Act == events < MaxEvents /\ events' = events + 1

\* The webhook puts the lock on every new Notebook.  With MLflow in the model the
\* Notebook is created with its annotation.
CreateNotebook ==
    /\ nb.phase = "absent" /\ nb.uid < MaxUID
    /\ nb' = [uid |-> nb.uid + 1, phase |-> "new", lock |-> TRUE,
              mlflow |-> "mlflow" \in Objects]
    /\ confirmed' = {}
    /\ UNCHANGED <<obj, copies, fresh, pending, condemned, roles, queue, work,
                   events, mine, strays>>

DeleteNotebook ==
    /\ nb.phase \in {"new", "active"}
    /\ nb' = IF nb.phase = "new" THEN [NoNotebook EXCEPT !.uid = nb.uid]
             ELSE [nb EXCEPT !.phase = "deleting"]
    /\ Act
    /\ UNCHANGED <<obj, copies, fresh, pending, condemned, roles, queue, work,
                   confirmed, mine, strays>>

UserPut(o, new) ==
    /\ Put(o, new) /\ Act
    /\ mine' = IF new.there THEN mine ELSE mine \ {o}
    /\ strays' = IF o \notin PolicySet /\ new.there /\ new.owner = NoOwner
                 THEN strays \cup {o} ELSE strays
    /\ UNCHANGED <<nb, copies, roles, queue, work>>

\* Somebody edits an object, deletes it, or makes one of that name.
\* Whether the content of an account or a Service is the desired one makes no
\* difference to the controller, nor does the owner of what is no policy.
Drift(o) ==
    /\ obj[o].good /\ o \notin {"account", "service"}
    /\ UserPut(o, [obj[o] EXCEPT !.good = FALSE])
Remove(o) == obj[o].there /\ UserPut(o, Absent)
Plant(o)  ==
    /\ ~obj[o].there
    /\ \E w \in {NoOwner, Other}, g \in BOOLEAN :
          /\ o \notin PolicySet => w = NoOwner
          /\ o \in {"account", "service"} => g
          /\ UserPut(o, [there |-> TRUE, owner |-> w, good |-> g])

\* MLflow's annotation is set or removed; that validateMLflowAnnotationRemoval
\* asks for a stopped Notebook is left out, as are pods.
Annotate ==
    /\ nb.phase \in {"new", "active"} /\ "mlflow" \in Objects
    /\ nb' = [nb EXCEPT !.mlflow = ~@]
    /\ Act
    /\ UNCHANGED <<obj, copies, fresh, pending, condemned, roles, queue, work,
                   confirmed, mine, strays>>

\* A pipeline server or the MLflow operator is removed, or deployed.
ChangeRole ==
    /\ \E b \in Bindings : roles' = (roles \ {b}) \cup ({b} \ roles)
    /\ Act
    /\ UNCHANGED <<nb, obj, copies, fresh, pending, condemned, queue, work,
                   confirmed, mine, strays>>

--------------------------------------------------------------------------------
(* The controller.                                                         *)

\* A reconcile ends; an error puts the name back into the queue.
Return(err) ==
    /\ work' = IdleWork
    /\ queue' = (queue \/ err)

\* Fault: the loop does not stop at the last object.
FaultOffTheEnd(failed) ==
    /\ work' = IF work.at <= Len(Steps)
               THEN [work EXCEPT !.pc = "object", !.at = @ + 1, !.failed = failed,
                                 !.seen = Absent]
               ELSE [work EXCEPT !.pc = "unlock", !.seen = Absent]
    /\ UNCHANGED queue

\* The next object, or the end of the list.
Onward(failed) ==
    /\ work' = IF work.at < Len(Steps)
               THEN [work EXCEPT !.pc = "object", !.at = @ + 1, !.failed = failed,
                                 !.seen = Absent]
               ELSE [work EXCEPT !.pc = "unlock", !.seen = Absent]
    /\ UNCHANGED queue

StartReconcile ==
    /\ work.pc = "idle" /\ queue
    /\ queue' = FALSE
    /\ work' = IF nbC.phase = "absent" THEN IdleWork
               ELSE [IdleWork EXCEPT
                       !.inst = nbC,
                       !.at = IF nbC.phase = "active" THEN 1 ELSE 0,
                       !.pc = CASE nbC.phase = "deleting" -> "cleanup"
                                [] nbC.phase = "new" -> "finalizers"
                                [] OTHER -> "object"]
    /\ UNCHANGED <<nb, obj, copies, fresh, pending, condemned, roles, history>>

\* An update of the Notebook read again from the cache; the reconcile ends, and
\* is asked for again after a failure or if again is set.
UpdateNotebook(new, again) ==
    /\ IF nbC = nb /\ nb.phase # "absent"
       THEN nb' = new /\ Return(again)
       ELSE UNCHANGED nb /\ Return(TRUE)
    /\ UNCHANGED <<obj, copies, fresh, pending, condemned, roles, history>>

\* Fault: the reconcile goes on without waiting for the finalizers.
FaultNoFinalizers ==
    /\ work.pc = "finalizers"
    /\ work' = [work EXCEPT !.pc = "object", !.at = 1]
    /\ UNCHANGED <<nb, obj, copies, fresh, pending, condemned, roles, queue, history>>

AddFinalizers ==
    /\ work.pc = "finalizers"
    /\ UpdateNotebook([nb EXCEPT !.phase = IF @ = "new" THEN "active" ELSE @], TRUE)

\* The clean-up (module OdhCleanup) is done and the finalizers are removed, if
\* the Notebook read again has them; it may be a later one.
RemoveFinalizers ==
    /\ work.pc = "cleanup"
    /\ IF nbC.phase = "new"
       THEN /\ Return(FALSE)
            /\ UNCHANGED <<nb, obj, copies, fresh, pending, condemned, roles, history>>
       ELSE UpdateNotebook(IF nb.phase = "deleting" THEN [NoNotebook EXCEPT !.uid = nb.uid]
                           ELSE [nb EXCEPT !.phase = "new"], FALSE)

AtObject(o) == work.pc = "object" /\ Steps[work.at] = o

\* Fault: the controller reference is forgotten.
FaultUnowned(o) ==
    /\ Put(o, OwnedBy(NoOwner))
    /\ mine' = mine \cup {o}

\* Create with a controller reference to the Notebook.
Create(o) ==
    /\ Put(o, OwnedBy(work.inst.uid))
    /\ mine' = mine \cup {o}

NoWrite == UNCHANGED <<obj, fresh, pending, condemned, confirmed, mine>>

\* networkPolicyOwnershipConflict: the policy is controlled by something that is
\* not a Notebook of this name (isKubeflowNotebookOwner).
OwnershipConflict(cached) == cached.owner = Other

\* Fault: a policy with the desired content is taken as it is.
FaultAcceptOwner(cached, uid) == cached.good

\* IsControlledBy and CompareNotebookNetworkPolicies: nothing is to be done.
PolicyUpToDate(cached, uid) == cached.owner = uid /\ cached.good

\* Fault: the update is sent without the resourceVersion that was read.
FaultUpdate(o) == TRUE

\* The API server accepts an update made from the copy of o.
UpdateAccepted(o) == o \in fresh

\* reconcileExistingNetworkPolicy: ok says whether it returns nil.
reconcileExistingNetworkPolicy(p, ok) ==
    LET cached == objC[p] IN
    \/ /\ \/ ~cached.there /\ ~ok
          \/ cached.there /\ OwnershipConflict(cached) /\ ~ok
          \/ /\ cached.there /\ ~OwnershipConflict(cached)
             /\ PolicyUpToDate(cached, work.inst.uid) /\ ok
       /\ NoWrite
    \/ /\ cached.there /\ ~OwnershipConflict(cached)
       /\ ~PolicyUpToDate(cached, work.inst.uid)
       /\ IF UpdateAccepted(p) /\ obj[p].there
          THEN /\ Put(p, OwnedBy(work.inst.uid))
               /\ mine' = mine \cup {p} /\ ok
          ELSE NoWrite /\ ~ok

reconcileNetworkPolicy(p, ok) ==
    IF ~objC[p].there /\ ~obj[p].there
    THEN Create(p) /\ ok
    ELSE reconcileExistingNetworkPolicy(p, ok)

\* Fault: the first policy that fails ends the loop.
FaultFirstError(p, ok) ==
    IF work.failed \/ ~ok THEN Return(TRUE) ELSE Onward(FALSE)

\* The loop of ReconcileAllNetworkPolicies: errors are joined, and returned when
\* all policies have been tried.
AfterPolicy(p, ok) ==
    IF p = Policies[Len(Policies)] /\ (work.failed \/ ~ok)
    THEN Return(TRUE)
    ELSE Onward(work.failed \/ ~ok)

ReconcileNetworkPolicy ==
    \E p \in PolicySet, ok \in BOOLEAN :
        /\ AtObject(p)
        /\ reconcileNetworkPolicy(p, ok)
        /\ AfterPolicy(p, ok)
        /\ UNCHANGED <<nb, copies, roles, events, strays>>

\* reconcileRoleBinding: nothing without the Role; a binding that differs is
\* replaced by an update that has no resourceVersion and no owner reference, and
\* so creates one that is gone meanwhile.
ReconcileRoleBindings ==
    /\ AtObject("pipeline")
    /\ LET cached == objC["pipeline"] stored == obj["pipeline"] IN
       IF "pipeline" \notin roles \/ (cached.there /\ cached.good)
       THEN NoWrite /\ UNCHANGED strays /\ Onward(FALSE)
       ELSE IF ~cached.there
       THEN /\ IF stored.there THEN NoWrite /\ Return(TRUE)
               ELSE Create("pipeline") /\ Onward(FALSE)
            /\ UNCHANGED strays
       ELSE /\ Put("pipeline", OwnedBy(NoOwner))
            /\ strays' = strays \cup {"pipeline"}
            /\ UNCHANGED mine /\ Onward(FALSE)
    /\ UNCHANGED <<nb, copies, roles, events>>

\* ReconcileNotebookServiceAccount, ReconcileKubeRbacProxyService: AlreadyExists
\* is no error.
CreateIfMissing(o) ==
    IF objC[o].there \/ obj[o].there THEN NoWrite ELSE Create(o)

ReconcileCreated ==
    \E o \in {"account", "service"} :
        /\ AtObject(o)
        /\ CreateIfMissing(o)
        /\ Onward(FALSE)
        /\ UNCHANGED <<nb, copies, roles, events, strays>>

\* ReconcileKubeRbacProxyConfigMap reads the ConfigMap from the API server ...
ReadConfigMap ==
    /\ AtObject("config")
    /\ work' = [work EXCEPT !.pc = "write", !.seen = obj["config"]]
    /\ UNCHANGED <<nb, obj, copies, fresh, pending, condemned, roles, queue, history>>

\* ... and creates or repairs it.  An owner reference is only set on creation.
WriteConfigMap ==
    LET seen == work.seen stored == obj["config"] IN
    /\ work.pc = "write"
    /\ IF ~seen.there
       THEN /\ IF stored.there THEN NoWrite ELSE Create("config")
            /\ Onward(FALSE)
       ELSE IF seen.good THEN NoWrite /\ Onward(FALSE)
       ELSE IF seen = stored
       THEN /\ Put("config", [stored EXCEPT !.good = TRUE])
            /\ UNCHANGED mine /\ Onward(FALSE)
       ELSE NoWrite /\ Return(TRUE)
    /\ UNCHANGED <<nb, copies, roles, events, strays>>

\* Fault: the request is not kept while the ClusterRole is missing.
FaultNoRequeue == Return(FALSE)

\* RequeueAfter: the reconcile ends before the lock is removed, and comes back.
RequeueAfter == Return(TRUE)

\* Without the annotation the binding is deleted by its name, whoever made it;
\* with it, the binding is created or brought to the desired state, owner
\* included, unless the ClusterRole is missing.
ReconcileMLflowIntegration ==
    /\ AtObject("mlflow")
    /\ LET cached == objC["mlflow"] stored == obj["mlflow"] IN
       IF ~work.inst.mlflow
       THEN /\ Put("mlflow", Absent) /\ mine' = mine \ {"mlflow"}
            /\ Onward(FALSE)
       ELSE IF "mlflow" \notin roles
       THEN NoWrite /\ RequeueAfter
       ELSE IF ~cached.there \/ cached = OwnedBy(work.inst.uid)
       THEN /\ IF cached.there \/ stored.there THEN NoWrite ELSE Create("mlflow")
            /\ Onward(FALSE)
       ELSE IF UpdateAccepted("mlflow") /\ stored.there
       THEN /\ Put("mlflow", OwnedBy(work.inst.uid))
            /\ mine' = mine \cup {"mlflow"} /\ Onward(FALSE)
       ELSE NoWrite /\ Return(TRUE)
    /\ UNCHANGED <<nb, copies, roles, events, strays>>

\* RemoveReconciliationLock: a patch by name, whichever Notebook has it.
RemoveLock ==
    /\ work.pc = "unlock"
    /\ IF ~work.inst.lock THEN UNCHANGED nb /\ Return(FALSE)
       ELSE IF nb.phase = "absent" THEN UNCHANGED nb /\ Return(TRUE)
       ELSE nb' = [nb EXCEPT !.lock = FALSE] /\ Return(FALSE)
    /\ UNCHANGED <<obj, copies, fresh, pending, condemned, roles, history>>

\* Any call of a reconcile may fail, and its error is returned; a policy's is
\* joined with the others'.
CallFails ==
    /\ work.pc # "idle" /\ Act
    /\ IF work.pc = "object" /\ Steps[work.at] \in PolicySet
       THEN AfterPolicy(Steps[work.at], FALSE) ELSE Return(TRUE)
    /\ UNCHANGED <<nb, obj, copies, fresh, pending, condemned, roles, confirmed, mine, strays>>

\* The process dies.  The new one lists everything and queues the Notebook.
Restart ==
    /\ Act
    /\ nbC' = nb /\ objC' = [o \in Objects |-> Cached(o, obj[o])]
    /\ fresh' = Objects /\ pending' = {}
    /\ queue' = TRUE /\ work' = IdleWork
    /\ UNCHANGED <<nb, obj, condemned, roles, confirmed, mine, strays>>

Controller ==
    \/ StartReconcile \/ AddFinalizers \/ RemoveFinalizers
    \/ ReconcileNetworkPolicy \/ ReconcileRoleBindings \/ ReconcileCreated
    \/ ReadConfigMap \/ WriteConfigMap \/ ReconcileMLflowIntegration \/ RemoveLock

Next ==
    \/ CreateNotebook \/ DeleteNotebook \/ Annotate \/ ChangeRole
    \/ \E o \in Objects : Drift(o) \/ Remove(o) \/ Plant(o)
    \/ \E o \in Objects : Condemn(o) \/ Collect(o) \/ SyncObject(o)
    \/ SyncNotebook \/ Controller \/ CallFails \/ Restart

Spec == Init /\ [][Next]_vars

\* The worker runs, the informers catch up, the garbage collector goes round.
FairSpec ==
    /\ Spec
    /\ WF_vars(Controller) /\ WF_vars(SyncNotebook)
    /\ \A o \in Objects :
          WF_vars(SyncObject(o)) /\ WF_vars(Condemn(o)) /\ WF_vars(Collect(o))

--------------------------------------------------------------------------------
(* Properties.                                                             *)

\* While a reconcile provides objects, the very Notebook it was started for is
\* still stored, active or terminating: the finalizers (notebook_controller.go)
\* keep a Notebook that is deleted until its own reconcile is over, so neither an
\* object nor the patch that removes the lock reaches a later Notebook.
OneIncarnation ==
    work.pc \in {"object", "write", "unlock"} =>
        /\ nb.uid = work.inst.uid
        /\ nb.phase \in {"active", "deleting"}

\* A Notebook without the lock, which may run, has had every NetworkPolicy with
\* the desired content and in its own possession since it was created; policies
\* left over from its predecessor do not count, the collector is after them.
UnlockedBehindPolicies ==
    nb.phase = "active" /\ ~nb.lock => confirmed = PolicySet

\* The controller never changes a NetworkPolicy that something else controls,
\* not even if its copy is from before (networkPolicyOwnershipConflict).
ForeignPolicyUntouched ==
    [][events' = events =>
          \A p \in PolicySet : obj[p].owner = Other => obj'[p] = obj[p]]_vars

\* An active Notebook is in the end, and for good, accompanied by all of its
\* policies as desired and in its possession, unless one is controlled by
\* something else; and then, without the lock, by the other objects too, unless
\* it waits for MLflow's ClusterRole.  The binding for MLflow is there if and
\* only if the annotation is.  Only an object somebody made without an owner
\* reference, whose events go nowhere, may be otherwise.
Provided ==
    LET foreign == {p \in PolicySet : obj[p].owner = Other}
        waits   == nb.mlflow /\ "mlflow" \notin roles
    IN
    nb.phase = "active" =>
        /\ \A p \in PolicySet \ foreign : obj[p] = OwnedBy(nb.uid)
        /\ foreign = {} /\ ~waits =>
              /\ ~nb.lock
              /\ \A o \in Objects \ (strays \cup Bindings) :
                    obj[o].there /\ obj[o].good
              /\ "mlflow" \in Objects \ strays =>
                    obj["mlflow"] = IF nb.mlflow THEN OwnedBy(nb.uid) ELSE Absent

EventuallyProvided == <>[]Provided

\* Once the Notebook is gone for good, so is in the end all the controller has
\* made or adopted for it; except the RoleBinding for pipelines, if its repair
\* (an update without owner references) has ever happened.
NothingOutlives == <>[](nb.phase = "absent" => mine \subseteq strays)
================================================================================

---------------------------- MODULE TrustedCABundle ----------------------------
(***************************************************************************)
(* The trusted certificates of the Notebooks of one namespace.             *)
(*                                                                         *)
(* odh-notebook-controller gathers them from three ConfigMaps into the     *)
(* ConfigMap workbench-trusted-ca-bundle (CreateNotebookCertConfigMap),    *)
(* its webhook mounts that one into every Notebook that is created or      *)
(* updated and makes a preliminary one when there is none                  *)
(* (CheckAndMountCACertBundle), and the controller takes the mount away    *)
(* again when the ConfigMap is gone (UnsetNotebookCertConfig).  ConfigMaps *)
(* are read from the API server, Notebooks from a cache that lags.  Every  *)
(* write of a Notebook goes through the webhook.                           *)
(*                                                                         *)
(* Of a Notebook's fields (NotebookAdmission) inj says here whether the    *)
(* bundle is mounted (1) or not (0), and fin stands for all finalizers.    *)
(* Writes of one Notebook are admitted one at a time.                      *)
(***************************************************************************)
EXTENDS NotebookAdmission, FiniteSets, SequencesExt

CONSTANTS
    NB,         \* names of Notebooks
    Certs,      \* parsable certificates
    MaxEvents   \* bound on what users and administrators do, failing calls
                \* and crashes together

ASSUME NBAssumption == NB # {} /\ IsFiniteSet(NB)
ASSUME CertsAssumption ==
    Certs # {} /\ IsFiniteSet(Certs) /\ Certs \cap {"nomap", "nokey", "blank", "bad"} = {}
ASSUME BoundAssumption == MaxEvents \in Nat

VARIABLES
    src,            \* the files of the three source ConfigMaps
    bundle,         \* workbench-trusted-ca-bundle: the certificates in it
    nb, nbC, fresh, \* stored Notebooks, cached ones, is it the same one
    hook,           \* per Notebook, the write that is being admitted
    queue, work,    \* the work queue, and the running reconcile
    events,         \* acts, failing calls and crashes so far
    happened        \* history: which of them

notebooks == <<nb, nbC, fresh>>
maps      == <<src, bundle>>
history   == <<events, happened>>
vars      == <<maps, notebooks, hook, queue, work, history>>

\* The sources odh-trusted-ca-bundle, kube-root-ca.crt and
\* openshift-service-ca.crt, in the order they are read, and their files.
SourceMaps == <<"odh", "self", "service">>
Files == [odh     |-> <<"ca-bundle.crt", "odh-ca-bundle.crt">>,
          self    |-> <<"ca.crt">>,
          service |-> <<"service-ca.crt">>]
Sources    == {SourceMaps[i] : i \in DOMAIN SourceMaps}
FilesOf(m) == {Files[m][i] : i \in DOMAIN Files[m]}
FileNames  == UNION {FilesOf(m) : m \in Sources}

\* The content of a file: no such ConfigMap, no such key, white space, data
\* that is no certificate, or a certificate.
Contents == {"blank", "bad"} \cup Certs
Values   == {"nomap", "nokey"} \cup Contents

NoBundle == <<>>

Phases == {"absent", "active", "deleting"}
CANotebooks == [phase: Phases, stop: StopAnnotation, restart: {FALSE},
                user: {0, 1}, inj: {0, 1}, pending: UpdatePending, fin: BOOLEAN]
Gone == [phase |-> "absent", stop |-> NoStop, restart |-> FALSE, user |-> 0,
         inj |-> 0, pending |-> "none", fin |-> FALSE]

Pcs == {"idle", "finalizers", "read", "write", "put", "check", "unset", "unlock"}
Nobody == "nobody"
IdleWork == [pc |-> "idle", name |-> Nobody, inst |-> Gone, todo |-> <<>>,
             pool |-> <<>>, seen |-> NoBundle]
NoWrite == [pc |-> "none", new |-> Gone, raw |-> "nomap"]

Happenings == {"noSource", "bundleRemoved", "hookFailed", "readFailed", "deleted"}

TypeOK ==
    /\ src \in [FileNames -> Values]
    /\ bundle \in Seq(Contents)
    /\ nb \in [NB -> CANotebooks] /\ nbC \in [NB -> CANotebooks]
    /\ fresh \in [NB -> BOOLEAN]
    /\ hook \in [NB -> [pc: {"none", "read", "create"},
                        new: CANotebooks, raw: Values]]
    /\ queue \in SUBSET NB
    /\ work \in [pc: Pcs, name: NB \cup {Nobody}, inst: CANotebooks,
                 todo: Seq(Sources), pool: Seq(Certs), seen: Seq(Contents)]
    /\ events \in 0..MaxEvents /\ happened \in SUBSET Happenings

Init ==
    /\ \E c \in Certs, odh \in {"nomap"} \cup Certs :
          src = [f \in FileNames |-> IF f \in FilesOf("odh") THEN odh ELSE c]
    /\ bundle = NoBundle
    /\ nb = [n \in NB |-> Gone] /\ nbC = nb /\ fresh = [n \in NB |-> TRUE]
    /\ hook = [n \in NB |-> NoWrite]
    /\ queue = {} /\ work = IdleWork
    /\ events = 0
    /\ happened = IF src["ca-bundle.crt"] = "nomap" THEN {"noSource"} ELSE {}

--------------------------------------------------------------------------------
(* Users, administrators, informers.                                       *)

Act(h) == /\ events < MaxEvents /\ events' = events + 1
          /\ happened' = happened \cup h
Quiet  == UNCHANGED history

\* A write of a Notebook reaches the API server, which asks the webhook.
Submit(n, new) ==
    /\ hook[n].pc = "none"
    /\ hook' = [hook EXCEPT ![n] = [NoWrite EXCEPT !.pc = "read", !.new = new]]

UserWrite(n, new) ==
    /\ Submit(n, new) /\ Act({})
    /\ UNCHANGED <<maps, notebooks, queue, work>>

CreateNotebook(n) ==
    nb[n].phase = "absent" /\ UserWrite(n, [Gone EXCEPT !.phase = "active"])

UserStop(n) ==
    /\ nb[n].phase = "active" /\ nb[n].stop # Stopped
    /\ UserWrite(n, [nb[n] EXCEPT !.stop = Stopped])

UserStart(n) ==
    /\ nb[n].phase = "active" /\ nb[n].stop = Stopped
    /\ UserWrite(n, [nb[n] EXCEPT !.stop = NoStop])

UserEdit(n) ==
    /\ nb[n].phase = "active" /\ nb[n].user = 0
    /\ UserWrite(n, [nb[n] EXCEPT !.user = 1])

\* The API server stores a Notebook; a deleted one without finalizers is gone.
Put(n, new) ==
    /\ nb' = [nb EXCEPT ![n] =
                IF new.phase = "deleting" /\ ~new.fin THEN Gone ELSE new]
    /\ fresh' = [fresh EXCEPT ![n] = @ /\ nb'[n] = nb[n]]
    /\ UNCHANGED nbC

DeleteNotebook(n) ==
    /\ nb[n].phase = "active" /\ hook[n].pc = "none"
    /\ Put(n, [nb[n] EXCEPT !.phase = "deleting"]) /\ Act({"deleted"})
    /\ UNCHANGED <<maps, hook, queue, work>>

Listed == {n \in NB : nbC[n].phase # "absent"}

\* Fault: only the bundle itself is watched.
FaultSourcesUnwatched(m, q) ==
    q = IF m = "workbench" THEN {n \in Listed : nbC[n].inj = 1} ELSE {}

\* caBundleRequests: an event of a source queues the first Notebook of a list
\* in no particular order, one of the bundle all those that mount it.
caBundleRequests(m, q) ==
    IF m = "workbench" THEN q = {n \in Listed : nbC[n].inj = 1}
    ELSE IF Listed = {} THEN q = {} ELSE \E n \in Listed : q = {n}

\* A change of the ConfigMap m is an event.  It is delivered at once, when the
\* cached Notebooks it is matched with are as old as they can be.
Notify(m) ==
    \E q \in SUBSET NB : caBundleRequests(m, q) /\ queue' = queue \cup q

\* What an administrator may put into a file.  White space is as good as no key
\* in ca-bundle.crt, and as other data that is no certificate in the rest.
Writable(f) ==
    {"bad"} \cup Certs \cup IF f = "ca-bundle.crt" THEN {"blank"} ELSE {"nokey"}

\* An administrator writes or deletes a source ConfigMap.
ChangeSource(m) ==
    /\ \/ \E f \in FilesOf(m) : \E v \in Writable(f) \ {src[f]} :
             /\ src' = [g \in FileNames |->
                          IF g = f THEN v
                          ELSE IF g \in FilesOf(m) /\ src[g] = "nomap"
                          THEN "nokey" ELSE src[g]]
             /\ Act({})
       \/ /\ src[Files[m][1]] # "nomap"
          /\ src' = [f \in FileNames |->
                       IF f \in FilesOf(m) THEN "nomap" ELSE src[f]]
          /\ Act(IF m = "odh" THEN {"noSource"} ELSE {})
    /\ Notify(m)
    /\ UNCHANGED <<bundle, notebooks, hook, work>>

PutBundle(b) ==
    /\ bundle' = b
    /\ Notify("workbench")
    /\ UNCHANGED src

DropBundle ==
    /\ bundle # NoBundle
    /\ PutBundle(NoBundle) /\ Act({"bundleRemoved"})
    /\ UNCHANGED <<notebooks, hook, work>>

SyncNotebook(n) ==
    /\ ~fresh[n]
    /\ nbC' = [nbC EXCEPT ![n] = nb[n]]
    /\ fresh' = [fresh EXCEPT ![n] = TRUE]
    /\ queue' = queue \cup {n}
    /\ UNCHANGED <<maps, nb, hook, work, history>>

--------------------------------------------------------------------------------
(* The webhook: CheckAndMountCACertBundle, InjectCertConfig.               *)

\* The admitted write is stored, with the mount injected or as it came.
Admit(n, mount) ==
    LET new == hook[n].new
        cfg == IF mount THEN 1 ELSE new.inj
    IN /\ Put(n, IF nb[n].phase = "absent" THEN HandleCreate(new, cfg)
                 ELSE HandleUpdate(nb[n], new, cfg))
       /\ hook' = [hook EXCEPT ![n] = NoWrite]

\* Fault: the mount is injected when a Notebook is created, not in updates.
FaultMountsOnCreate(n) == nb[n].phase = "absent"

\* Handle mounts the bundle both in create and in update requests.
MountsOn(n) == TRUE

\* Without odh-trusted-ca-bundle there is nothing to mount; without a bundle
\* there is one to create.
HookRead(n) ==
    /\ hook[n].pc = "read"
    /\ IF \/ ~MountsOn(n) \/ src["ca-bundle.crt"] = "nomap"
          \/ bundle # NoBundle
       THEN Admit(n, MountsOn(n) /\ src["ca-bundle.crt"] # "nomap")
       ELSE /\ hook' = [hook EXCEPT ![n].pc = "create",
                                    ![n].raw = src["ca-bundle.crt"]]
            /\ UNCHANGED notebooks
    /\ Quiet /\ UNCHANGED <<maps, queue, work>>

\* Fault: a missing key is taken over as it is.
FaultMissingKey(v) == <<v>>

\* The preliminary bundle: ca-bundle.crt as it is, unparsed; a missing key
\* reads as the empty string.
Preliminary(v) == <<IF v = "nokey" THEN "blank" ELSE v>>

\* Create it.  When somebody else did meanwhile, the mount is left out.
HookCreate(n) ==
    /\ hook[n].pc = "create"
    /\ IF bundle = NoBundle
       THEN PutBundle(Preliminary(hook[n].raw)) /\ Admit(n, TRUE)
       ELSE Admit(n, FALSE) /\ UNCHANGED <<maps, queue>>
    /\ Quiet /\ UNCHANGED work

\* A failing call of the webhook: when the bundle cannot be read the webhook
\* goes on to create it, otherwise the write is admitted without the mount.
HookFails(n) ==
    /\ hook[n].pc # "none" /\ Act({"hookFailed"})
    /\ \/ Admit(n, FALSE)
       \/ /\ hook[n].pc = "read" /\ MountsOn(n)
          /\ src["ca-bundle.crt"] # "nomap" /\ bundle # NoBundle
          /\ hook' = [hook EXCEPT ![n].pc = "create",
                                  ![n].raw = src["ca-bundle.crt"]]
          /\ UNCHANGED notebooks
    /\ UNCHANGED <<maps, queue, work>>

--------------------------------------------------------------------------------
(* The reconcile.                                                          *)

At(pc) == work.pc = pc
Go(pc) == work' = [work EXCEPT !.pc = pc] /\ UNCHANGED queue

Finish  == work' = IdleWork /\ UNCHANGED queue
Requeue == work' = IdleWork /\ queue' = queue \cup {work.name}

\* Calls whose failure is returned: the Notebook is reconciled again.
CallFails ==
    /\ work.pc \in {"finalizers", "put", "unset", "unlock"}
    /\ Act({}) /\ Requeue
    /\ UNCHANGED <<maps, notebooks, hook>>

\* Fetch the Notebook.  A deleted one gets no bundle.
Start(n) ==
    /\ At("idle") /\ n \in queue
    /\ LET inst == nbC[n]
           next == [IdleWork EXCEPT !.name = n, !.inst = inst]
       IN /\ queue' = queue \ {n}
          /\ work' = IF inst.phase = "absent" THEN IdleWork
                     ELSE IF inst.phase = "deleting" \/ ~inst.fin
                     THEN [next EXCEPT !.pc = "finalizers"]
                     ELSE [next EXCEPT !.pc = "read", !.todo = SourceMaps]
    /\ Quiet /\ UNCHANGED <<maps, notebooks, hook>>

\* Add the finalizers, and come back; or take those of a deleted Notebook off.
\* The Notebook is read again, and only written if that changes it.
Finalizers ==
    /\ At("finalizers")
    /\ LET n       == work.name
           add     == work.inst.phase = "active"
           there   == nbC[n].phase # "absent"
           changes == nbC[n].fin # add
       IN \/ /\ there /\ changes /\ fresh[n]
             /\ Submit(n, [nb[n] EXCEPT !.fin = add])
             /\ IF add THEN Requeue ELSE Finish
          \/ /\ there /\ ~changes /\ UNCHANGED hook
             /\ IF add THEN Requeue ELSE Finish
          \/ /\ ~there \/ (changes /\ ~fresh[n])          \* NotFound, Conflict
             /\ Requeue /\ UNCHANGED hook
    /\ Quiet /\ UNCHANGED <<maps, notebooks>>

\* The certificate in a file, if there is one.
Pem(f) == IF src[f] \in Certs THEN <<src[f]>> ELSE <<>>

Certificates(m) ==
    Pem(Files[m][1]) \o IF Len(Files[m]) = 2 THEN Pem(Files[m][2]) ELSE <<>>

\* CreateNotebookCertConfigMap gives up at a missing key of any of the three,
\* and without odh-trusted-ca-bundle or with white space in its ca-bundle.crt.
GivesUp(m) ==
    \/ \E f \in FilesOf(m) : src[f] = "nokey"
    \/ m = "odh" /\ src["ca-bundle.crt"] \in {"nomap", "blank"}

\* Read one source; a failure to read it is not returned.
ReadSource ==
    /\ At("read")
    /\ LET m    == Head(work.todo)
           next == [work EXCEPT !.todo = Tail(@),
                                !.pc = IF Len(work.todo) = 1 THEN "write" ELSE @]
       IN \/ /\ GivesUp(m) /\ Go("check") /\ Quiet
          \/ /\ ~GivesUp(m)
             /\ work' = [next EXCEPT !.pool = @ \o Certificates(m)]
             /\ UNCHANGED queue /\ Quiet
          \/ work' = next /\ UNCHANGED queue /\ Act({"readFailed"})
    /\ UNCHANGED <<maps, notebooks, hook>>

\* Read the bundle, if there are certificates; nor is this failure returned.
ReadBundle ==
    /\ At("write")
    /\ \/ /\ work.pool \in {<<>>, bundle} /\ Go("check") /\ Quiet
       \/ /\ work.pool \notin {<<>>, bundle} /\ Quiet
          /\ work' = [work EXCEPT !.pc = "put", !.seen = bundle]
          /\ UNCHANGED queue
       \/ work.pool # <<>> /\ Go("check") /\ Act({"readFailed"})
    /\ UNCHANGED <<maps, notebooks, hook>>

\* Create the bundle, where one created meanwhile is as good, or update it.
WriteBundle ==
    /\ At("put") /\ Quiet
    /\ IF bundle = work.seen
       THEN PutBundle(work.pool) /\ work' = [work EXCEPT !.pc = "check"]
       ELSE /\ IF work.seen = NoBundle THEN Go("check") ELSE Requeue
            /\ UNCHANGED maps
    /\ UNCHANGED <<notebooks, hook>>

\* Fault: the mount of a missing bundle is not noticed.
FaultNeverDeleted(inst, found) == FALSE

\* IsConfigMapDeleted: the bundle was not found, and the Notebook mounts it.
IsConfigMapDeleted(inst, found) == ~found /\ inst.inj = 1

\* Any error of the Get counts as not found.
CheckBundle ==
    /\ At("check")
    /\ \E found \in {bundle # NoBundle, FALSE} :
          /\ IF found = (bundle # NoBundle) THEN Quiet ELSE Act({})
          /\ Go(IF IsConfigMapDeleted(work.inst, found) THEN "unset" ELSE "unlock")
    /\ UNCHANGED <<maps, notebooks, hook>>

\* UnsetNotebookCertConfig: a merge patch made from the cached Notebook.  It
\* replaces whole lists, so the user's part becomes the cached one too.
UnsetNotebookCertConfig ==
    /\ At("unset")
    /\ LET n == work.name
       IN IF nb[n].phase = "absent" THEN Requeue /\ UNCHANGED hook  \* NotFound
          ELSE /\ Submit(n, [nb[n] EXCEPT !.inj = 0, !.user = work.inst.user])
               /\ Go("unlock")
    /\ Quiet /\ UNCHANGED <<maps, notebooks>>

\* The rest of the reconcile, at the end of which the lock is removed.
Unlock ==
    /\ At("unlock")
    /\ LET n == work.name
       IN \/ /\ ReconciliationLockIsEnabled(work.inst) /\ nb[n].phase # "absent"
             /\ Submit(n, [nb[n] EXCEPT !.stop = NoStop])
          \/ /\ ~ReconciliationLockIsEnabled(work.inst) \/ nb[n].phase = "absent"
             /\ hook[n].pc = "none" /\ UNCHANGED hook
    /\ Finish /\ Quiet /\ UNCHANGED <<maps, notebooks>>

\* The controller and its webhook are one process.  Writes being admitted are
\* refused, and after the restart all Notebooks and ConfigMaps are events.
Crash ==
    /\ ~At("idle") \/ \E n \in NB : hook[n].pc # "none"
    /\ Act({})
    /\ work' = IdleWork /\ hook' = [n \in NB |-> NoWrite]
    /\ nbC' = nb /\ fresh' = [n \in NB |-> TRUE]
    /\ queue' = {n \in NB : nb[n].phase # "absent"}
    /\ UNCHANGED <<maps, nb>>

--------------------------------------------------------------------------------
Controller ==
    \/ \E n \in NB : Start(n)
    \/ Finalizers \/ ReadSource \/ ReadBundle \/ WriteBundle \/ CheckBundle
    \/ UnsetNotebookCertConfig \/ Unlock

Deliver ==
    \/ \E n \in NB : SyncNotebook(n)
    \/ \E n \in NB : HookRead(n) \/ HookCreate(n)

Next ==
    \/ \E n \in NB :
          \/ CreateNotebook(n) \/ UserStop(n) \/ UserStart(n) \/ UserEdit(n)
          \/ DeleteNotebook(n) \/ HookFails(n)
    \/ \E m \in Sources : ChangeSource(m)
    \/ DropBundle
    \/ Deliver \/ Controller \/ CallFails \/ Crash

\* Informers deliver and the webhook answers; the controller's worker runs.
Fairness == WF_vars(Deliver) /\ WF_vars(Controller)

Spec == Init /\ [][Next]_vars /\ Fairness

--------------------------------------------------------------------------------
(* Properties.                                                             *)

\* A Notebook without lock and stop runs with the bundle mounted, as long as
\* odh-trusted-ca-bundle was there, nobody deleted the bundle, and the webhook's
\* calls succeeded.  When two are created at once, the webhook leaves the mount
\* out of the one that loses (HookCreate); removing the lock is too late for it
\* (maybeRestartRunningNotebook), so it is the update that adds the finalizers,
\* under the lock, that must bring the mount.
StartedWithBundle ==
    happened \cap {"noSource", "bundleRemoved", "hookFailed"} = {} =>
        \A n \in NB : nb[n].phase = "active" /\ nb[n].stop = NoStop => nb[n].inj = 1

\* What the sources ask for: all their certificates in order.
Desired ==
    IF \E m \in Sources : GivesUp(m) THEN NoBundle
    ELSE FoldLeft(LAMBDA certs, m : certs \o Certificates(m), <<>>, SourceMaps)

\* Whatever preliminary or old bundle the webhook or an earlier reconcile left,
\* a bundle that Notebooks mount ends up with the certificates of the three
\* sources (CreateNotebookCertConfigMap, caBundleRequests), unless a read that
\* is not retried failed or a Notebook was deleted, which may have been the one
\* the event went to.
BundleCurrent ==
    <>[](/\ happened \cap {"readFailed", "deleted"} = {}
         /\ Desired # NoBundle
         /\ \E n \in NB : nb[n].phase = "active" /\ nb[n].inj = 1
         => bundle = Desired)

\* No Notebook keeps the mount and the environment variables of a bundle that is
\* gone (IsConfigMapDeleted, UnsetNotebookCertConfig), whatever the cache showed
\* when it went, and although the webhook may mount it again in the same write.
NoDanglingMount ==
    <>[](bundle = NoBundle =>
            \A n \in NB : nb[n].phase = "active" => nb[n].inj = 0)
================================================================================

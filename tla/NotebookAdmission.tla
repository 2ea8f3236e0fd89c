--------------------------- MODULE NotebookAdmission ---------------------------
(***************************************************************************)
(* The Notebook custom resource as the API server stores it, and what the  *)
(* mutating admission webhook of odh-notebook-controller                   *)
(* (notebook_mutating_webhook.go) makes of a create or an update.          *)
(*                                                                         *)
(* Of a Notebook the model keeps the fields the controllers decide on:     *)
(*   stop     the kubeflow-resource-stopped annotation: absent, the        *)
(*            reconciliation lock, or the timestamp of a real stop;        *)
(*   restart  the notebook-restart annotation is "true";                   *)
(*   user     the part of the pod template that only users write;          *)
(*   inj      the part of the pod template the webhook injects: the TLS    *)
(*            flags of kube-rbac-proxy, as the version of the cluster's    *)
(*            profile they were computed from, and the mount of the CA     *)
(*            bundle with its variables (0: none, otherwise the order in   *)
(*            which the variables were appended);                          *)
(*   pending  the update-pending annotation;                               *)
(*   fin      the clean-up finalizers of odh-notebook-controller are set;  *)
(*   rv       metadata.resourceVersion.                                    *)
(* The status is not kept: its writes are, because they change rv.         *)
(***************************************************************************)
EXTENDS Naturals

NoStop  == "none"
Lock    == "odh-notebook-controller-lock"
Stopped == "stopped"
StopAnnotation == {NoStop, Lock, Stopped}

\* The update-pending annotation: absent, the reason the TLS reconciler
\* writes, or the template difference the webhook reports.
UpdatePending == {"none", "tls", "diff"}

Injected == [tls: Nat, ca: Nat]

Notebooks == [rv: Nat, stop: StopAnnotation, restart: BOOLEAN, user: Nat,
              inj: Injected, pending: UpdatePending, fin: BOOLEAN]

Templates == [user: Nat, inj: Injected]

\* Spec.Template.Spec of a Notebook.
Template(n) == [user |-> n.user, inj |-> n.inj]

\* ReconciliationLockIsEnabled: the stop annotation holds the lock's value.
ReconciliationLockIsEnabled(n) == n.stop = Lock

\* Fault: the lock is not put on a notebook that is being created.
FaultNoLock(n) == n

\* InjectReconciliationLock overwrites any stop annotation of a new Notebook.
InjectReconciliationLock(n) == [n EXCEPT !.stop = Lock]

\* The mutations Handle makes to the pod template: its injected part becomes c.
InjectTemplate(n, c) == [n EXCEPT !.inj = c]

\* Fault: the webhook's own template changes are never held back.
FaultNeverBlock(old, new, mutated) == [mutated EXCEPT !.pending = "none"]

(***************************************************************************)
(* maybeRestartRunningNotebook for an update of old to new that the        *)
(* webhook turned into mutated: a running notebook keeps the template it   *)
(* was sent with, and is marked, when only the webhook would change it.    *)
(***************************************************************************)
maybeRestartRunningNotebook(old, new, mutated) ==
    IF \/ new.stop # NoStop
       \/ new.restart
       \/ Template(old) # Template(new)
       \/ Template(old) = Template(mutated)
    THEN [mutated EXCEPT !.pending = "none"]
    ELSE [mutated EXCEPT !.inj = new.inj, !.pending = "diff"]

\* Handle for a create request.
HandleCreate(n, c) ==
    [InjectTemplate(InjectReconciliationLock(n), c) EXCEPT !.pending = "none"]

\* Handle for an update request (an Update or a Patch of any client).
HandleUpdate(old, new, c) ==
    maybeRestartRunningNotebook(old, new, InjectTemplate(new, c))

\* What the API server stores: a write that changes nothing keeps the version.
Stored(old, new) ==
    IF [new EXCEPT !.rv = old.rv] = old THEN old
    ELSE [new EXCEPT !.rv = old.rv + 1]

\* An update of the stored Notebook old, through admission, to storage.
Written(old, new, c) == Stored(old, HandleUpdate(old, new, c))
================================================================================

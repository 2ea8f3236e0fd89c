------------------------------ MODULE OdhCleanup ------------------------------
(***************************************************************************)
(* What odh-notebook-controller provides for the Notebooks of one          *)
(* namespace and takes away again (OpenshiftNotebookReconciler.Reconcile): *)
(* an HTTPRoute per notebook in the controller's namespace, attached to    *)
(* the Gateway the ingress configuration assigns to the namespace, a       *)
(* ClusterRoleBinding per notebook with kube-rbac-proxy, and one           *)
(* ReferenceGrant shared by all of them.  None of these can have an owner  *)
(* reference to the Notebook, so finalizers hold a deleted Notebook until  *)
(* they are gone.  A Notebook that an earlier release has left behind has  *)
(* an OAuthClient and a finalizer of its own for that.                     *)
(*                                                                         *)
(* The controller has one worker.  It reads Notebooks (nbC), routes,       *)
(* bindings and the grant (routeC, crbC, grantC) from caches that lag.     *)
(* fresh says which cached Notebooks are the stored version.               *)
(***************************************************************************)
EXTENDS Naturals, FiniteSets, Sequences

CONSTANTS
    NB,         \* names of Notebooks
    Migrated,   \* those stored by a release that made OAuthClients
    MaxEvents   \* bound on what users and administrators do, failing calls
                \* and crashes together

ASSUME NBAssumption == NB # {} /\ IsFiniteSet(NB)
ASSUME MigratedAssumption == Migrated \subseteq NB
ASSUME BoundAssumption == MaxEvents \in Nat

VARIABLES
    nb, nbC, fresh,     \* stored Notebooks, cached ones, is it the same one
    route, crb, grant,  \* the objects provided
    routeC, crbC, grantC,
    client,             \* the OAuthClients
    routeNews, grantNews, \* watch events on their way
    config, configC,    \* the ingress configuration, and as last watched
    configNews,         \* the changes of it on their way
    assigned,           \* the namespace names an ingress (cached Namespace)
    queue,              \* the work queue
    work,               \* the running reconcile
    events,             \* acts, failing calls and crashes so far
    tampered,           \* history: somebody else deleted the grant
    switched,           \* history: Notebooks whose user changed inject-auth
    missed,             \* history: the last clean-up did not list the route
    overlooked          \* history: the last reconcile took the copy of a grant
                        \* that was gone for the grant

routes   == <<route, routeC, routeNews>>
bindings == <<crb, crbC, client>>
grants   == <<grant, grantC, grantNews>>
objects  == <<routes, bindings, grants>>
ingress  == <<config, configC, configNews, assigned>>
excuses  == <<tampered, switched, missed, overlooked>>
history  == <<events, excuses>>
vars     == <<nb, nbC, fresh, objects, ingress, queue, work, history>>

Finalizers == {"route", "grant", "proxy", "oauth"}
Phases == {"absent", "active", "deleting"}
Notebooks == [phase: Phases, auth: BOOLEAN, fins: SUBSET Finalizers]
Gone == [phase |-> "absent", auth |-> FALSE, fins |-> {}]
MigratedNotebook == [phase |-> "active", auth |-> FALSE, fins |-> {"oauth"}]

\* An HTTPRoute: its backend, and the Gateway it is attached to.
Routes == [to: {"none", "regular", "proxy"}, via: {"none", "default", "extra", "moved"}]
NoRoute == [to |-> "none", via |-> "none"]

\* The ingresses key of the configuration: the default ingress only, one more,
\* that one with another Gateway, or data that cannot be parsed.
Configs == {"default", "extra", "moved", "invalid"}

Pcs == {"idle", "finalizers", "grant", "conflicting", "binding", "route",
        "delOAuth", "offOAuth", "delRoute", "delGrant", "delProxy", "delFinalizers"}

Nobody == "nobody"

TypeOK ==
    /\ nb \in [NB -> Notebooks] /\ nbC \in [NB -> Notebooks]
    /\ fresh \in [NB -> BOOLEAN]
    /\ route \in [NB -> Routes] /\ routeC \in [NB -> Routes]
    /\ crb \in [NB -> BOOLEAN] /\ crbC \in [NB -> BOOLEAN]
    /\ grant \in BOOLEAN /\ grantC \in BOOLEAN
    /\ client \in [NB -> BOOLEAN]
    /\ routeNews \in SUBSET NB /\ grantNews \in BOOLEAN
    /\ config \in Configs /\ configC \in Configs /\ configNews \in Seq(Configs)
    /\ assigned \in BOOLEAN
    /\ queue \in SUBSET NB
    /\ work \in [pc: Pcs, name: NB \cup {Nobody}, inst: Notebooks,
                 remove: SUBSET Finalizers, failed: BOOLEAN, config: Configs]
    /\ events \in 0..MaxEvents
    /\ tampered \in BOOLEAN /\ switched \in SUBSET NB
    /\ missed \in SUBSET NB /\ overlooked \in BOOLEAN

IdleWork == [pc |-> "idle", name |-> Nobody, inst |-> Gone, remove |-> {},
             failed |-> FALSE, config |-> "default"]

Init ==
    /\ nb = [n \in NB |-> IF n \in Migrated THEN MigratedNotebook ELSE Gone]
    /\ nbC = nb /\ fresh = [n \in NB |-> TRUE]
    /\ client = [n \in NB |-> n \in Migrated]
    /\ route = [n \in NB |-> NoRoute] /\ routeC = route
    /\ crb = [n \in NB |-> FALSE] /\ crbC = crb
    /\ grant = FALSE /\ grantC = FALSE
    /\ routeNews = {} /\ grantNews = FALSE
    /\ config = "extra" /\ configC = "extra" /\ configNews = <<>>
    /\ assigned = TRUE
    /\ queue = Migrated /\ work = IdleWork
    /\ events = 0 /\ tampered = FALSE /\ switched = {}
    /\ missed = {} /\ overlooked = FALSE

--------------------------------------------------------------------------------
(* Users, administrators, informers.                                       *)

Count == events < MaxEvents /\ events' = events + 1
Act == Count /\ UNCHANGED excuses
Fault == Act
NoFault == UNCHANGED history

\* A deleted Notebook without finalizers is gone.
Store(n, new) ==
    /\ nb' = [nb EXCEPT ![n] =
                IF new.phase = "deleting" /\ new.fins = {} THEN Gone ELSE new]
    /\ fresh' = [fresh EXCEPT ![n] = @ /\ nb'[n] = nb[n]]
    /\ UNCHANGED nbC

\* Writes of the objects: the caches do not have them yet.  A change of a
\* route or of the grant is an event.
PutRoute(n, r) ==
    /\ route' = [route EXCEPT ![n] = r]
    /\ routeNews' = IF r = route[n] THEN routeNews ELSE routeNews \cup {n}
    /\ UNCHANGED routeC

PutGrant(g) ==
    /\ grant' = g
    /\ grantNews' = (grantNews \/ g # grant)
    /\ UNCHANGED grantC

PutBinding(n, b) ==
    /\ crb' = [crb EXCEPT ![n] = b]
    /\ UNCHANGED <<crbC, client>>

UserWrite(n, new) ==
    /\ Store(n, new)
    /\ UNCHANGED <<objects, ingress, queue, work>>

CreateNotebook(n) ==
    /\ nb[n].phase = "absent"
    /\ Act
    /\ \E auth \in BOOLEAN :
          UserWrite(n, [phase |-> "active", auth |-> auth, fins |-> {}])

ToggleAuth(n) ==
    /\ nb[n].phase # "absent"
    /\ Count /\ switched' = switched \cup {n} /\ UNCHANGED <<tampered, missed, overlooked>>
    /\ UserWrite(n, [nb[n] EXCEPT !.auth = ~@])

DeleteNotebook(n) ==
    /\ nb[n].phase = "active"
    /\ Act
    /\ UserWrite(n, [nb[n] EXCEPT !.phase = "deleting"])

\* Somebody deletes the shared ReferenceGrant.
DropGrant ==
    /\ grant
    /\ Count /\ tampered' = TRUE /\ UNCHANGED <<switched, missed, overlooked>>
    /\ PutGrant(FALSE)
    /\ UNCHANGED <<nb, nbC, fresh, routes, bindings, ingress, queue, work>>

\* An administrator writes the configuration.
ChangeConfig ==
    /\ Act
    /\ \E c \in Configs \ {config} :
          config' = c /\ configNews' = Append(configNews, c)
    /\ UNCHANGED <<nb, nbC, fresh, objects, configC, assigned, queue, work>>

\* notebookIngress: the Gateway of the namespace under configuration c, or why
\* there is none.
notebookIngress(c) ==
    IF c = "invalid" THEN "invalid"
    ELSE IF ~assigned THEN "default"
    ELSE IF c = "default" THEN "unknown" ELSE c

\* Fault: an unusable configuration is treated as the default one.
FaultFallBack(a) == FALSE

\* unresolvable: both kinds of bad assignment remove the route.
unresolvable(a) == a \in {"unknown", "invalid"}

\* notebookRequests: every cached Notebook.
notebookRequests == {n \in NB : nbC[n].phase # "absent"}

\* Fault: only a change between usable and unusable is noticed.
FaultSameIfUsable(old, new) ==
    IF unresolvable(notebookIngress(old)) # unresolvable(notebookIngress(new))
    THEN notebookRequests ELSE {}

\* ingressConfigRequests: nobody, unless the namespace's Gateway has changed.
ingressConfigRequests(old, new) ==
    LET before == notebookIngress(old)
        after  == notebookIngress(new)
    IN IF \/ unresolvable(before) # unresolvable(after)
          \/ ~unresolvable(before) /\ before # after
       THEN notebookRequests ELSE {}

\* configMapHandler, on an update of the configuration.
SyncConfig ==
    /\ configNews # <<>>
    /\ configC' = Head(configNews) /\ configNews' = Tail(configNews)
    /\ queue' = queue \cup ingressConfigRequests(configC, Head(configNews))
    /\ UNCHANGED <<nb, nbC, fresh, objects, config, assigned, work, history>>

\* The ingress-name annotation of the Namespace is set or removed: the cache
\* has it when the event queues every Notebook.
AssignIngress ==
    /\ Act
    /\ assigned' = ~assigned
    /\ queue' = queue \cup notebookRequests
    /\ UNCHANGED <<nb, nbC, fresh, objects, config, configC, configNews, work>>

SyncNotebook(n) ==
    /\ ~fresh[n]
    /\ nbC' = [nbC EXCEPT ![n] = nb[n]]
    /\ fresh' = [fresh EXCEPT ![n] = TRUE]
    /\ queue' = queue \cup {n}
    /\ UNCHANGED <<nb, objects, ingress, work, history>>

\* An HTTPRoute event queues the Notebook its labels name.
SyncRoute(n) ==
    /\ n \in routeNews
    /\ routeC' = [routeC EXCEPT ![n] = route[n]]
    /\ routeNews' = routeNews \ {n}
    /\ queue' = queue \cup {n}
    /\ UNCHANGED <<nb, nbC, fresh, route, bindings, grants, ingress, work, history>>

\* ClusterRoleBindings are cached but not watched.
SyncBinding(n) ==
    /\ crbC[n] # crb[n]
    /\ crbC' = [crbC EXCEPT ![n] = crb[n]]
    /\ UNCHANGED <<nb, nbC, fresh, routes, crb, client, grants, ingress, queue,
                   work, history>>

\* Fault: nobody is told of a change of the grant.
FaultGrantUnwatched(q) == q = {}

\* A ReferenceGrant event queues one Notebook of the namespace, the first of
\* a list in no particular order.
GrantRequests(q) ==
    IF notebookRequests = {} THEN q = {} ELSE \E n \in notebookRequests : q = {n}

SyncGrant ==
    /\ grantNews
    /\ grantC' = grant /\ grantNews' = FALSE
    /\ \E q \in SUBSET NB : GrantRequests(q) /\ queue' = queue \cup q
    /\ UNCHANGED <<nb, nbC, fresh, routes, bindings, grant, ingress, work,
                   history>>

--------------------------------------------------------------------------------
(* The reconcile.                                                          *)

At(pc) == work.pc = pc
Go(pc) == work' = [work EXCEPT !.pc = pc] /\ UNCHANGED queue

Finish  == work' = IdleWork /\ UNCHANGED queue
Requeue == work' = IdleWork /\ queue' = queue \cup {work.name}

\* A call fails: return the error.
CallFails ==
    /\ work.pc \in {"finalizers", "grant", "conflicting", "binding", "route",
                    "delOAuth", "offOAuth", "delFinalizers"}
    /\ Fault /\ Requeue
    /\ UNCHANGED <<nb, nbC, fresh, objects, ingress>>

\* The finalizers Reconcile wants on an active Notebook.
finalizersToAdd(n) ==
    ({"route", "grant"} \cup IF n.auth THEN {"proxy"} ELSE {}) \ n.fins

Start(n) ==
    /\ At("idle") /\ n \in queue
    /\ queue' = queue \ {n}
    /\ work' = IF nbC[n].phase = "absent" THEN IdleWork
               ELSE [IdleWork EXCEPT
                        !.name = n, !.inst = nbC[n],
                        !.pc = IF nbC[n].phase = "deleting"
                               THEN IF "oauth" \in nbC[n].fins THEN "delOAuth" ELSE "delRoute"
                               ELSE IF finalizersToAdd(nbC[n]) # {}
                               THEN "finalizers" ELSE "grant"]
    /\ UNCHANGED <<nb, nbC, fresh, objects, ingress, history>>

\* Add the finalizers to the re-read Notebook, and come back.  The API server
\* refuses an older version and new finalizers on a deleted Notebook.
AddFinalizers ==
    /\ At("finalizers")
    /\ LET n == work.name
       IN IF fresh[n] /\ nb[n].phase = "active"
          THEN Store(n, [nb[n] EXCEPT !.fins = @ \cup finalizersToAdd(work.inst)])
          ELSE UNCHANGED <<nb, nbC, fresh>>
    /\ Requeue /\ NoFault
    /\ UNCHANGED <<objects, ingress>>

\* Take a snapshot of the configuration (not from the cache), then
\* ReconcileReferenceGrant: a grant created meanwhile is as good, but so is
\* the copy of one that has just been deleted.
ReconcileReferenceGrant ==
    /\ At("grant")
    /\ PutGrant(grant \/ ~grantC)
    /\ overlooked' = ~grant'
    /\ work' = [work EXCEPT !.pc = "conflicting", !.config = config]
    /\ UNCHANGED <<queue, events, tampered, switched, missed>>
    /\ UNCHANGED <<nb, nbC, fresh, routes, bindings, ingress>>

\* Does this route conflict with the mode?
Conflicting(r, auth) == r.to = IF auth THEN "regular" ELSE "proxy"

EnsureConflictingHTTPRouteAbsent ==
    /\ At("conflicting")
    /\ IF Conflicting(routeC[work.name], work.inst.auth)
       THEN PutRoute(work.name, NoRoute) ELSE UNCHANGED routes
    /\ Go("binding") /\ NoFault
    /\ UNCHANGED <<nb, nbC, fresh, bindings, grants, ingress>>

\* ReconcileKubeRbacProxyClusterRoleBinding, or its clean-up without auth.
ReconcileBinding ==
    /\ At("binding")
    /\ PutBinding(work.name,
                  work.inst.auth /\ (crb[work.name] \/ ~crbC[work.name]))
    /\ Go("route") /\ NoFault
    /\ UNCHANGED <<nb, nbC, fresh, routes, grants, ingress>>

\* NewNotebookHTTPRoute, NewNotebookKubeRbacProxyHTTPRoute
DesiredRoute(n, gateway) ==
    [to |-> IF n.auth THEN "proxy" ELSE "regular", via |-> gateway]

\* reconcileHTTPRoute: delete, create or update the route that was listed.
ReconcileHTTPRoute ==
    /\ At("route") /\ NoFault
    /\ LET n    == work.name
           gw   == notebookIngress(work.config)
           want == DesiredRoute(work.inst, gw)
           seen == routeC[n]
       IN \/ /\ unresolvable(gw)
             /\ IF seen = NoRoute THEN UNCHANGED routes ELSE PutRoute(n, NoRoute)
             /\ Finish
          \/ /\ ~unresolvable(gw) /\ seen = NoRoute
             /\ IF route[n] = NoRoute THEN PutRoute(n, want)
                ELSE UNCHANGED routes                    \* AlreadyExists
             /\ Finish
          \/ /\ ~unresolvable(gw) /\ seen = want
             /\ UNCHANGED routes /\ Finish
          \/ /\ ~unresolvable(gw) /\ seen \notin {NoRoute, want}
             /\ IF seen = route[n]
                THEN PutRoute(n, want) /\ Finish
                ELSE UNCHANGED routes /\ Requeue         \* Conflict, NotFound
    /\ UNCHANGED <<nb, nbC, fresh, bindings, grants, ingress>>

\* Fault: the finalizer is removed, and then the OAuthClient.
FaultOAuthLast ==
    \/ /\ At("delOAuth")
       /\ IF nb[work.name] = work.inst
          THEN Store(work.name, [nb[work.name] EXCEPT !.fins = @ \ {"oauth"}]) /\ Go("offOAuth")
          ELSE UNCHANGED <<nb, nbC, fresh>> /\ Requeue
       /\ NoFault /\ UNCHANGED <<objects, ingress>>
    \/ /\ At("offOAuth")
       /\ client' = [client EXCEPT ![work.name] = FALSE]
       /\ work' = [work EXCEPT !.pc = "delRoute", !.inst.fins = @ \ {"oauth"}]
       /\ NoFault
       /\ UNCHANGED <<nb, nbC, fresh, routes, crb, crbC, grants, ingress, queue>>

\* deleteOAuthClient, then removeOAuthClientFinalizer: an update of the Notebook
\* as it was read when the reconcile began, with no retry.
DelOAuth ==
    \/ /\ At("delOAuth")
       /\ client' = [client EXCEPT ![work.name] = FALSE]
       /\ Go("offOAuth") /\ NoFault
       /\ UNCHANGED <<nb, nbC, fresh, routes, crb, crbC, grants, ingress>>
    \/ /\ At("offOAuth")
       /\ IF nb[work.name] = work.inst
          THEN /\ Store(work.name, [nb[work.name] EXCEPT !.fins = @ \ {"oauth"}])
               /\ work' = [work EXCEPT !.pc = "delRoute", !.inst.fins = @ \ {"oauth"}]
               /\ UNCHANGED queue
          ELSE UNCHANGED <<nb, nbC, fresh>> /\ Requeue
       /\ NoFault /\ UNCHANGED <<objects, ingress>>

\* DeleteHTTPRouteForNotebook: the listed route is deleted, or that fails.  A
\* route the cache does not have yet is not listed, and missed.
DelRoute ==
    /\ At("delRoute")
    /\ UNCHANGED queue
    /\ LET next == [work EXCEPT !.pc = "delGrant"] IN
       \/ /\ "route" \notin work.inst.fins
          /\ work' = next /\ UNCHANGED routes /\ NoFault
       \/ /\ "route" \in work.inst.fins
          /\ IF routeC[work.name] = NoRoute THEN UNCHANGED routes
             ELSE PutRoute(work.name, NoRoute)
          /\ work' = [next EXCEPT !.remove = @ \cup {"route"}]
          /\ missed' = IF route'[work.name] = NoRoute
                       THEN missed \ {work.name} ELSE missed \cup {work.name}
          /\ UNCHANGED <<events, tampered, switched, overlooked>>
       \/ /\ "route" \in work.inst.fins /\ Fault
          /\ work' = [next EXCEPT !.failed = TRUE] /\ UNCHANGED routes
    /\ UNCHANGED <<nb, nbC, fresh, bindings, grants, ingress>>

\* Fault: the other Notebooks of the namespace are not counted.
FaultAlwaysLast(n) == TRUE

\* isLastNotebookInNamespace: no other cached Notebook stays.
isLastNotebookInNamespace(n) == \A m \in NB \ {n} : nbC[m].phase # "active"

\* DeleteReferenceGrantIfLastNotebook
DelGrant ==
    /\ At("delGrant")
    /\ UNCHANGED queue
    /\ LET next == [work EXCEPT !.pc = "delProxy"] IN
       \/ /\ "grant" \notin work.inst.fins
          /\ work' = next /\ UNCHANGED grants /\ NoFault
       \/ /\ "grant" \in work.inst.fins
          /\ PutGrant(grant /\ ~isLastNotebookInNamespace(work.name))
          /\ work' = [next EXCEPT !.remove = @ \cup {"grant"}] /\ NoFault
       \/ /\ "grant" \in work.inst.fins /\ Fault
          /\ work' = [next EXCEPT !.failed = TRUE] /\ UNCHANGED grants
    /\ UNCHANGED <<nb, nbC, fresh, routes, bindings, ingress>>

\* CleanupKubeRbacProxyClusterRoleBinding while the annotation asks for it; the
\* finalizer goes when the clean-up succeeded or was not needed.
DelProxy ==
    /\ At("delProxy")
    /\ UNCHANGED queue
    /\ LET next == [work EXCEPT !.pc = "delFinalizers"]
           done == [next EXCEPT !.remove = @ \cup ({"proxy"} \cap work.inst.fins)]
       IN \/ /\ ~work.inst.auth
             /\ work' = done /\ UNCHANGED bindings /\ NoFault
          \/ /\ work.inst.auth
             /\ PutBinding(work.name, FALSE)
             /\ work' = done /\ NoFault
          \/ /\ work.inst.auth /\ Fault
             /\ work' = [next EXCEPT !.failed = TRUE] /\ UNCHANGED bindings
    /\ UNCHANGED <<nb, nbC, fresh, routes, grants, ingress>>

\* Fault: all finalizers go once one clean-up was done.
FaultDropAllFinalizers(n, remove) ==
    [n EXCEPT !.fins = IF remove = {} THEN @ ELSE {}]

\* The Notebook without the finalizers of the clean-ups that succeeded.
RemoveFinalizers(n, remove) == [n EXCEPT !.fins = @ \ remove]

\* Take off the finalizers from the re-read Notebook, even after a failure;
\* then retry what failed.
DelFinalizers ==
    /\ At("delFinalizers") /\ NoFault
    /\ LET n        == work.name
           present  == nbC[n].phase # "absent"
           modified == work.remove \cap nbC[n].fins # {}
       IN \/ /\ work.remove = {} \/ (present /\ ~modified)
             /\ UNCHANGED <<nb, nbC, fresh>>
             /\ IF work.failed THEN Requeue ELSE Finish
          \/ /\ modified /\ fresh[n]
             /\ Store(n, RemoveFinalizers(nb[n], work.remove))
             /\ IF work.failed THEN Requeue ELSE Finish
          \/ /\ work.remove # {}
             /\ ~present \/ (modified /\ ~fresh[n])        \* NotFound, Conflict
             /\ UNCHANGED <<nb, nbC, fresh>> /\ Requeue
    /\ UNCHANGED <<objects, ingress>>

\* The process dies and lists everything anew.
Crash ==
    /\ Fault
    /\ work' = IdleWork
    /\ nbC' = nb /\ fresh' = [n \in NB |-> TRUE]
    /\ routeC' = route /\ crbC' = crb /\ grantC' = grant
    /\ routeNews' = {} /\ grantNews' = FALSE
    /\ configC' = config /\ configNews' = <<>>
    /\ queue' = {n \in NB : nb[n].phase # "absent"}
    /\ UNCHANGED <<nb, route, crb, client, grant, config, assigned>>

--------------------------------------------------------------------------------
User == \/ \E n \in NB : CreateNotebook(n) \/ ToggleAuth(n) \/ DeleteNotebook(n)
        \/ DropGrant \/ ChangeConfig \/ AssignIngress
Informers == \/ \E n \in NB : SyncNotebook(n) \/ SyncRoute(n) \/ SyncBinding(n)
             \/ SyncGrant \/ SyncConfig
Provide == AddFinalizers \/ ReconcileReferenceGrant
            \/ EnsureConflictingHTTPRouteAbsent \/ ReconcileBinding
            \/ ReconcileHTTPRoute
CleanUp == DelOAuth \/ DelRoute \/ DelGrant \/ DelProxy \/ DelFinalizers
Reconcile == (\E n \in NB : Start(n)) \/ Provide \/ CleanUp

Next == User \/ Informers \/ Reconcile \/ CallFails \/ Crash

Spec == Init /\ [][Next]_vars

\* Informers deliver and the work queue is served, every key in turn.
FairSpec ==
    /\ Spec
    /\ WF_vars(Informers)
    /\ WF_vars(Provide \/ CleanUp)
    /\ \A n \in NB : SF_vars(Start(n))

--------------------------------------------------------------------------------
(* Properties.                                                             *)

\* No HTTPRoute is left in the controller's namespace, where nobody else would
\* collect it, when its Notebook is gone: the finalizer is put on before the
\* first route and taken off after the last ("We will use finalizers for
\* cleanup instead"), through crashes, failed calls, re-creations and old
\* copies of Notebooks and routes.  The one way out is named: the last clean-up
\* listed routes from a cache that did not have this one yet (notebook_route.go,
\* DeleteHTTPRouteForNotebook), and took the finalizer off all the same.
RouteHasOwner ==
    \A n \in NB \ missed : route[n] # NoRoute => "route" \in nb[n].fins

\* The same of an OAuthClient of an earlier release, whose finalizer is removed
\* by an update of its own that may fail after the client is gone.
ClientHasOwner == \A n \in NB : client[n] => "oauth" \in nb[n].fins

\* The same of the ClusterRoleBinding, as long as the user does not switch
\* kube-rbac-proxy on or off: a clean-up that failed among several that did
\* not is made up for before the Notebook goes.
BindingHasOwner ==
    \A n \in NB \ switched : crb[n] => "proxy" \in nb[n].fins

\* The traffic of a Notebook that stays is never cut off because another one
\* of the namespace is deleted: while it has a route there is a grant, even
\* if the list isLastNotebookInNamespace reads lacks Notebooks or holds old
\* ones.  What can take the grant from it is named: somebody else deleted the
\* grant; or the clean-up of the last Notebook did, and EnsureReferenceGrant
\* found it in its cache still when the next Notebook came; or the route is one
\* a clean-up missed, and not yet the new Notebook's.
RouteHasGrant ==
    (\E n \in NB \ missed : nb[n].phase = "active" /\ route[n] # NoRoute)
        => grant \/ tampered \/ overlooked

\* The route a Notebook should have under the stored configuration.
RightRoute(n) ==
    LET gw == notebookIngress(config) IN
    CASE nb[n].phase = "active" /\ ~unresolvable(gw) -> route[n] = DesiredRoute(nb[n], gw)
      [] nb[n].phase = "active" /\ unresolvable(gw) -> route[n] = NoRoute
      [] OTHER -> TRUE

\* When users and faults come to rest no deletion hangs, and every Notebook
\* has the route of its mode and of the configured Gateway, or none if the
\* assignment is unusable: no stale snapshot, stale cache or filtered event
\* leaves an old route serving.
EventuallyRouted ==
    <>[](\A n \in NB : nb[n].phase # "deleting" /\ RightRoute(n))

GrantWhereNeeded == (\E n \in NB : nb[n].phase = "active") => grant

\* As long as no Notebook the controller knows of is deleted, a lost grant is
\* restored for good.  (The event of a lost grant queues one Notebook, and one
\* that is being deleted, or is gone but still cached, does not restore it.)
GrantRestored ==
    [](\A n \in NB : nbC[n].phase # "absent" => nb[n].phase = "active")
        => <>[]GrantWhereNeeded
================================================================================

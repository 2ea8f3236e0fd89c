--------------------------- MODULE OdhCleanupProofs ----------------------------
(***************************************************************************)
(* Proofs about OdhCleanup, for every set of Notebooks and every bound:    *)
(* nothing that is provided outside a Notebook's namespace outlives it but *)
(* what the properties name.                                               *)
(* The argument is about incarnations.  A stored Notebook with finalizers  *)
(* keeps them until the worker itself takes them off, and the worker does  *)
(* so from a fresh copy only; so a copy and a stored Notebook that both    *)
(* have finalizers are of the same incarnation (CacheInv), and what the    *)
(* running reconcile has read stays true of what is stored (ProvidingInv,  *)
(* CleaningInv).  Of the copies of routes, bindings and the grant nothing  *)
(* is assumed: where they mislead the controller, missed and overlooked    *)
(* record it.                                                              *)
(***************************************************************************)
EXTENDS OdhCleanup, TLAPS

USE DEF excuses

Providing == {"grant", "conflicting", "binding", "route"}
Cleaning  == {"delOAuth", "offOAuth", "delRoute", "delGrant", "delProxy",
              "delFinalizers"}

\* The copy of one Notebook.
Copied(n) ==
    /\ fresh[n] => nbC[n] = nb[n]
    /\ nb[n].phase = "absent" => nb[n] = Gone
    /\ nb[n].phase = "active" /\ nb[n].fins # {} => nbC[n].phase = "active"
    /\ nbC[n].phase = "active" => nbC[n].fins \subseteq nb[n].fins
    /\ n \notin switched /\ nbC[n].fins # {} /\ nb[n].fins # {}
          => nb[n].auth = nbC[n].auth

CacheInv == \A n \in NB : Copied(n)

\* The reconcile of an active Notebook has its finalizers in place.
ProvidingInv ==
    work.pc \in Providing =>
        /\ {"route", "grant"} \subseteq work.inst.fins
        /\ work.inst.auth => "proxy" \in work.inst.fins
        /\ work.inst.fins \subseteq nb[work.name].fins
        /\ work.name \notin switched => nb[work.name].auth = work.inst.auth

\* The reconcile of a deleted Notebook meets no later one with finalizers.
CleaningInv ==
    work.pc \in Cleaning =>
        /\ work.inst.phase = "deleting"
        /\ nb[work.name].phase = "active" => nb[work.name].fins = {}
        /\ nbC[work.name].phase = "active" => nbC[work.name].fins = {}
        /\ work.name \notin switched /\ work.inst.fins # {} /\ nb[work.name].fins # {}
              => nb[work.name].auth = work.inst.auth

\* A finalizer is marked for removal when what it stands for is gone, or was
\* missed.
RemovalInv ==
    /\ work.pc # "idle" => work.name \in NB
    /\ work.pc = "offOAuth" => ~client[work.name]
    /\ work.pc \notin Cleaning \ {"delOAuth", "offOAuth"} => work.remove = {}
    /\ "oauth" \notin work.remove
    /\ "route" \in work.remove /\ work.name \notin missed => route[work.name] = NoRoute
    /\ "proxy" \in work.remove => /\ "proxy" \in work.inst.fins
                                  /\ work.inst.auth => ~crb[work.name]

BindingInv ==
    \A n \in NB \ switched : crb[n] => "proxy" \in nb[n].fins /\ nb[n].auth

GrantInv ==
    /\ RouteHasGrant
    /\ work.pc \in {"conflicting", "binding", "route"} => grant \/ tampered \/ overlooked

Inv ==
    /\ TypeOK /\ CacheInv /\ ProvidingInv /\ CleaningInv /\ RemovalInv
    /\ ClientHasOwner /\ BindingInv /\ RouteHasOwner /\ GrantInv

--------------------------------------------------------------------------------
(* Types.                                                                  *)

\* The constant records are of their types.
LEMMA ConstantTypes ==
    /\ Gone \in Notebooks /\ MigratedNotebook \in Notebooks
    /\ NoRoute \in Routes
    /\ IdleWork \in [pc: Pcs, name: NB \cup {Nobody}, inst: Notebooks,
                     remove: SUBSET Finalizers, failed: BOOLEAN, config: Configs]
<1>1. Gone \in Notebooks /\ MigratedNotebook \in Notebooks
  BY DEF Gone, MigratedNotebook, Notebooks, Phases, Finalizers
<1>2. NoRoute \in Routes
  BY DEF NoRoute, Routes
<1> QED BY <1>1, <1>2 DEF IdleWork, Pcs, Configs

\* A stored Notebook is a Notebook, and the others stay as they are.
LEMMA StoreType ==
    ASSUME TypeOK, NEW n \in NB, NEW new \in Notebooks, Store(n, new)
    PROVE  /\ nb' \in [NB -> Notebooks]
           /\ fresh' \in [NB -> BOOLEAN]
           /\ nbC' = nbC
           /\ nb'[n] = IF new.phase = "deleting" /\ new.fins = {} THEN Gone ELSE new
           /\ fresh'[n] <=> fresh[n] /\ nb'[n] = nb[n]
           /\ \A m \in NB \ {n} : nb'[m] = nb[m] /\ fresh'[m] = fresh[m]
<1> DEFINE stored == IF new.phase = "deleting" /\ new.fins = {} THEN Gone ELSE new
<1>1. nb' = [nb EXCEPT ![n] = stored] /\ nbC' = nbC
  BY DEF Store
<1>2. fresh' = [fresh EXCEPT ![n] = fresh[n] /\ nb'[n] = nb[n]]
  BY DEF Store
<1>3. stored \in Notebooks
  BY ConstantTypes
<1>4. nb \in [NB -> Notebooks] /\ fresh \in [NB -> BOOLEAN]
  BY DEF TypeOK
<1> HIDE DEF stored
<1>5. nb' \in [NB -> Notebooks] /\ nb'[n] = stored /\ \A m \in NB \ {n} : nb'[m] = nb[m]
  BY <1>1, <1>3, <1>4
<1>6. /\ fresh' \in [NB -> BOOLEAN]
      /\ fresh'[n] <=> fresh[n] /\ nb'[n] = nb[n]
      /\ \A m \in NB \ {n} : fresh'[m] = fresh[m]
  BY <1>2, <1>4
<1> QED BY <1>1, <1>5, <1>6 DEF stored

\* Written objects are of their types, and without lag the caches follow.
LEMMA PutTypes ==
    ASSUME TypeOK
    PROVE  /\ \A n \in NB, r \in Routes :
                 PutRoute(n, r) => /\ route' \in [NB -> Routes] /\ routeC' \in [NB -> Routes]
                                   /\ routeNews' \in SUBSET NB
                                   /\ route'[n] = r
                                   /\ \A m \in NB \ {n} : route'[m] = route[m]
           /\ \A n \in NB, b \in BOOLEAN :
                 PutBinding(n, b) => /\ crb' \in [NB -> BOOLEAN] /\ crbC' \in [NB -> BOOLEAN]
                                     /\ crb'[n] = b /\ client' = client
                                     /\ \A m \in NB \ {n} : crb'[m] = crb[m]
           /\ \A g \in BOOLEAN :
                 PutGrant(g) => /\ grant' = g /\ grantC' \in BOOLEAN
                                /\ grantNews' \in BOOLEAN
<1>1. ASSUME NEW n \in NB, NEW r \in Routes, PutRoute(n, r)
      PROVE  /\ route' \in [NB -> Routes] /\ routeC' \in [NB -> Routes]
             /\ routeNews' \in SUBSET NB
             /\ route'[n] = r /\ \A m \in NB \ {n} : route'[m] = route[m]
  BY <1>1 DEF TypeOK, PutRoute
<1>2. ASSUME NEW n \in NB, NEW b \in BOOLEAN, PutBinding(n, b)
      PROVE  /\ crb' \in [NB -> BOOLEAN] /\ crbC' \in [NB -> BOOLEAN]
             /\ crb'[n] = b /\ client' = client
             /\ \A m \in NB \ {n} : crb'[m] = crb[m]
  BY <1>2 DEF TypeOK, PutBinding
<1>3. ASSUME NEW g \in BOOLEAN, PutGrant(g)
      PROVE  grant' = g /\ grantC' \in BOOLEAN /\ grantNews' \in BOOLEAN
  BY <1>3 DEF TypeOK, PutGrant
<1> QED BY <1>1, <1>2, <1>3

\* Every initial state satisfies the invariant.
LEMMA InitInv == Init => Inv
<1> SUFFICES ASSUME Init PROVE Inv
  OBVIOUS
<1>1. TypeOK
  <2>1. /\ nb \in [NB -> Notebooks] /\ nbC \in [NB -> Notebooks]
        /\ route \in [NB -> Routes] /\ routeC \in [NB -> Routes]
    BY ConstantTypes DEF Init
  <2>2. /\ fresh \in [NB -> BOOLEAN] /\ crb \in [NB -> BOOLEAN]
        /\ crbC \in [NB -> BOOLEAN] /\ client \in [NB -> BOOLEAN]
    BY DEF Init
  <2>3. /\ grant \in BOOLEAN /\ grantC \in BOOLEAN /\ grantNews \in BOOLEAN
        /\ assigned \in BOOLEAN /\ tampered \in BOOLEAN /\ overlooked \in BOOLEAN
    BY Zenon DEF Init
  <2>4. events \in 0..MaxEvents
    BY BoundAssumption DEF Init
  <2>5. /\ queue \in SUBSET NB /\ routeNews \in SUBSET NB
        /\ switched \in SUBSET NB /\ missed \in SUBSET NB
    BY MigratedAssumption DEF Init
  <2>6. config \in Configs /\ configC \in Configs /\ configNews \in Seq(Configs)
    BY DEF Init, Configs
  <2>7. work \in [pc: Pcs, name: NB \cup {Nobody}, inst: Notebooks,
                  remove: SUBSET Finalizers, failed: BOOLEAN, config: Configs]
    BY ConstantTypes DEF Init
  <2> QED BY <2>1, <2>2, <2>3, <2>4, <2>5, <2>6, <2>7 DEF TypeOK
<1>2. CacheInv
  BY DEF Init, CacheInv, Copied, Gone, MigratedNotebook
<1>3. ProvidingInv /\ CleaningInv /\ RemovalInv
  BY DEF Init, ProvidingInv, CleaningInv, RemovalInv, IdleWork, Providing, Cleaning
<1>4. ClientHasOwner
  BY MigratedAssumption DEF Init, ClientHasOwner, MigratedNotebook
<1>5. BindingInv /\ RouteHasOwner /\ GrantInv
  BY DEF Init, BindingInv, RouteHasOwner, GrantInv, RouteHasGrant, IdleWork
<1> QED BY <1>1, <1>2, <1>3, <1>4, <1>5 DEF Inv

--------------------------------------------------------------------------------
(* Users, administrators and informers.                                    *)

\* A user's write of a Notebook: it keeps the finalizers, and the mode unless
\* the change of it is recorded; one that comes or goes has no finalizers.
LEMMA UserWriteInv ==
    ASSUME Inv, NEW n \in NB, NEW new \in Notebooks, UserWrite(n, new),
           events' \in 0..MaxEvents, UNCHANGED <<tampered, missed, overlooked>>,
           switched' \in SUBSET NB, switched \subseteq switched',
           new.fins = nb[n].fins,
           new.phase # "absent",
           new.phase = "active" => nb[n].phase = "active" \/ new.fins = {},
           new.fins = {} \/ new.auth = nb[n].auth \/ n \in switched'
    PROVE  Inv'
<1> USE DEF Inv
<1>1. /\ nb' \in [NB -> Notebooks] /\ fresh' \in [NB -> BOOLEAN] /\ nbC' = nbC
      /\ nb'[n] = IF new.phase = "deleting" /\ new.fins = {} THEN Gone ELSE new
      /\ fresh'[n] <=> fresh[n] /\ nb'[n] = nb[n]
      /\ \A m \in NB \ {n} : nb'[m] = nb[m] /\ fresh'[m] = fresh[m]
  BY StoreType DEF UserWrite
<1>2. /\ UNCHANGED <<route, routeC, routeNews, crb, crbC, client, grant, grantC,
                      grantNews, config, configC, configNews, assigned, queue, work>>
  BY DEF UserWrite, objects, routes, bindings, grants, ingress
<1>3. /\ nb'[n].fins = nb[n].fins
      /\ nb'[n].phase = "active" /\ nb'[n].fins # {} => nb[n].phase = "active"
      /\ nb'[n].fins = {} \/ nb'[n].auth = nb[n].auth \/ n \in switched'
      /\ nb'[n].phase = "absent" => nb'[n] = Gone
  <2>1. CASE new.phase = "deleting" /\ new.fins = {}
    BY <1>1, <2>1 DEF Gone
  <2>2. CASE ~(new.phase = "deleting" /\ new.fins = {})
    <3>1. nb'[n] = new
      BY <1>1, <2>2
    <3> QED BY <3>1, Zenon
  <2> QED BY <2>1, <2>2
<1>4. TypeOK'
  BY <1>1, <1>2 DEF TypeOK
<1>5. CacheInv'
  <2> SUFFICES ASSUME NEW m \in NB PROVE Copied(m)'
    BY DEF CacheInv
  <2>1. Copied(m)
    BY DEF CacheInv
  <2>2. CASE m = n
    BY <1>1, <1>3, <2>1, <2>2 DEF Copied
  <2>3. CASE m # n
    BY <1>1, <2>1, <2>3 DEF Copied
  <2> QED BY <2>2, <2>3
<1>6. RemovalInv'
  BY <1>2 DEF RemovalInv
<1>7. ProvidingInv'
  <2> SUFFICES ASSUME work.pc \in Providing
               PROVE  /\ work.inst.fins \subseteq nb'[work.name].fins
                      /\ work.name \notin switched' =>
                            nb'[work.name].auth = work.inst.auth
    BY <1>2 DEF ProvidingInv
  <2>1. work.name \in NB /\ work.inst.fins # {}
    BY DEF RemovalInv, ProvidingInv, Providing
  <2>2. CASE work.name = n
    BY <1>3, <2>1, <2>2 DEF ProvidingInv
  <2>3. CASE work.name # n
    BY <1>1, <2>1, <2>3 DEF ProvidingInv
  <2> QED BY <2>2, <2>3
<1>8. CleaningInv'
  <2> SUFFICES ASSUME work.pc \in Cleaning
               PROVE  /\ nb'[work.name].phase = "active" => nb'[work.name].fins = {}
                      /\ nbC[work.name].phase = "active" => nbC[work.name].fins = {}
                      /\ work.name \notin switched' /\ work.inst.fins # {}
                            /\ nb'[work.name].fins # {} =>
                               nb'[work.name].auth = work.inst.auth
    BY <1>1, <1>2 DEF CleaningInv
  <2>1. work.name \in NB
    BY DEF RemovalInv, Cleaning
  <2>2. CASE work.name = n
    BY <1>3, <2>1, <2>2 DEF CleaningInv
  <2>3. CASE work.name # n
    BY <1>1, <2>1, <2>3 DEF CleaningInv
  <2> QED BY <2>2, <2>3
<1>9. ClientHasOwner' /\ RouteHasOwner'
  BY <1>1, <1>2, <1>3 DEF ClientHasOwner, RouteHasOwner
<1>10. BindingInv'
  BY <1>1, <1>2, <1>3 DEF BindingInv
<1>11. GrantInv'
  <2>1. ASSUME NEW m \in NB \ missed, nb'[m].phase = "active", route[m] # NoRoute
        PROVE  nb[m].phase = "active"
    <3>1. nb[m].fins # {}
      BY <2>1 DEF RouteHasOwner
    <3> QED BY <1>1, <1>3, <2>1, <3>1
  <2> QED BY <1>2, <2>1 DEF GrantInv, RouteHasGrant
<1> QED BY <1>4, <1>5, <1>6, <1>7, <1>8, <1>9, <1>10, <1>11

\* A user creates a Notebook, switches kube-rbac-proxy, or deletes a Notebook.
LEMMA UserInv ==
    ASSUME Inv, NEW n \in NB, CreateNotebook(n) \/ ToggleAuth(n) \/ DeleteNotebook(n)
    PROVE  Inv'
<1> USE DEF Inv
<1>1. nb[n] \in Notebooks /\ Copied(n) /\ switched \in SUBSET NB
  BY DEF TypeOK, CacheInv
<1>2. Count => events' \in 0..MaxEvents
  BY BoundAssumption DEF Count, TypeOK
<1>3. CASE CreateNotebook(n)
  <2>1. PICK auth \in BOOLEAN :
           UserWrite(n, [phase |-> "active", auth |-> auth, fins |-> {}])
    BY <1>3 DEF CreateNotebook
  <2> DEFINE new == [phase |-> "active", auth |-> auth, fins |-> {}]
  <2>2. new \in Notebooks /\ new.fins = {} /\ new.phase = "active"
    BY DEF Notebooks, Phases
  <2>3. nb[n].fins = {}
    BY <1>1, <1>3 DEF CreateNotebook, Copied, Gone
  <2>4. events' \in 0..MaxEvents /\ UNCHANGED excuses
    BY <1>2, <1>3 DEF CreateNotebook, Act
  <2> HIDE DEF new
  <2> QED BY <1>1, <2>1, <2>2, <2>3, <2>4, UserWriteInv DEF new
<1>4. CASE ToggleAuth(n)
  <2> DEFINE new == [nb[n] EXCEPT !.auth = ~@]
  <2>1. /\ new \in Notebooks /\ new.fins = nb[n].fins /\ new.phase = nb[n].phase
        /\ nb[n].phase # "absent"
    BY <1>1, <1>4 DEF Notebooks, ToggleAuth
  <2>2. /\ events' \in 0..MaxEvents /\ UNCHANGED <<tampered, missed, overlooked>>
        /\ switched' \in SUBSET NB /\ switched \subseteq switched' /\ n \in switched'
        /\ UserWrite(n, new)
    BY <1>1, <1>2, <1>4 DEF ToggleAuth
  <2> HIDE DEF new
  <2> QED BY <2>1, <2>2, UserWriteInv
<1>5. CASE DeleteNotebook(n)
  <2> DEFINE new == [nb[n] EXCEPT !.phase = "deleting"]
  <2>1. /\ new \in Notebooks /\ new.fins = nb[n].fins /\ new.phase = "deleting"
        /\ new.auth = nb[n].auth
    BY <1>1 DEF Notebooks, Phases
  <2>2. /\ events' \in 0..MaxEvents /\ UNCHANGED excuses
        /\ UserWrite(n, new)
    BY <1>2, <1>5 DEF DeleteNotebook, Act
  <2> HIDE DEF new
  <2> QED BY <1>1, <2>1, <2>2, UserWriteInv
<1> QED BY <1>3, <1>4, <1>5

\* Steps that leave Notebooks, objects and the running reconcile alone.
Aside ==
    UNCHANGED <<nb, nbC, fresh, route, routeC, crb, client, grant, grantC,
                work, excuses>>

\* Such a step keeps all but the types of what it changes.
LEMMA AsideInv ==
    ASSUME Inv, Aside, TypeOK'
    PROVE  Inv'
<1> USE DEF Inv, Aside
<1>1. CacheInv'
  BY DEF CacheInv, Copied
<1>2. ProvidingInv' /\ CleaningInv' /\ RemovalInv'
  BY DEF ProvidingInv, CleaningInv, RemovalInv
<1>3. ClientHasOwner' /\ BindingInv' /\ RouteHasOwner' /\ GrantInv'
  BY DEF ClientHasOwner, BindingInv, RouteHasOwner, GrantInv, RouteHasGrant
<1> QED BY <1>1, <1>2, <1>3

\* The ingress configuration changes, is delivered or assigned anew; a cached
\* binding is brought up to date; nothing happens.
LEMMA IngressInv ==
    ASSUME Inv, \/ ChangeConfig \/ SyncConfig \/ AssignIngress
                \/ \E n \in NB : SyncBinding(n)
                \/ UNCHANGED vars
    PROVE  Inv'
<1> USE DEF Inv
<1>1. notebookRequests \subseteq NB
  BY DEF notebookRequests
<1>2. Aside
  BY DEF ChangeConfig, SyncConfig, AssignIngress, SyncBinding, vars, Act, objects,
         routes,
         bindings, grants, history, Aside
<1>3. ASSUME ChangeConfig PROVE TypeOK'
  BY <1>3, BoundAssumption
     DEF ChangeConfig, Act, Count, TypeOK, objects, routes, bindings, grants
<1>4. ASSUME SyncConfig PROVE TypeOK'
  <2>1. ingressConfigRequests(configC, Head(configNews)) \subseteq NB
    BY <1>1 DEF ingressConfigRequests
  <2> QED BY <1>4, <2>1
     DEF SyncConfig, TypeOK, objects, routes, bindings, grants, history
<1>5. ASSUME AssignIngress PROVE TypeOK'
  BY <1>1, <1>5, BoundAssumption
     DEF AssignIngress, Act, Count, TypeOK, objects, routes, bindings, grants
<1>6. ASSUME NEW n \in NB, SyncBinding(n) PROVE TypeOK'
  BY <1>6 DEF SyncBinding, TypeOK, routes, grants, ingress, history
<1>7. ASSUME UNCHANGED vars PROVE TypeOK'
  BY <1>7 DEF vars, TypeOK, objects, routes, bindings, grants, ingress, history
<1> QED BY <1>2, <1>3, <1>4, <1>5, <1>6, <1>7, AsideInv

\* Somebody deletes the grant: that is on record.
LEMMA DropGrantInv == Inv /\ DropGrant => Inv'
<1> SUFFICES ASSUME Inv, DropGrant PROVE Inv'
  OBVIOUS
<1> USE DEF Inv
<1>1. /\ grant' = FALSE /\ grantC' \in BOOLEAN /\ grantNews' \in BOOLEAN
      /\ tampered' /\ tampered' \in BOOLEAN /\ events' \in 0..MaxEvents
      /\ UNCHANGED <<nb, nbC, fresh, route, routeC, routeNews, crb, crbC, client,
                     config, configC, configNews, assigned, queue, work, switched,
                     missed, overlooked>>
  <2>1. PutGrant(FALSE)
    BY DEF DropGrant
  <2>2. grant' = FALSE /\ grantC' \in BOOLEAN /\ grantNews' \in BOOLEAN
    BY <2>1, PutTypes
  <2>4. tampered' /\ tampered' \in BOOLEAN
    BY Zenon DEF DropGrant
  <2> QED BY <2>2, <2>4, BoundAssumption
       DEF DropGrant, Count, TypeOK, routes, bindings, ingress
<1>2. TypeOK'
  BY <1>1 DEF TypeOK
<1>3. CacheInv'
  BY <1>1 DEF CacheInv, Copied
<1>4. ProvidingInv' /\ CleaningInv' /\ RemovalInv'
  BY <1>1 DEF ProvidingInv, CleaningInv, RemovalInv
<1>5. ClientHasOwner' /\ BindingInv' /\ RouteHasOwner' /\ GrantInv'
  BY <1>1 DEF ClientHasOwner, BindingInv, RouteHasOwner, GrantInv, RouteHasGrant
<1> QED BY <1>2, <1>3, <1>4, <1>5

\* A copy is brought up to date: nothing newer can be read while a reconcile
\* cleans up, but a Notebook without finalizers.
LEMMA SyncNotebookInv ==
    ASSUME Inv, NEW n \in NB, SyncNotebook(n)
    PROVE  Inv'
<1> USE DEF Inv
<1>1. /\ nbC' = [nbC EXCEPT ![n] = nb[n]] /\ fresh' = [fresh EXCEPT ![n] = TRUE]
      /\ queue' = queue \cup {n}
      /\ UNCHANGED <<nb, route, routeC, routeNews, crb, crbC, client, grant, grantC,
                     grantNews, config, configC, configNews, assigned, work, events,
                     excuses>>
  BY DEF SyncNotebook, objects, routes, bindings, grants, ingress, history
<1>2. TypeOK'
  BY <1>1 DEF TypeOK
<1>3. CacheInv'
  <2> SUFFICES ASSUME NEW m \in NB PROVE Copied(m)'
    BY DEF CacheInv
  <2>1. Copied(m) /\ (m = n => nbC'[m] = nb[m])
        /\ (m # n => nbC'[m] = nbC[m] /\ fresh'[m] = fresh[m])
    BY <1>1 DEF CacheInv, TypeOK
  <2> QED BY <1>1, <2>1 DEF Copied
<1>4. ProvidingInv' /\ RemovalInv'
  BY <1>1 DEF ProvidingInv, RemovalInv
<1>5. CleaningInv'
  <2>1. ASSUME work.pc \in Cleaning
        PROVE  nbC'[work.name] \in {nbC[work.name], nb[work.name]}
    BY <1>1 DEF TypeOK
  <2> QED BY <1>1, <2>1 DEF CleaningInv
<1>6. ClientHasOwner' /\ BindingInv' /\ RouteHasOwner' /\ GrantInv'
  BY <1>1 DEF ClientHasOwner, BindingInv, RouteHasOwner, GrantInv, RouteHasGrant
<1> QED BY <1>2, <1>3, <1>4, <1>5, <1>6

\* The copies of routes and of the grant are brought up to date.
LEMMA SyncObjectsInv ==
    ASSUME Inv, SyncGrant \/ \E n \in NB : SyncRoute(n)
    PROVE  Inv'
<1> USE DEF Inv
<1>1. /\ routeC' \in [NB -> Routes] /\ routeNews' \in SUBSET NB
      /\ grantC' \in BOOLEAN /\ grantNews' \in BOOLEAN /\ queue' \in SUBSET NB
      /\ UNCHANGED <<nb, nbC, fresh, route, crb, crbC, client, grant, config, configC,
                     configNews, assigned, work, events, excuses>>
  <2>1. CASE SyncGrant
    <3>1. grantNews' \in BOOLEAN
      BY <2>1, Zenon DEF SyncGrant
    <3> QED BY <2>1, <3>1 DEF SyncGrant, TypeOK, routes, bindings, ingress, history
  <2>2. CASE \E n \in NB : SyncRoute(n)
    <3>1. PICK n \in NB : SyncRoute(n)
      BY <2>2
    <3> QED BY <3>1 DEF SyncRoute, TypeOK, bindings, grants, ingress, history
  <2> QED BY <2>1, <2>2
<1>2. TypeOK'
  BY <1>1 DEF TypeOK
<1>3. CacheInv'
  BY <1>1 DEF CacheInv, Copied
<1>4. ProvidingInv' /\ CleaningInv' /\ RemovalInv'
  BY <1>1 DEF ProvidingInv, CleaningInv, RemovalInv
<1>5. ClientHasOwner' /\ BindingInv' /\ RouteHasOwner' /\ GrantInv'
  BY <1>1 DEF ClientHasOwner, BindingInv, RouteHasOwner, GrantInv, RouteHasGrant
<1> QED BY <1>2, <1>3, <1>4, <1>5

--------------------------------------------------------------------------------
(* The reconcile of an active Notebook.                                    *)

\* The values a running reconcile may have.
Works == [pc: Pcs, name: NB \cup {Nobody}, inst: Notebooks,
          remove: SUBSET Finalizers, failed: BOOLEAN, config: Configs]

\* The reconcile goes on for the same Notebook, or ends.
GoesOn ==
    \/ work' = IdleWork
    \/ /\ work'.name = work.name /\ work'.inst = work.inst
       /\ work'.pc \in Providing => work.pc \in Providing
       /\ work'.pc \in Cleaning => work.pc \in Cleaning

\* As long as no Notebook is written, what it has read stays true.
LEMMA GoesOnInv ==
    ASSUME Inv, GoesOn, UNCHANGED <<nb, nbC, fresh, switched>>
    PROVE  CacheInv' /\ ProvidingInv' /\ CleaningInv'
<1> USE DEF Inv
<1>1. CacheInv'
  BY DEF CacheInv, Copied
<1>2. CASE work' = IdleWork
  BY <1>1, <1>2 DEF ProvidingInv, CleaningInv, IdleWork, Providing, Cleaning
<1>3. CASE work' # IdleWork
  BY <1>1, <1>3 DEF GoesOn, ProvidingInv, CleaningInv
<1> QED BY <1>2, <1>3

\* A reconcile begins: what it reads from the cache is no promise, but the
\* finalizers it finds on an active Notebook are still there.
LEMMA StartInv ==
    ASSUME Inv, NEW n \in NB, Start(n)
    PROVE  Inv'
<1> USE DEF Inv
<1>1. /\ queue' \in SUBSET NB
      /\ UNCHANGED <<nb, nbC, fresh, route, routeC, routeNews, crb, crbC, client, grant,
                     grantC, grantNews, config, configC, configNews, assigned, events,
                     excuses>>
  BY DEF Start, TypeOK, objects, routes, bindings, grants, ingress, history
<1>2. /\ CacheInv' /\ ClientHasOwner' /\ BindingInv' /\ RouteHasOwner'
      /\ RouteHasGrant' = RouteHasGrant
  BY <1>1 DEF CacheInv, Copied, ClientHasOwner, BindingInv, RouteHasOwner, RouteHasGrant
<1>3. CASE work' = IdleWork
  <2>1. ProvidingInv' /\ CleaningInv'
    BY <1>1, <1>3, GoesOnInv DEF GoesOn
  <2>2. TypeOK'
    BY <1>1, <1>3, ConstantTypes DEF TypeOK
  <2>3. RemovalInv' /\ GrantInv'
    BY <1>1, <1>2, <1>3 DEF RemovalInv, GrantInv, IdleWork, Cleaning
  <2> QED BY <1>2, <2>1, <2>2, <2>3
<1>4. CASE work' # IdleWork
  <2> DEFINE pc == IF nbC[n].phase = "deleting"
                   THEN IF "oauth" \in nbC[n].fins THEN "delOAuth" ELSE "delRoute"
                   ELSE IF finalizersToAdd(nbC[n]) # {} THEN "finalizers" ELSE "grant"
  <2>1. /\ nbC[n].phase # "absent"
        /\ work' = [pc |-> pc, name |-> n, inst |-> nbC[n], remove |-> {},
                    failed |-> FALSE, config |-> "default"]
    BY <1>4 DEF Start, IdleWork
  <2>2. Copied(n) /\ nbC[n] \in Notebooks /\ nb[n] \in Notebooks
    BY DEF CacheInv, TypeOK
  <2>3. pc \in {"delOAuth", "delRoute", "finalizers", "grant"}
    OBVIOUS
  <2>4. TypeOK'
    <3>1. work' \in Works
      BY <2>1, <2>2, <2>3 DEF Works, Pcs, Configs
    <3> QED BY <1>1, <3>1 DEF TypeOK, Works
  <2>5. ProvidingInv'
    <3> SUFFICES ASSUME pc \in Providing
                 PROVE  /\ {"route", "grant"} \subseteq nbC[n].fins
                        /\ nbC[n].auth => "proxy" \in nbC[n].fins
                        /\ nbC[n].fins \subseteq nb[n].fins
                        /\ n \notin switched => nb[n].auth = nbC[n].auth
      BY <1>1, <2>1 DEF ProvidingInv
    <3>1. nbC[n].phase = "active" /\ finalizersToAdd(nbC[n]) = {}
      BY <2>1, <2>2 DEF Providing, Notebooks, Phases
    <3>2. /\ {"route", "grant"} \subseteq nbC[n].fins
          /\ nbC[n].auth => "proxy" \in nbC[n].fins
      BY <3>1 DEF finalizersToAdd
    <3>3. nbC[n].fins \subseteq nb[n].fins
      BY <2>2, <3>1 DEF Copied
    <3>4. n \notin switched => nb[n].auth = nbC[n].auth
      BY <2>2, <3>2, <3>3 DEF Copied
    <3> QED BY <3>2, <3>3, <3>4
  <2>6. CleaningInv'
    <3> SUFFICES ASSUME pc \in Cleaning
                 PROVE  /\ nbC[n].phase = "deleting"
                        /\ nb[n].phase = "active" => nb[n].fins = {}
                        /\ n \notin switched /\ nbC[n].fins # {} /\ nb[n].fins # {}
                              => nb[n].auth = nbC[n].auth
      BY <1>1, <2>1 DEF CleaningInv
    <3>1. nbC[n].phase = "deleting"
      BY DEF Cleaning
    <3> QED BY <2>2, <3>1 DEF Copied
  <2>7. RemovalInv' /\ GrantInv'
    BY <1>1, <1>2, <2>1, <2>3 DEF RemovalInv, GrantInv, Cleaning
  <2> QED BY <1>2, <2>4, <2>5, <2>6, <2>7
<1> QED BY <1>3, <1>4

\* The finalizers are added to a fresh copy, and the reconcile ends.
LEMMA AddFinalizersInv == Inv /\ AddFinalizers => Inv'
<1> SUFFICES ASSUME Inv, AddFinalizers PROVE Inv'
  OBVIOUS
<1> USE DEF Inv
<1> DEFINE n   == work.name
           new == [nb[n] EXCEPT !.fins = @ \cup finalizersToAdd(work.inst)]
<1>1. /\ work' = IdleWork /\ queue' = queue \cup {n} /\ n \in NB
      /\ UNCHANGED <<route, routeC, routeNews, crb, crbC, client, grant,
                     grantC, grantNews, config, configC, configNews, assigned, events,
                     excuses>>
  BY DEF AddFinalizers, At, Requeue, NoFault, RemovalInv, objects, routes, bindings,
         grants,
         ingress, history
<1>2. ProvidingInv' /\ CleaningInv' /\ RemovalInv'
  BY <1>1 DEF ProvidingInv, CleaningInv, RemovalInv, IdleWork, Providing, Cleaning
<1>3. CASE ~(fresh[n] /\ nb[n].phase = "active")
  <2>1. UNCHANGED <<nb, nbC, fresh>>
    BY <1>3 DEF AddFinalizers
  <2>2. CacheInv' /\ ClientHasOwner' /\ BindingInv' /\ RouteHasOwner' /\ GrantInv'
    BY <1>1, <2>1 DEF CacheInv, Copied, ClientHasOwner, BindingInv, RouteHasOwner,
                      RouteHasGrant, GrantInv, IdleWork
  <2>3. TypeOK'
    BY <1>1, <2>1, ConstantTypes DEF TypeOK
  <2> QED BY <1>2, <2>2, <2>3
<1>4. CASE fresh[n] /\ nb[n].phase = "active"
  <2>1. Store(n, new)
    BY <1>4 DEF AddFinalizers
  <2>2. work.inst \in Notebooks /\ nb[n] \in Notebooks
    BY <1>1 DEF TypeOK
  <2>3. /\ new \in Notebooks /\ new.phase = "active" /\ new.auth = nb[n].auth
        /\ nb[n].fins \subseteq new.fins
    BY <1>4, <2>2 DEF Notebooks, finalizersToAdd, Finalizers
  <2> HIDE DEF n, new
  <2>4. /\ nb' \in [NB -> Notebooks] /\ fresh' \in [NB -> BOOLEAN] /\ nbC' = nbC
        /\ nb'[n] = new
        /\ fresh'[n] <=> fresh[n] /\ nb'[n] = nb[n]
        /\ \A m \in NB \ {n} : nb'[m] = nb[m] /\ fresh'[m] = fresh[m]
    BY <1>1, <2>1, <2>3, StoreType
  <2>5. TypeOK'
    BY <1>1, <2>4, ConstantTypes DEF TypeOK
  <2>6. CacheInv'
    <3> SUFFICES ASSUME NEW m \in NB PROVE Copied(m)'
      BY DEF CacheInv
    <3>1. Copied(m)
      BY DEF CacheInv
    <3>2. CASE m = n
      <4>1. nbC[n] = nb[n]
        BY <1>4, <3>1, <3>2 DEF Copied
      <4> QED BY <1>1, <1>4, <2>3, <2>4, <3>2, <4>1 DEF Copied
    <3>3. CASE m # n
      BY <1>1, <2>4, <3>1, <3>3 DEF Copied
    <3> QED BY <3>2, <3>3
  <2>7. ClientHasOwner' /\ BindingInv' /\ RouteHasOwner'
    BY <1>1, <2>3, <2>4 DEF ClientHasOwner, BindingInv, RouteHasOwner
  <2>8. GrantInv'
    BY <1>1, <1>4, <2>3, <2>4 DEF GrantInv, RouteHasGrant, IdleWork
  <2> QED BY <1>2, <2>5, <2>6, <2>7, <2>8
<1> QED BY <1>3, <1>4

\* The grant is there before the routes of this reconcile are.
LEMMA ReconcileReferenceGrantInv == Inv /\ ReconcileReferenceGrant => Inv'
<1> SUFFICES ASSUME Inv, ReconcileReferenceGrant PROVE Inv'
  OBVIOUS
<1> USE DEF Inv
<1>1. /\ work.pc = "grant" /\ work' = [work EXCEPT !.pc = "conflicting", !.config = config]
      /\ UNCHANGED <<nb, nbC, fresh, route, routeC, routeNews, crb, crbC, client,
                     config, configC, configNews, assigned, queue, events,
                     tampered, switched, missed>>
  BY DEF ReconcileReferenceGrant, At, NoFault, routes, bindings, ingress, history
<1>2. grant' = (grant \/ ~grantC) /\ grantC' \in BOOLEAN /\ grantNews' \in BOOLEAN
  BY PutTypes DEF ReconcileReferenceGrant, TypeOK
<1>3. overlooked' \in BOOLEAN /\ (grant' \/ overlooked')
  BY Zenon DEF ReconcileReferenceGrant
<1>4. /\ work' \in Works /\ work'.pc = "conflicting" /\ work'.name = work.name
      /\ work'.inst = work.inst /\ work'.remove = work.remove
  BY <1>1 DEF TypeOK, Works, Pcs
<1>5. TypeOK'
  BY <1>1, <1>2, <1>3, <1>4 DEF TypeOK, Works
<1>6. CacheInv' /\ ProvidingInv' /\ CleaningInv'
  BY <1>1, <1>4, GoesOnInv DEF GoesOn, Providing, Cleaning
<1>7. RemovalInv' /\ ClientHasOwner' /\ BindingInv' /\ RouteHasOwner' /\ GrantInv'
  BY <1>1, <1>3, <1>4 DEF RemovalInv, ClientHasOwner, BindingInv, RouteHasOwner,
                          RouteHasGrant, GrantInv, Cleaning
<1> QED BY <1>5, <1>6, <1>7

\* A route of the reconcile's Notebook is written or removed; what is written has
\* its finalizer and its grant.
LEMMA PutRouteInv ==
    ASSUME Inv, work.pc \in {"conflicting", "route"}, NEW r \in Routes,
           PutRoute(work.name, r) \/ UNCHANGED routes,
           work' \in Works, GoesOn, work'.pc \in {"idle", "binding"},
           work'.remove = {}, queue' \in SUBSET NB,
           UNCHANGED <<nb, nbC, fresh, bindings, grants, ingress, history>>
    PROVE  Inv'
<1> USE DEF Inv
<1>1. UNCHANGED <<nb, nbC, fresh, crb, crbC, client, grant, grantC, grantNews,
                  config, configC, configNews, assigned, events, excuses>>
  BY DEF bindings, grants, ingress, history
<1>2. work.name \in NB
  BY DEF RemovalInv
<1>3. /\ route' \in [NB -> Routes] /\ routeC' \in [NB -> Routes] /\ routeNews' \in SUBSET NB
      /\ \A m \in NB \ {work.name} : route'[m] = route[m]
  <2>1. CASE PutRoute(work.name, r)
    BY <1>2, <2>1, PutTypes
  <2>2. CASE UNCHANGED routes
    BY <2>2 DEF routes, TypeOK
  <2> QED BY <2>1, <2>2
<1>4. TypeOK'
  BY <1>1, <1>3 DEF TypeOK, Works
<1>5. CacheInv' /\ ProvidingInv' /\ CleaningInv'
  BY <1>1, GoesOnInv
<1>6. ClientHasOwner' /\ BindingInv'
  BY <1>1, <1>3 DEF ClientHasOwner, BindingInv
<1>7. RemovalInv'
  BY <1>2 DEF RemovalInv, GoesOn, IdleWork
<1>8. RouteHasOwner'
  <2>1. "route" \in nb[work.name].fins
    BY DEF ProvidingInv, Providing
  <2> QED BY <1>1, <1>3, <2>1 DEF RouteHasOwner
<1>9. GrantInv'
  BY <1>1 DEF GrantInv, RouteHasGrant
<1> QED BY <1>4, <1>5, <1>6, <1>7, <1>8, <1>9

\* A route of the other mode is removed.
LEMMA EnsureConflictingInv == Inv /\ EnsureConflictingHTTPRouteAbsent => Inv'
<1> SUFFICES ASSUME Inv, EnsureConflictingHTTPRouteAbsent PROVE Inv'
  OBVIOUS
<1>1. /\ work.pc = "conflicting" /\ work' = [work EXCEPT !.pc = "binding"]
      /\ PutRoute(work.name, NoRoute) \/ UNCHANGED routes
      /\ UNCHANGED <<nb, nbC, fresh, bindings, grants, ingress, history, queue>>
  BY DEF EnsureConflictingHTTPRouteAbsent, At, Go, NoFault
<1>2. /\ work' \in Works /\ GoesOn /\ work'.pc = "binding" /\ work'.remove = {}
      /\ queue' \in SUBSET NB
  BY <1>1 DEF Inv, TypeOK, Works, Pcs, GoesOn, Providing, Cleaning, RemovalInv
<1> QED BY <1>1, <1>2, PutRouteInv, ConstantTypes

\* The route is created, updated, removed or left alone, and the reconcile ends.
LEMMA ReconcileHTTPRouteInv == Inv /\ ReconcileHTTPRoute => Inv'
<1> SUFFICES ASSUME Inv, ReconcileHTTPRoute PROVE Inv'
  OBVIOUS
<1> DEFINE gw   == notebookIngress(work.config)
           want == DesiredRoute(work.inst, gw)
<1>1. /\ work.pc = "route" /\ work' = IdleWork
      /\ UNCHANGED <<nb, nbC, fresh, bindings, grants, ingress, history>>
      /\ queue' = queue \/ queue' = queue \cup {work.name}
  BY DEF ReconcileHTTPRoute, At, NoFault, Finish, Requeue
<1>2. \/ UNCHANGED routes \/ PutRoute(work.name, NoRoute)
      \/ ~unresolvable(gw) /\ PutRoute(work.name, want)
  BY DEF ReconcileHTTPRoute
<1>3. ~unresolvable(gw) => want \in Routes
  <2>1. work.config \in Configs
    BY DEF Inv, TypeOK
  <2>2. ~unresolvable(gw) => gw \in {"default", "extra", "moved"}
    BY <2>1 DEF notebookIngress, unresolvable, Configs
  <2> QED BY <2>2 DEF DesiredRoute, Routes
<1>4. /\ work' \in Works /\ GoesOn /\ work'.pc = "idle" /\ work'.remove = {}
      /\ queue' \in SUBSET NB
  <2>1. work.name \in NB /\ queue \in SUBSET NB
    BY <1>1 DEF Inv, RemovalInv, TypeOK
  <2> QED BY <1>1, <2>1, ConstantTypes DEF Works, GoesOn, IdleWork
<1>5. PICK r \in Routes : UNCHANGED routes \/ PutRoute(work.name, r)
  BY <1>2, <1>3, ConstantTypes
<1> QED BY <1>1, <1>4, <1>5, PutRouteInv

\* A binding is made for a Notebook whose finalizer for it is in place.
LEMMA ReconcileBindingInv == Inv /\ ReconcileBinding => Inv'
<1> SUFFICES ASSUME Inv, ReconcileBinding PROVE Inv'
  OBVIOUS
<1> USE DEF Inv
<1> DEFINE b == work.inst.auth /\ (crb[work.name] \/ ~crbC[work.name])
<1>1. /\ work.pc = "binding" /\ work' = [work EXCEPT !.pc = "route"]
      /\ PutBinding(work.name, b)
      /\ UNCHANGED <<nb, nbC, fresh, route, routeC, routeNews, grant, grantC, grantNews,
                     config, configC, configNews, assigned, queue, events,
                     excuses>>
  BY DEF ReconcileBinding, At, Go, NoFault, routes, grants, ingress, history
<1>2. work.name \in NB /\ b \in BOOLEAN
  BY <1>1 DEF RemovalInv, TypeOK, Notebooks
<1> HIDE DEF b
<1>3. /\ crb' \in [NB -> BOOLEAN] /\ crbC' \in [NB -> BOOLEAN]
      /\ crb'[work.name] = b /\ client' = client
      /\ \A m \in NB \ {work.name} : crb'[m] = crb[m]
  BY <1>1, <1>2, PutTypes
<1>4. /\ work' \in Works /\ work'.pc = "route" /\ work'.name = work.name
      /\ work'.inst = work.inst /\ work'.remove = {}
  BY <1>1 DEF TypeOK, Works, Pcs, RemovalInv, Cleaning
<1>5. TypeOK'
  BY <1>1, <1>3, <1>4 DEF TypeOK, Works
<1>6. CacheInv' /\ ProvidingInv' /\ CleaningInv'
  BY <1>1, <1>4, GoesOnInv DEF GoesOn, Providing, Cleaning
<1>7. RemovalInv' /\ ClientHasOwner' /\ RouteHasOwner' /\ GrantInv'
  BY <1>1, <1>2, <1>3, <1>4 DEF RemovalInv, ClientHasOwner, RouteHasOwner,
                                RouteHasGrant, GrantInv, Cleaning
<1>8. BindingInv'
  <2>1. work.name \notin switched /\ b =>
           "proxy" \in nb[work.name].fins /\ nb[work.name].auth
    BY <1>1 DEF ProvidingInv, Providing, b
  <2> QED BY <1>1, <1>3, <2>1 DEF BindingInv
<1> QED BY <1>5, <1>6, <1>7, <1>8

\* A call fails: the reconcile ends.
LEMMA CallFailsInv == Inv /\ CallFails => Inv'
<1> SUFFICES ASSUME Inv, CallFails PROVE Inv'
  OBVIOUS
<1> USE DEF Inv
<1>1. /\ work' = IdleWork /\ queue' = queue \cup {work.name} /\ work.name \in NB
      /\ events' \in 0..MaxEvents
      /\ UNCHANGED <<nb, nbC, fresh, route, routeC, routeNews, crb, crbC, client, grant,
                     grantC, grantNews, config, configC, configNews, assigned,
                     excuses>>
  BY BoundAssumption DEF CallFails, Requeue, Fault, Act, Count, TypeOK, RemovalInv,
                         objects,
     routes, bindings, grants, ingress
<1>2. TypeOK'
  BY <1>1, ConstantTypes DEF TypeOK
<1>3. CacheInv' /\ ProvidingInv' /\ CleaningInv'
  BY <1>1, GoesOnInv DEF GoesOn
<1>4. RemovalInv' /\ ClientHasOwner' /\ BindingInv' /\ RouteHasOwner' /\ GrantInv'
  BY <1>1 DEF RemovalInv, ClientHasOwner, BindingInv, RouteHasOwner,
              RouteHasGrant, GrantInv, IdleWork, Cleaning
<1> QED BY <1>2, <1>3, <1>4

--------------------------------------------------------------------------------
(* The reconcile of a deleted Notebook.                                    *)

\* Finalizers are taken off a Notebook that is being deleted, once what they
\* stand for is gone.
LEMMA TakeOffInv ==
    ASSUME Inv, work.pc \in Cleaning, NEW gone \in SUBSET Finalizers,
           Store(work.name, [nb[work.name] EXCEPT !.fins = @ \ gone]),
           nb[work.name].phase # "absent",
           "oauth" \in gone => ~client[work.name],
           "route" \in gone /\ work.name \notin missed => route[work.name] = NoRoute,
           "proxy" \in gone => "proxy" \in work.inst.fins
                                /\ (work.inst.auth => ~crb[work.name]),
           UNCHANGED <<objects, ingress, history>>,
           work' \in Works, queue' \in SUBSET NB,
           \/ work' = IdleWork
           \/ /\ work'.pc \in Cleaning \ {"offOAuth"}
              /\ work'.name = work.name /\ work'.remove = {}
              /\ work'.inst.phase = work.inst.phase /\ work'.inst.auth = work.inst.auth
              /\ work'.inst.fins \subseteq work.inst.fins
    PROVE  Inv'
<1> USE DEF Inv
<1> DEFINE n   == work.name
           new == [nb[n] EXCEPT !.fins = @ \ gone]
<1>1. /\ n \in NB
      /\ UNCHANGED <<route, routeC, routeNews, crb, crbC, client, grant, grantC,
                     grantNews, config, configC, configNews, assigned, events, excuses>>
  BY DEF RemovalInv, Cleaning, objects, routes, bindings, grants, ingress, history
<1>2. /\ nb[n] \in Notebooks /\ new \in Notebooks /\ new.fins = nb[n].fins \ gone
      /\ new.auth = nb[n].auth /\ new.phase = nb[n].phase
  BY <1>1 DEF TypeOK, Notebooks
<1>3. Store(n, new)
  OBVIOUS
<1>4. /\ nb[n].phase = "active" => nb[n].fins = {}
      /\ nbC[n].phase = "active" => nbC[n].fins = {}
      /\ n \notin switched /\ work.inst.fins # {} /\ nb[n].fins # {}
            => nb[n].auth = work.inst.auth
  BY DEF CleaningInv
<1>5. /\ "oauth" \in gone => ~client[n]
      /\ "route" \in gone /\ n \notin missed => route[n] = NoRoute
      /\ "proxy" \in gone => "proxy" \in work.inst.fins /\ (work.inst.auth => ~crb[n])
      /\ nb[n].phase # "absent"
  OBVIOUS
<1> HIDE DEF new
<1>6. /\ nb' \in [NB -> Notebooks] /\ fresh' \in [NB -> BOOLEAN] /\ nbC' = nbC
      /\ nb'[n] = IF new.phase = "deleting" /\ new.fins = {} THEN Gone ELSE new
      /\ fresh'[n] <=> fresh[n] /\ nb'[n] = nb[n]
      /\ \A m \in NB \ {n} : nb'[m] = nb[m] /\ fresh'[m] = fresh[m]
  BY <1>1, <1>2, <1>3, StoreType
<1>7. /\ nb'[n].fins = nb[n].fins \ gone
      /\ nb'[n].phase = "active" => nb[n].phase = "active" /\ nb[n].fins = {}
      /\ nb'[n].fins = {} \/ nb'[n].auth = nb[n].auth
      /\ nb'[n].phase = "absent" => nb'[n] = Gone
  <2>1. CASE new.phase = "deleting" /\ new.fins = {}
    <3>1. nb'[n] = Gone
      BY <1>6, <2>1
    <3>2. Gone.phase = "absent" /\ Gone.fins = {}
      BY DEF Gone
    <3> QED BY <1>2, <2>1, <3>1, <3>2
  <2>2. CASE ~(new.phase = "deleting" /\ new.fins = {})
    <3>1. nb'[n] = new
      BY <1>6, <2>2
    <3> QED BY <1>2, <1>4, <1>5, <3>1, Zenon
  <2> QED BY <2>1, <2>2
<1> HIDE DEF n
<1>8. TypeOK'
  BY <1>1, <1>6 DEF TypeOK, Works
<1>9. CacheInv'
  <2> SUFFICES ASSUME NEW m \in NB PROVE Copied(m)'
    BY DEF CacheInv
  <2>1. Copied(m)
    BY DEF CacheInv
  <2>2. CASE m = n
    BY <1>1, <1>4, <1>6, <1>7, <2>1, <2>2 DEF Copied
  <2>3. CASE m # n
    BY <1>1, <1>6, <2>1, <2>3 DEF Copied
  <2> QED BY <2>2, <2>3
<1>10. ClientHasOwner' /\ RouteHasOwner'
  BY <1>1, <1>5, <1>6, <1>7 DEF ClientHasOwner, RouteHasOwner
<1>11. BindingInv'
  <2>1. ASSUME n \notin switched, crb[n]
        PROVE  "proxy" \notin gone
    <3>1. "proxy" \in nb[n].fins /\ nb[n].auth
      BY <1>1, <2>1 DEF BindingInv
    <3> QED BY <1>4, <1>5, <2>1, <3>1
  <2>2. ASSUME n \notin switched, crb[n]
        PROVE  "proxy" \in nb'[n].fins /\ nb'[n].auth
    <3>1. "proxy" \in nb[n].fins /\ nb[n].auth
      BY <1>1, <2>2 DEF BindingInv
    <3> QED BY <1>7, <2>1, <2>2, <3>1
  <2> QED BY <1>1, <1>6, <2>2 DEF BindingInv
<1>12. GrantInv'
  <2>1. ASSUME NEW m \in NB, nb'[m].phase = "active"
        PROVE  nb[m].phase = "active"
    BY <1>6, <1>7, <2>1
  <2>2. work'.pc \notin {"conflicting", "binding", "route"}
    BY DEF IdleWork, Cleaning
  <2> QED BY <1>1, <2>1, <2>2 DEF GrantInv, RouteHasGrant
<1>13. CASE work' = IdleWork
  <2>1. ProvidingInv' /\ CleaningInv' /\ RemovalInv'
    BY <1>13 DEF ProvidingInv, CleaningInv, RemovalInv, IdleWork, Providing, Cleaning
  <2> QED BY <1>8, <1>9, <1>10, <1>11, <1>12, <2>1
<1>14. CASE work' # IdleWork
  <2>1. /\ work'.pc \in Cleaning \ {"offOAuth"} /\ work'.name = n /\ work'.remove = {}
        /\ work'.inst.phase = work.inst.phase /\ work'.inst.auth = work.inst.auth
        /\ work'.inst.fins \subseteq work.inst.fins
    BY <1>14 DEF n
  <2>2. ProvidingInv' /\ RemovalInv'
    BY <1>1, <2>1 DEF ProvidingInv, RemovalInv, Providing, Cleaning
  <2>3. CleaningInv'
    BY <1>1, <1>4, <1>6, <1>7, <2>1 DEF CleaningInv
  <2> QED BY <1>8, <1>9, <1>10, <1>11, <1>12, <2>2, <2>3
<1> QED BY <1>13, <1>14

\* The OAuthClient is deleted, then its finalizer is removed.
LEMMA DelOAuthInv == Inv /\ DelOAuth => Inv'
<1> SUFFICES ASSUME Inv, DelOAuth PROVE Inv'
  OBVIOUS
<1> USE DEF Inv
<1>1. CASE work.pc = "delOAuth"
  <2>1. /\ client' = [client EXCEPT ![work.name] = FALSE]
        /\ work' = [work EXCEPT !.pc = "offOAuth"]
        /\ UNCHANGED <<nb, nbC, fresh, route, routeC, routeNews, crb, crbC, grant,
                       grantC, grantNews, config, configC, configNews, assigned, queue,
                       events, excuses>>
    BY <1>1 DEF DelOAuth, At, Go, NoFault, routes, grants, ingress, history
  <2>2. work.name \in NB
    BY <1>1 DEF RemovalInv
  <2>3. /\ work' \in Works /\ work'.pc = "offOAuth" /\ work'.name = work.name
        /\ work'.inst = work.inst /\ work'.remove = work.remove
    BY <2>1 DEF TypeOK, Works, Pcs
  <2>4. client' \in [NB -> BOOLEAN] /\ \A m \in NB : client'[m] => client[m] /\ m # work.name
    BY <2>1, <2>2 DEF TypeOK
  <2>5. TypeOK'
    BY <2>1, <2>3, <2>4 DEF TypeOK, Works
  <2>6. CacheInv' /\ ProvidingInv' /\ CleaningInv'
    BY <1>1, <2>1, <2>3, GoesOnInv DEF GoesOn, Providing, Cleaning
  <2>7. RemovalInv' /\ ClientHasOwner' /\ BindingInv' /\ RouteHasOwner' /\ GrantInv'
    BY <1>1, <2>1, <2>2, <2>3, <2>4 DEF RemovalInv, ClientHasOwner, BindingInv,
       RouteHasOwner, RouteHasGrant, GrantInv, Cleaning
  <2> QED BY <2>5, <2>6, <2>7
<1>2. CASE work.pc = "offOAuth" /\ nb[work.name] = work.inst
  <2>1. /\ Store(work.name, [nb[work.name] EXCEPT !.fins = @ \ {"oauth"}])
        /\ work' = [work EXCEPT !.pc = "delRoute", !.inst.fins = @ \ {"oauth"}]
        /\ UNCHANGED <<queue, objects, ingress, history>>
    BY <1>2 DEF DelOAuth, At, NoFault
  <2>2. /\ work' \in Works /\ work'.pc = "delRoute" /\ work'.name = work.name
        /\ work'.inst.phase = work.inst.phase /\ work'.inst.auth = work.inst.auth
        /\ work'.inst.fins \subseteq work.inst.fins /\ work'.remove = work.remove
        /\ queue' \in SUBSET NB
    BY <2>1 DEF TypeOK, Works, Pcs, Notebooks
  <2>3. /\ work.remove = {} /\ ~client[work.name]
        /\ work.inst.phase = "deleting" /\ work.pc \in Cleaning
    BY <1>2 DEF RemovalInv, CleaningInv, Cleaning
  <2>4. {"oauth"} \in SUBSET Finalizers
    BY DEF Finalizers
  <2> QED BY <1>2, <2>1, <2>2, <2>3, <2>4, TakeOffInv DEF Cleaning
<1>3. CASE work.pc = "offOAuth" /\ nb[work.name] # work.inst
  <2>1. /\ work' = IdleWork /\ queue' = queue \cup {work.name} /\ work.name \in NB
        /\ UNCHANGED <<nb, nbC, fresh, route, routeC, routeNews, crb, crbC, client,
                       grant, grantC, grantNews, config, configC, configNews, assigned,
                       events, excuses>>
    BY <1>3 DEF DelOAuth, At, Requeue, NoFault, RemovalInv, objects, routes, bindings,
                grants, ingress, history
  <2>2. TypeOK'
    BY <2>1, ConstantTypes DEF TypeOK
  <2>3. CacheInv' /\ ProvidingInv' /\ CleaningInv'
    BY <2>1, GoesOnInv DEF GoesOn
  <2>4. RemovalInv' /\ ClientHasOwner' /\ BindingInv' /\ RouteHasOwner' /\ GrantInv'
    BY <2>1 DEF RemovalInv, ClientHasOwner, BindingInv, RouteHasOwner, RouteHasGrant,
                GrantInv, IdleWork, Cleaning
  <2> QED BY <2>2, <2>3, <2>4
<1> QED BY <1>1, <1>2, <1>3 DEF DelOAuth, At

\* One clean-up of the three: it leaves Notebooks alone, removes objects only,
\* and marks a finalizer only if what it stands for is gone.
CleanedUp(next) ==
    /\ work' \in Works /\ work'.pc = next
    /\ work'.name = work.name /\ work'.inst = work.inst
    /\ events' \in 0..MaxEvents
    /\ UNCHANGED <<nb, nbC, fresh, client, config, configC, configNews, assigned, queue,
                   tampered, switched, overlooked>>

\* The route is deleted as it was listed, or that fails.
LEMMA DelRouteInv == Inv /\ DelRoute => Inv'
<1> SUFFICES ASSUME Inv, DelRoute PROVE Inv'
  OBVIOUS
<1> USE DEF Inv
<1>1. work.pc = "delRoute" /\ work.name \in NB /\ work \in Works
  BY DEF DelRoute, At, RemovalInv, TypeOK, Works
<1>2. /\ CleanedUp("delGrant")
      /\ work'.remove \in {work.remove, work.remove \cup {"route"}}
      /\ UNCHANGED <<crb, crbC, grant, grantC, grantNews>>
  <2>1. /\ work'.pc = "delGrant" /\ work'.name = work.name /\ work'.inst = work.inst
        /\ work'.remove \in {work.remove, work.remove \cup {"route"}}
        /\ work' \in Works
    <3> DEFINE next == [work EXCEPT !.pc = "delGrant"]
    <3>1. \/ work' = next
          \/ work' = [next EXCEPT !.remove = @ \cup {"route"}]
          \/ work' = [next EXCEPT !.failed = TRUE]
      BY DEF DelRoute
    <3>2. next \in Works /\ next.pc = "delGrant" /\ next.name = work.name
          /\ next.inst = work.inst /\ next.remove = work.remove
      BY <1>1 DEF Works, Pcs
    <3> HIDE DEF next
    <3> QED BY <3>1, <3>2 DEF Works, Finalizers
  <2>2. events' \in 0..MaxEvents /\ UNCHANGED <<tampered, switched, overlooked>>
    BY BoundAssumption DEF DelRoute, NoFault, Fault, Act, Count, history, TypeOK
  <2> QED BY <2>1, <2>2 DEF DelRoute, CleanedUp, bindings, grants, ingress
<1>3. \/ UNCHANGED routes \/ PutRoute(work.name, NoRoute)
  BY DEF DelRoute
<1>4. \/ missed' = missed /\ ("route" \in work'.remove => "route" \in work.remove)
      \/ missed' = IF route'[work.name] = NoRoute
                   THEN missed \ {work.name} ELSE missed \cup {work.name}
  BY <1>1 DEF DelRoute, NoFault, Fault, Act, history, Works
<1>5. /\ route' \in [NB -> Routes] /\ routeC' \in [NB -> Routes] /\ routeNews' \in SUBSET NB
      /\ \A m \in NB : route'[m] = NoRoute \/ route'[m] = route[m]
  <2>1. CASE PutRoute(work.name, NoRoute)
    BY <1>1, <2>1, PutTypes, ConstantTypes
  <2>2. CASE UNCHANGED routes
    BY <2>2 DEF routes, TypeOK
  <2> QED BY <1>3, <2>1, <2>2
<1>6. /\ missed' \in SUBSET NB
      /\ \A m \in NB \ missed' : m \notin missed \/ route'[m] = NoRoute
      /\ "route" \in work'.remove /\ work.name \notin missed' => route'[work.name] = NoRoute
  <2>1. missed \in SUBSET NB
    BY DEF TypeOK
  <2>2. CASE missed' = missed /\ ("route" \in work'.remove => "route" \in work.remove)
    BY <1>1, <1>5, <2>1, <2>2 DEF RemovalInv
  <2>3. CASE missed' = IF route'[work.name] = NoRoute
                       THEN missed \ {work.name} ELSE missed \cup {work.name}
    BY <1>1, <2>1, <2>3
  <2> QED BY <1>4, <2>2, <2>3
<1>7. TypeOK'
  BY <1>2, <1>5, <1>6 DEF TypeOK, CleanedUp, Works
<1>8. CacheInv' /\ ProvidingInv' /\ CleaningInv'
  BY <1>1, <1>2, GoesOnInv DEF GoesOn, CleanedUp, Providing, Cleaning
<1>9. ClientHasOwner' /\ BindingInv'
  BY <1>2, <1>5 DEF ClientHasOwner, BindingInv, CleanedUp
<1>10. RemovalInv'
  BY <1>1, <1>2, <1>6 DEF RemovalInv, CleanedUp, Cleaning
<1>11. RouteHasOwner' /\ GrantInv'
  BY <1>2, <1>5, <1>6 DEF RouteHasOwner, RouteHasGrant, GrantInv, CleanedUp
<1> QED BY <1>7, <1>8, <1>9, <1>10, <1>11

\* The grant is deleted if the listed Notebooks say that nobody needs it: the
\* copy of an active Notebook that has a route is active.
LEMMA DelGrantInv == Inv /\ DelGrant => Inv'
<1> SUFFICES ASSUME Inv, DelGrant PROVE Inv'
  OBVIOUS
<1> USE DEF Inv
<1>1. work.pc = "delGrant" /\ work.name \in NB /\ work \in Works
  BY DEF DelGrant, At, RemovalInv, TypeOK, Works
<1>2. /\ CleanedUp("delProxy")
      /\ work'.remove \in {work.remove, work.remove \cup {"grant"}}
      /\ UNCHANGED <<route, routeC, routeNews, crb, crbC, missed>>
  <2>1. /\ work'.pc = "delProxy" /\ work'.name = work.name /\ work'.inst = work.inst
        /\ work'.remove \in {work.remove, work.remove \cup {"grant"}}
        /\ work' \in Works
    <3> DEFINE next == [work EXCEPT !.pc = "delProxy"]
    <3>1. \/ work' = next
          \/ work' = [next EXCEPT !.remove = @ \cup {"grant"}]
          \/ work' = [next EXCEPT !.failed = TRUE]
      BY DEF DelGrant
    <3>2. next \in Works /\ next.pc = "delProxy" /\ next.name = work.name
          /\ next.inst = work.inst /\ next.remove = work.remove
      BY <1>1 DEF Works, Pcs
    <3> HIDE DEF next
    <3> QED BY <3>1, <3>2 DEF Works, Finalizers
  <2>2. events' \in 0..MaxEvents /\ UNCHANGED excuses
    BY BoundAssumption DEF DelGrant, NoFault, Fault, Act, Count, history, TypeOK
  <2> QED BY <2>1, <2>2 DEF DelGrant, CleanedUp, routes, bindings, ingress
<1>3. \/ UNCHANGED grants
      \/ PutGrant(grant /\ ~isLastNotebookInNamespace(work.name))
  BY DEF DelGrant
<1>4. /\ grant' \in BOOLEAN /\ grantC' \in BOOLEAN /\ grantNews' \in BOOLEAN
      /\ grant' = grant \/ isLastNotebookInNamespace(work.name)
  <2>1. CASE UNCHANGED grants
    BY <2>1 DEF grants, TypeOK
  <2>2. CASE PutGrant(grant /\ ~isLastNotebookInNamespace(work.name))
    <3>1. (grant /\ ~isLastNotebookInNamespace(work.name)) \in BOOLEAN
      OBVIOUS
    <3>2. /\ grant' = (grant /\ ~isLastNotebookInNamespace(work.name))
          /\ grantC' \in BOOLEAN /\ grantNews' \in BOOLEAN
      BY <2>2, <3>1, PutTypes
    <3> QED BY <3>2 DEF TypeOK
  <2> QED BY <1>3, <2>1, <2>2
<1>5. TypeOK'
  BY <1>2, <1>4 DEF TypeOK, CleanedUp, Works
<1>6. CacheInv' /\ ProvidingInv' /\ CleaningInv'
  BY <1>1, <1>2, GoesOnInv DEF GoesOn, CleanedUp, Providing, Cleaning
<1>7. ClientHasOwner' /\ BindingInv' /\ RouteHasOwner'
  BY <1>2, <1>4 DEF ClientHasOwner, BindingInv, RouteHasOwner, CleanedUp
<1>8. RemovalInv'
  BY <1>1, <1>2 DEF RemovalInv, CleanedUp, Cleaning
<1>9. GrantInv'
  <2>1. ASSUME NEW m \in NB \ missed, nb[m].phase = "active", route[m] # NoRoute
        PROVE  grant' = grant
    <3>1. nb[m].fins # {}
      BY <2>1 DEF RouteHasOwner
    <3>2. nbC[m].phase = "active"
      BY <2>1, <3>1 DEF CacheInv, Copied
    <3>3. m # work.name
      BY <1>1, <2>1, <3>1 DEF CleaningInv, Cleaning
    <3>4. ~isLastNotebookInNamespace(work.name)
      BY <3>2, <3>3 DEF isLastNotebookInNamespace
    <3> QED BY <1>4, <3>4
  <2>2. work'.pc = "delProxy"
    BY <1>2 DEF CleanedUp
  <2> QED BY <1>2, <2>1, <2>2 DEF GrantInv, RouteHasGrant, CleanedUp
<1> QED BY <1>5, <1>6, <1>7, <1>8, <1>9

\* The binding is deleted if the Notebook asks for one, or that fails.
LEMMA DelProxyInv == Inv /\ DelProxy => Inv'
<1> SUFFICES ASSUME Inv, DelProxy PROVE Inv'
  OBVIOUS
<1> USE DEF Inv
<1>1. work.pc = "delProxy" /\ work.name \in NB /\ work \in Works
  BY DEF DelProxy, At, RemovalInv, TypeOK, Works
<1>2. /\ CleanedUp("delFinalizers")
      /\ work'.remove \in {work.remove, work.remove \cup ({"proxy"} \cap work.inst.fins)}
      /\ UNCHANGED <<route, routeC, routeNews, grant, grantC, grantNews, missed>>
  <2>1. /\ work'.pc = "delFinalizers" /\ work'.name = work.name /\ work'.inst = work.inst
        /\ work'.remove \in {work.remove, work.remove \cup ({"proxy"} \cap work.inst.fins)}
        /\ work' \in Works
    <3> DEFINE next == [work EXCEPT !.pc = "delFinalizers"]
    <3>1. \/ work' = [next EXCEPT !.remove = @ \cup ({"proxy"} \cap work.inst.fins)]
          \/ work' = [next EXCEPT !.failed = TRUE]
      BY DEF DelProxy
    <3>2. next \in Works /\ next.pc = "delFinalizers" /\ next.name = work.name
          /\ next.inst = work.inst /\ next.remove = work.remove
      BY <1>1 DEF Works, Pcs
    <3> HIDE DEF next
    <3> QED BY <3>1, <3>2 DEF Works, Finalizers
  <2>2. events' \in 0..MaxEvents /\ UNCHANGED <<excuses, client>>
    BY BoundAssumption DEF DelProxy, NoFault, Fault, Act, Count, history, TypeOK,
                           bindings,
       PutBinding
  <2> QED BY <2>1, <2>2 DEF DelProxy, CleanedUp, routes, grants, ingress
<1>3. \/ UNCHANGED bindings
      \/ PutBinding(work.name, FALSE)
  BY DEF DelProxy
<1>4. "proxy" \in work'.remove => \/ "proxy" \in work.remove
                                  \/ /\ "proxy" \in work.inst.fins
                                     /\ work.inst.auth => PutBinding(work.name, FALSE)
  <2> DEFINE next == [work EXCEPT !.pc = "delFinalizers"]
  <2>1. next \in Works /\ next.remove = work.remove
    BY <1>1 DEF Works, Pcs
  <2>2. CASE /\ work' = [next EXCEPT !.remove = @ \cup ({"proxy"} \cap work.inst.fins)]
             /\ work.inst.auth => PutBinding(work.name, FALSE)
    <3>1. work'.remove = work.remove \cup ({"proxy"} \cap work.inst.fins)
      BY <2>1, <2>2 DEF Works
    <3> QED BY <2>2, <3>1
  <2>3. CASE work' = [next EXCEPT !.failed = TRUE]
    <3>1. work'.remove = work.remove
      BY <2>1, <2>3 DEF Works
    <3> QED BY <3>1
  <2> QED BY <2>2, <2>3 DEF DelProxy
<1>5. /\ crb' \in [NB -> BOOLEAN] /\ crbC' \in [NB -> BOOLEAN]
      /\ \A m \in NB : crb'[m] => crb[m]
  <2>1. CASE PutBinding(work.name, FALSE)
    BY <1>1, <2>1, PutTypes
  <2>2. CASE UNCHANGED bindings
    BY <2>2 DEF bindings, TypeOK
  <2> QED BY <1>3, <2>1, <2>2
<1>6. "proxy" \in work'.remove => /\ "proxy" \in work.inst.fins
                                  /\ work.inst.auth => ~crb'[work.name]
  <2>1. PutBinding(work.name, FALSE) => ~crb'[work.name]
    BY <1>1, PutTypes
  <2> QED BY <1>1, <1>4, <1>5, <2>1 DEF RemovalInv
<1>7. TypeOK'
  BY <1>2, <1>5 DEF TypeOK, CleanedUp, Works
<1>8. CacheInv' /\ ProvidingInv' /\ CleaningInv'
  BY <1>1, <1>2, GoesOnInv DEF GoesOn, CleanedUp, Providing, Cleaning
<1>9. ClientHasOwner' /\ BindingInv' /\ RouteHasOwner' /\ GrantInv'
  BY <1>2, <1>5 DEF ClientHasOwner, BindingInv, RouteHasOwner,
     RouteHasGrant, GrantInv, CleanedUp
<1>10. RemovalInv'
  BY <1>1, <1>2, <1>6 DEF RemovalInv, CleanedUp, Cleaning
<1> QED BY <1>7, <1>8, <1>9, <1>10

\* The marked finalizers are taken off a fresh copy, or not at all.
LEMMA DelFinalizersInv == Inv /\ DelFinalizers => Inv'
<1> SUFFICES ASSUME Inv, DelFinalizers PROVE Inv'
  OBVIOUS
<1> USE DEF Inv
<1>1. /\ work.pc = "delFinalizers" /\ work.name \in NB /\ work' = IdleWork
      /\ queue' \in SUBSET NB
      /\ UNCHANGED <<objects, ingress, history>>
  BY DEF DelFinalizers, At, NoFault, Finish, Requeue, RemovalInv, TypeOK
<1>2. CASE UNCHANGED <<nb, nbC, fresh>>
  <2>1. UNCHANGED <<nb, nbC, fresh, route, routeC, routeNews, crb, crbC, client, grant,
                    grantC, grantNews, config, configC, configNews, assigned, events,
                    excuses>>
    BY <1>1, <1>2 DEF objects, routes, bindings, grants, ingress, history
  <2>2. TypeOK'
    BY <1>1, <2>1, ConstantTypes DEF TypeOK
  <2>3. CacheInv' /\ ProvidingInv' /\ CleaningInv'
    BY <1>1, <2>1, GoesOnInv DEF GoesOn
  <2>4. RemovalInv' /\ ClientHasOwner' /\ BindingInv' /\ RouteHasOwner' /\ GrantInv'
    BY <1>1, <2>1 DEF RemovalInv, ClientHasOwner, BindingInv, RouteHasOwner,
                      RouteHasGrant, GrantInv, IdleWork, Cleaning
  <2> QED BY <2>2, <2>3, <2>4
<1>3. CASE ~UNCHANGED <<nb, nbC, fresh>>
  <2>1. /\ work.remove \cap nbC[work.name].fins # {} /\ fresh[work.name]
        /\ Store(work.name, [nb[work.name] EXCEPT !.fins = @ \ work.remove])
    BY <1>3 DEF DelFinalizers, RemoveFinalizers
  <2>2. nb[work.name].fins # {}
    BY <1>1, <2>1 DEF CacheInv, Copied
  <2>3. nb[work.name].phase # "absent"
    BY <1>1, <2>2 DEF CacheInv, Copied, Gone
  <2>4. /\ work.remove \in SUBSET Finalizers /\ IdleWork \in Works
        /\ work.pc \in Cleaning
    BY <1>1, ConstantTypes DEF TypeOK, Works, Cleaning
  <2>5. /\ "oauth" \in work.remove => ~client[work.name]
        /\ "route" \in work.remove /\ work.name \notin missed => route[work.name] = NoRoute
        /\ "proxy" \in work.remove => "proxy" \in work.inst.fins
                                       /\ (work.inst.auth => ~crb[work.name])
    BY DEF RemovalInv
  <2> QED BY <1>1, <2>1, <2>3, <2>4, <2>5, TakeOffInv
<1> QED BY <1>2, <1>3

\* The process dies: the new one reads everything as it is stored.
LEMMA CrashInv == Inv /\ Crash => Inv'
<1> SUFFICES ASSUME Inv, Crash PROVE Inv'
  OBVIOUS
<1> USE DEF Inv
<1>1. /\ work' = IdleWork /\ nbC' = nb /\ fresh' = [n \in NB |-> TRUE]
      /\ routeC' = route /\ crbC' = crb /\ grantC' = grant /\ routeNews' = {}
      /\ configC' = config /\ configNews' = <<>>
      /\ queue' \in SUBSET NB /\ events' \in 0..MaxEvents
      /\ UNCHANGED <<nb, route, crb, client, grant, config, assigned, excuses>>
  BY BoundAssumption DEF Crash, Fault, Act, Count, TypeOK
<1>2. TypeOK'
  <2>1. grantNews' \in BOOLEAN
    BY Zenon DEF Crash
  <2>2. fresh' \in [NB -> BOOLEAN]
    BY <1>1
  <2> QED BY <1>1, <2>1, <2>2, ConstantTypes DEF TypeOK
<1>3. CacheInv'
  BY <1>1 DEF CacheInv, Copied
<1>4. ProvidingInv' /\ CleaningInv' /\ RemovalInv'
  BY <1>1 DEF ProvidingInv, CleaningInv, RemovalInv, IdleWork, Providing, Cleaning
<1>5. ClientHasOwner' /\ BindingInv' /\ RouteHasOwner' /\ GrantInv'
  BY <1>1 DEF ClientHasOwner, BindingInv, RouteHasOwner, RouteHasGrant, GrantInv,
              IdleWork
<1> QED BY <1>2, <1>3, <1>4, <1>5

--------------------------------------------------------------------------------
(* The theorems.                                                           *)

\* Every step keeps the invariant.
LEMMA NextInv == Inv /\ [Next]_vars => Inv'
<1> SUFFICES ASSUME Inv, [Next]_vars PROVE Inv'
  OBVIOUS
<1>1. CASE User
  BY <1>1, UserInv, DropGrantInv, IngressInv DEF User
<1>2. CASE Informers
  BY <1>2, SyncNotebookInv, SyncObjectsInv, IngressInv DEF Informers
<1>3. CASE Provide
  BY <1>3, AddFinalizersInv, ReconcileReferenceGrantInv, EnsureConflictingInv,
     ReconcileBindingInv, ReconcileHTTPRouteInv DEF Provide
<1>4. CASE CleanUp
  BY <1>4, DelOAuthInv, DelRouteInv, DelGrantInv, DelProxyInv,
     DelFinalizersInv DEF CleanUp
<1>5. CASE UNCHANGED vars
  BY <1>5, IngressInv
<1> QED BY <1>1, <1>2, <1>3, <1>4, <1>5, StartInv, CallFailsInv, CrashInv DEF Next, Reconcile

\* The inductive invariant holds of every behaviour.
LEMMA SpecInv == Spec => []Inv
  BY InitInv, NextInv, PTL DEF Spec

\* Every variable keeps its type.
THEOREM TypeTheorem == Spec => []TypeOK
<1>1. Inv => TypeOK
  BY DEF Inv
<1> QED BY <1>1, SpecInv, PTL

\* An OAuthClient of an earlier release never outlives its Notebook
\* (deleteOAuthClient, removeOAuthClientFinalizer), whatever lags.
THEOREM ClientTheorem == Spec => []ClientHasOwner
<1>1. Inv => ClientHasOwner
  BY DEF Inv
<1> QED BY <1>1, SpecInv, PTL

\* A ClusterRoleBinding never outlives its Notebook unless the user has switched
\* kube-rbac-proxy (CleanupKubeRbacProxyClusterRoleBinding), whatever lags.
THEOREM BindingTheorem == Spec => []BindingHasOwner
<1>1. Inv => BindingHasOwner
  BY DEF Inv, BindingInv, BindingHasOwner
<1> QED BY <1>1, SpecInv, PTL

\* However old the copies the controller reads are, no HTTPRoute outlives its
\* Notebook but one its clean-up did not find in the cache it lists routes from
\* (DeleteHTTPRouteForNotebook).
THEOREM RouteTheorem == Spec => []RouteHasOwner
<1>1. Inv => RouteHasOwner
  BY DEF Inv
<1> QED BY <1>1, SpecInv, PTL

\* However old they are, the grant is there for every Notebook that stays and
\* has a route of its own (isLastNotebookInNamespace), unless somebody else has
\* deleted it, or the last reconcile took the copy of the grant for the grant
\* the last Notebook's clean-up had just deleted (EnsureReferenceGrant).
THEOREM GrantTheorem == Spec => []RouteHasGrant
<1>1. Inv => RouteHasGrant
  BY DEF Inv, GrantInv
<1> QED BY <1>1, SpecInv, PTL
================================================================================

----------------------------- MODULE PipelineConfig -----------------------------
(***************************************************************************)
(* The two objects by which the Notebooks of a namespace get to pipelines: *)
(* the ConfigMap pipeline-runtime-images, made from the ImageStreams of    *)
(* the controller's namespace (notebook_runtime.go), and the Secret        *)
(* ds-pipeline-config, made from the pipeline server (DSPA) of the         *)
(* namespace and the Gateway's host name (notebook_dspa_secret.go).        *)
(*                                                                         *)
(* Both are brought up to date by everybody: by the webhook in every       *)
(* admission of a Notebook, just before it mounts them (errors are logged  *)
(* and passed over), and by the controller in every reconcile (errors are  *)
(* returned).  Admissions of different Notebooks and a reconcile run at    *)
(* the same time.  ConfigMap and Secret are read from the API server one   *)
(* call after the other, the sources from caches: one that lags reads as   *)
(* if the source had changed later.  SET_PIPELINE_SECRET is true.          *)
(***************************************************************************)
EXTENDS Naturals, FiniteSets

CONSTANTS
    NB,         \* names of Notebooks
    Images,     \* contents of ImageStreams that are in order
    Defects,    \* why an ImageStream is passed over: it is no runtime image, or
                \* it has no tags, no image URL or no usable display name
    MaxUID,     \* bound on the DSPAs deployed one after the other
    MaxEvents   \* bound on what else users and administrators do and on failing calls

ASSUME NBAssumption == NB # {} /\ "controller" \notin NB
ASSUME ImagesAssumption ==
    Images # {} /\ Images \cap (Defects \cup {"absent", "empty"}) = {}
ASSUME BoundAssumption == MaxUID \in Nat \ {0} /\ MaxEvents \in Nat

VARIABLES
    stream,     \* the ImageStreams
    dspa,       \* the pipeline server
    gateway,    \* the Gateway, and the Route of its GatewayConfig
    map,        \* the data of the ConfigMap
    secret,     \* the Secret
    nb,         \* stored Notebooks and their mounts
    job,        \* per Notebook its admission, and the controller's reconcile
    outdated,   \* jobs whose copy of ConfigMap or Secret is not the stored one
    events,     \* acts and failing calls so far
    made        \* history: the Secret was created by a sync

sources == <<stream, dspa, gateway>>
vars    == <<sources, map, secret, nb, job, outdated, events, made>>

Controller == "controller"
Jobs == NB \cup {Controller}

NoMap  == "absent"
NoData == "empty"
Maps   == {NoMap, NoData} \cup Images

\* Fault: no ImageStream is passed over.
FaultKeepDefects(s) == s

\* SyncRuntimeImagesConfigMap: the data made from the ImageStreams.
RuntimeImages(s) == IF s \in Images THEN s ELSE NoData

\* uid: the DSPA deployed last; conf: complete, or incomplete if a field is missing
\* or the credentials it names cannot be read, or none if it is gone.
Confs == {"none", "incomplete", "complete"}
DSPAs == [uid: 0..MaxUID, conf: Confs]

\* The Gateway is absent, has a host name in its first listener, has none but a
\* Route with the same GatewayConfig for its owner has one, or has none at all.
Gateways == {"absent", "listener", "route", "bare"}
Hosts    == {"none", "listener", "route"}

\* getHostnameForPublicEndpoint, getHostnameFromRoute
getHostnameForPublicEndpoint(g) == IF g \in {"absent", "bare"} THEN "none" ELSE g

\* extractElyraRuntimeConfigInfo, or nothing if there is no complete DSPA.  Of
\* the configuration it is the host name that is told apart.
NoConfig == "nothing"
Configs  == {NoConfig} \cup Hosts
ElyraConfig(d, g) ==
    IF d.conf = "complete" THEN getHostnameForPublicEndpoint(g) ELSE NoConfig

\* owner: the DSPA the owner reference names, 0 if there is none.
NoSecret == [there |-> FALSE, owner |-> 0, managed |-> FALSE, data |-> NoConfig]
Secrets  == [there: BOOLEAN, owner: 0..MaxUID, managed: BOOLEAN, data: Configs]

\* mounts: which of the two are mounted; due: history, which of them the last
\* admission ought to have mounted.
Kinds == {"map", "secret"}
NoNotebook == [there |-> FALSE, mounts |-> {}, due |-> {}]

\* data, seen: what is to be written to the ConfigMap and what was found there;
\* uid, cfg, found: the same for the Secret; mounts: made so far; want, lost:
\* history, the objects that ought to be there and that were interfered with.
NoJob == [pc |-> "none", data |-> NoData, seen |-> NoMap, uid |-> 0, cfg |-> NoConfig,
          found |-> NoSecret, mounts |-> {}, want |-> {}, lost |-> {}]

Pcs == {"none", "list", "getMap", "putMap", "mountMap", "read", "getSecret",
        "putSecret", "mountSecret", "admit"}

TypeOK ==
    /\ stream \in Defects \cup Images
    /\ dspa \in DSPAs /\ gateway \in Gateways
    /\ map \in Maps /\ secret \in Secrets
    /\ nb \in [NB -> [there: BOOLEAN, mounts: SUBSET Kinds, due: SUBSET Kinds]]
    /\ job \in [Jobs -> [pc: Pcs, data: Maps \ {NoMap}, seen: Maps, uid: 0..MaxUID,
                         cfg: Configs, found: Secrets, mounts: SUBSET Kinds,
                         want: SUBSET Kinds, lost: SUBSET Kinds]]
    /\ outdated \in SUBSET Jobs
    /\ events \in 0..MaxEvents /\ made \in BOOLEAN

Init ==
    /\ stream \in Defects \cup {CHOOSE i \in Images : TRUE}
    /\ dspa \in [uid: {0}, conf: {"none"}] \cup [uid: {1}, conf: {"complete"}]
    /\ gateway = "absent"
    /\ map = NoMap /\ secret = NoSecret
    /\ nb = [n \in NB |-> NoNotebook]
    /\ job = [j \in Jobs |-> NoJob] /\ outdated = {}
    /\ events = 0 /\ made = FALSE

--------------------------------------------------------------------------------
(* Users, administrators, the garbage collector.                           *)

Act == events < MaxEvents /\ events' = events + 1

\* The object k is taken away or replaced while jobs are running.
Interfere(k) ==
    job' = [j \in Jobs |-> IF j = Controller \/ job[j].pc = "none" THEN job[j]
                           ELSE [job[j] EXCEPT !.lost = @ \cup {k}]]

ChangeStream ==
    /\ stream' \in (Defects \cup Images) \ {stream} /\ Act
    /\ UNCHANGED <<dspa, gateway, map, secret, nb, job, outdated, made>>

ChangeGateway ==
    /\ gateway' \in Gateways \ {gateway} /\ Act
    /\ UNCHANGED <<stream, dspa, map, secret, nb, job, outdated, made>>

\* A DSPA is deployed or removed.
DeployDSPA ==
    /\ dspa.conf = "none" /\ dspa.uid < MaxUID
    /\ dspa' = [uid |-> dspa.uid + 1, conf |-> "complete"]
    /\ UNCHANGED <<stream, gateway, map, secret, nb, job, outdated, events, made>>

RemoveDSPA ==
    /\ dspa.conf # "none"
    /\ dspa' = [dspa EXCEPT !.conf = "none"]
    /\ UNCHANGED <<stream, gateway, map, secret, nb, job, outdated, events, made>>

\* It loses a required field or its credentials, or has them again.
ChangeDSPA ==
    /\ dspa.conf # "none" /\ Act
    /\ dspa' = [dspa EXCEPT !.conf = IF @ = "complete" THEN "incomplete" ELSE "complete"]
    /\ UNCHANGED <<stream, gateway, map, secret, nb, job, outdated, made>>

PutMap(new) ==
    /\ map' = new
    /\ outdated' = outdated \cup {j \in Jobs : job[j].seen # NoMap}
    /\ UNCHANGED secret

PutSecret(new) ==
    /\ secret' = new
    /\ outdated' = outdated \cup {j \in Jobs : job[j].found.there}
    /\ UNCHANGED map

\* Somebody deletes the ConfigMap; deletes the Secret or puts one of theirs there.
DropMap ==
    /\ map # NoMap /\ Act
    /\ PutMap(NoMap) /\ Interfere("map")
    /\ UNCHANGED <<sources, nb, made>>

ReplaceSecret ==
    /\ \E new \in {NoSecret, [NoSecret EXCEPT !.there = TRUE]} :
          new # secret /\ PutSecret(new)
    /\ Act /\ made' = FALSE
    /\ Interfere("secret")
    /\ UNCHANGED <<sources, nb>>

\* The DSPA the owner reference names is gone.
Collect ==
    /\ secret.owner # 0 /\ (dspa.conf = "none" \/ secret.owner # dspa.uid)
    /\ PutSecret(NoSecret) /\ made' = FALSE
    /\ Interfere("secret")
    /\ UNCHANGED <<sources, nb, events>>

\* A user creates a Notebook, or changes one that is stopped; what an admission
\* does to a running one is held back (module NotebookAdmission).
Request(n) ==
    /\ job[n].pc = "none"
    /\ IF nb[n].there THEN Act ELSE UNCHANGED events
    /\ job' = [job EXCEPT ![n] = [NoJob EXCEPT !.pc = "list", !.mounts = nb[n].mounts]]
    /\ UNCHANGED <<sources, map, secret, nb, outdated, made>>

--------------------------------------------------------------------------------
(* The two syncs, in an admission or in the reconcile j.                   *)

\* Any event of a Notebook of the namespace, or the informer's resync.
StartReconcile ==
    /\ job[Controller].pc = "none" /\ \E n \in NB : nb[n].there
    /\ job' = [job EXCEPT ![Controller] = [NoJob EXCEPT !.pc = "list"]]
    /\ UNCHANGED <<sources, map, secret, nb, outdated, events, made>>

\* Fault: an admission whose sync has failed mounts nothing.
FaultNoMountAfterError(j, ok, at) ==
    CASE j = Controller -> IF ok /\ at = "mountMap" THEN "read" ELSE "none"
      [] ok -> at
      [] OTHER -> IF at = "mountMap" THEN "read" ELSE "admit"

\* After a sync: the webhook mounts the object, whether the sync has failed or
\* not; the controller goes on, or returns the error.
AfterSync(j, ok, at) ==
    IF j # Controller THEN at
    ELSE IF ok /\ at = "mountMap" THEN "read" ELSE "none"

\* Only an admission is asked afterwards what it ought to have mounted.
Goto(j, rec) ==
    job' = [job EXCEPT ![j] = IF rec.pc = "none" THEN NoJob
                              ELSE IF j = Controller
                              THEN [rec EXCEPT !.want = {}, !.lost = {}] ELSE rec]

ListImageStreams(j) ==
    /\ job[j].pc = "list"
    /\ LET data == RuntimeImages(stream) IN
       Goto(j, [job[j] EXCEPT !.pc = "getMap", !.data = data,
                              !.want = IF data # NoData THEN {"map"} ELSE {}])
    /\ UNCHANGED <<sources, map, secret, nb, outdated, events, made>>

\* Fault: a ConfigMap that exists is taken as it is.
FaultKeepExisting(data) == data = NoData \/ map # NoMap

\* Nothing is to be written; without images the ConfigMap stays as it is.
MapSettled(data) == data \in {NoData, map}

GetRuntimeConfigMap(j) ==
    /\ job[j].pc = "getMap"
    /\ Goto(j, IF MapSettled(job[j].data)
               THEN [job[j] EXCEPT !.pc = AfterSync(j, TRUE, "mountMap"), !.data = NoData]
               ELSE [job[j] EXCEPT !.pc = "putMap", !.seen = map])
    /\ outdated' = outdated \ {j}
    /\ UNCHANGED <<sources, map, secret, nb, events, made>>

\* Create fails if there is one by now, Update if it is another version.
PutRuntimeConfigMap(j) ==
    LET ok == IF job[j].seen = NoMap THEN map = NoMap ELSE j \notin outdated IN
    /\ job[j].pc = "putMap"
    /\ IF ok THEN PutMap(job[j].data) ELSE UNCHANGED <<map, secret, outdated>>
    /\ Goto(j, [job[j] EXCEPT !.pc = AfterSync(j, ok, "mountMap"), !.data = NoData,
                              !.seen = NoMap])
    /\ UNCHANGED <<sources, nb, events, made>>

\* getGatewayInstance, getDSPAInstance and the credentials
ReadDSPA(j) ==
    /\ job[j].pc = "read"
    /\ LET cfg == ElyraConfig(dspa, gateway) IN
       Goto(j, IF cfg = NoConfig THEN [job[j] EXCEPT !.pc = AfterSync(j, TRUE, "mountSecret")]
               ELSE [job[j] EXCEPT !.pc = "getSecret", !.cfg = cfg, !.uid = dspa.uid,
                                   !.want = @ \cup {"secret"}])
    /\ UNCHANGED <<sources, map, secret, nb, outdated, events, made>>

GetSecret(j) ==
    /\ job[j].pc = "getSecret"
    /\ Goto(j, IF secret.there /\ secret.managed /\ secret.data = job[j].cfg
               THEN [job[j] EXCEPT !.pc = AfterSync(j, TRUE, "mountSecret"),
                                   !.cfg = NoConfig, !.uid = 0]
               ELSE [job[j] EXCEPT !.pc = "putSecret", !.found = secret])
    /\ outdated' = outdated \ {j}
    /\ UNCHANGED <<sources, map, secret, nb, events, made>>

\* Fault: the Secret is made without an owner reference.
FaultNoOwner(j) == [there |-> TRUE, owner |-> 0, managed |-> TRUE, data |-> job[j].cfg]

\* The owner reference is set on creation only.
DesiredSecret(j) ==
    [there |-> TRUE, managed |-> TRUE, data |-> job[j].cfg,
     owner |-> IF job[j].found.there THEN job[j].found.owner ELSE job[j].uid]

\* Another one that has been created meanwhile is as good; a conflict is not.
PutElyraSecret(j) ==
    LET create == ~job[j].found.there
        write  == IF create THEN ~secret.there ELSE j \notin outdated IN
    /\ job[j].pc = "putSecret"
    /\ IF write THEN PutSecret(DesiredSecret(j)) /\ made' = (made \/ create)
       ELSE UNCHANGED <<map, secret, outdated, made>>
    /\ Goto(j, [job[j] EXCEPT !.pc = AfterSync(j, create \/ write, "mountSecret"),
                              !.cfg = NoConfig, !.uid = 0, !.found = NoSecret])
    /\ UNCHANGED <<sources, nb, events>>

--------------------------------------------------------------------------------
(* The webhook's mounts.                                                   *)

\* MountPipelineRuntimeImages
MountMap(n) ==
    /\ job[n].pc = "mountMap"
    /\ Goto(n, [job[n] EXCEPT !.pc = "read",
                              !.mounts = IF map \in {NoMap, NoData} THEN @
                                         ELSE @ \cup {"map"}])
    /\ UNCHANGED <<sources, map, secret, nb, outdated, events, made>>

\* MountElyraRuntimeConfigSecret: only one that is labelled and not empty.
MountSecret(n) ==
    /\ job[n].pc = "mountSecret"
    /\ Goto(n, [job[n] EXCEPT !.pc = "admit",
                              !.mounts = IF secret.managed /\ secret.data # NoConfig
                                         THEN @ \cup {"secret"} ELSE @])
    /\ UNCHANGED <<sources, map, secret, nb, outdated, events, made>>

Admit(n) ==
    /\ job[n].pc = "admit"
    /\ nb' = [nb EXCEPT ![n] = [there |-> TRUE, mounts |-> job[n].mounts,
                                due |-> job[n].want \ job[n].lost]]
    /\ Goto(n, NoJob)
    /\ UNCHANGED <<sources, map, secret, outdated, events, made>>

\* A call fails: an error of a sync is treated as above, one of a mount ends the
\* request.
CallFails(j) ==
    /\ job[j].pc \notin {"none", "admit"} /\ Act
    /\ LET ofMap == job[j].pc \in {"list", "getMap", "putMap"}
           k == IF ofMap THEN "map" ELSE "secret" IN
       Goto(j, IF job[j].pc \in {"mountMap", "mountSecret"} THEN NoJob
               ELSE [NoJob EXCEPT
                       !.pc = AfterSync(j, FALSE, IF ofMap THEN "mountMap" ELSE "mountSecret"),
                       !.mounts = job[j].mounts, !.want = job[j].want,
                       !.lost = job[j].lost \cup {k}])
    /\ UNCHANGED <<sources, map, secret, nb, outdated, made>>

Sync(j) ==
    \/ ListImageStreams(j) \/ GetRuntimeConfigMap(j) \/ PutRuntimeConfigMap(j)
    \/ ReadDSPA(j) \/ GetSecret(j) \/ PutElyraSecret(j)

Next ==
    \/ ChangeStream \/ ChangeGateway \/ ChangeDSPA
    \/ DeployDSPA \/ RemoveDSPA \/ DropMap \/ ReplaceSecret \/ Collect
    \/ StartReconcile
    \/ \E n \in NB : Request(n) \/ MountMap(n) \/ MountSecret(n) \/ Admit(n)
    \/ \E j \in Jobs : Sync(j) \/ CallFails(j)

Spec == Init /\ [][Next]_vars

\* Calls return, the garbage collector goes round, and every Notebook is
\* reconciled again and again, at the latest when the informer resyncs.
FairSpec ==
    /\ Spec
    /\ WF_vars(StartReconcile) /\ WF_vars(Collect)
    /\ \A j \in Jobs : WF_vars(Sync(j))
    /\ \A n \in NB : WF_vars(MountMap(n) \/ MountSecret(n) \/ Admit(n))

--------------------------------------------------------------------------------
(* Properties.                                                             *)

\* A Notebook, the first of its namespace included, is stored with the mounts of
\* all that was available when it was admitted, however admissions and a
\* reconcile race for the objects (RHOAIENG-24545, notebook_mutating_webhook.go),
\* unless a call failed or somebody took the object away meanwhile.
AdmittedWithMounts == \A n \in NB : nb[n].due \subseteq nb[n].mounts

\* When the sources and the objects are left alone, the ConfigMap has in the end
\* the images there are, and the Secret the configuration of the DSPA there is,
\* although the last to write may be a sync that has read the sources before.
UpToDate ==
    (\E n \in NB : nb[n].there) =>
        /\ RuntimeImages(stream) # NoData => map = RuntimeImages(stream)
        /\ LET cfg == ElyraConfig(dspa, gateway) IN
           cfg # NoConfig => secret.there /\ secret.managed /\ secret.data = cfg

EventuallyUpToDate == <>[]UpToDate

\* The credentials in a Secret that a sync has made do not outlive the DSPA they
\* are for, not even if it is removed while the Secret is being made.
SecretGoesWithDSPA == <>[](dspa.conf = "none" => ~(secret.there /\ made))
================================================================================

-------------------------- MODULE PipelineConfigProofs --------------------------
(***************************************************************************)
(* Proofs about PipelineConfig, for every set of Notebooks, of images and  *)
(* of defects and every bound: any number of admissions and the reconcile  *)
(* race for the ConfigMap and the Secret.                                  *)
(*                                                                         *)
(* The argument follows one admission.  What it wants and nobody has       *)
(* interfered with is there when the mount is made: it has been found or   *)
(* written, or the write was refused, and then because another sync has    *)
(* written meanwhile (Fits); and no sync ever writes an empty ConfigMap or *)
(* a Secret that could not be mounted (Shape).                             *)
(***************************************************************************)
EXTENDS PipelineConfig, TLAPS

JobTypes == [pc: Pcs, data: Maps \ {NoMap}, seen: Maps, uid: 0..MaxUID,
             cfg: Configs, found: Secrets, mounts: SUBSET Kinds,
             want: SUBSET Kinds, lost: SUBSET Kinds]

\* A Secret the webhook mounts.
Mountable(s) == s.managed /\ s.data # NoConfig

\* A job r keeps what it has found only while it is about to write, and writes
\* only what can be mounted.
Shape(r) ==
    /\ r.pc = "putMap" => r.data # NoData
    /\ r.pc # "putMap" => r.seen = NoMap
    /\ r.pc \in {"getSecret", "putSecret"} => r.cfg # NoConfig
    /\ r.pc # "putSecret" => ~r.found.there

\* The ConfigMap m is, or will be, there for the admission r.
MapFits(r, m) ==
    /\ r.pc \in {"none", "list"} => "map" \notin r.want
    /\ r.pc = "getMap" /\ "map" \in r.want => r.data # NoData
    /\ r.pc = "putMap" /\ "map" \notin r.lost /\ r.seen # NoMap => m # NoMap
    /\ r.pc = "mountMap" /\ "map" \in r.want \ r.lost => m # NoMap
    /\ r.pc \in {"read", "getSecret", "putSecret", "mountSecret", "admit"}
          /\ "map" \in r.want \ r.lost => "map" \in r.mounts

\* The same for the Secret s; out: r's copy of it is not the stored one.
SecretFits(r, s, out) ==
    /\ r.pc \in {"none", "list", "getMap", "putMap", "mountMap", "read"} =>
          "secret" \notin r.want
    /\ r.pc = "putSecret" /\ "secret" \notin r.lost =>
          /\ ~r.found.there /\ s.there => Mountable(s)
          /\ r.found.there /\ out => Mountable(s)
    /\ r.pc = "mountSecret" /\ "secret" \in r.want \ r.lost => Mountable(s)
    /\ r.pc = "admit" /\ "secret" \in r.want \ r.lost => "secret" \in r.mounts

JobInv ==
    /\ map # NoData
    /\ \A j \in Jobs : Shape(job[j])
    /\ \A n \in NB : MapFits(job[n], map) /\ SecretFits(job[n], secret, n \in outdated)

Inv == TypeOK /\ JobInv /\ AdmittedWithMounts

--------------------------------------------------------------------------------
(* Values, and how jobs are written.                                       *)

\* The constants of the model and their types.
LEMMA ConstantFacts ==
    /\ NoJob \in JobTypes /\ NoSecret \in Secrets /\ ~NoSecret.there
    /\ NoMap \in Maps /\ NoData \in Maps /\ NoMap # NoData
    /\ \A i \in Images : i \in Maps /\ i # NoMap /\ i # NoData
    /\ \A m \in Maps : m # NoMap /\ m # NoData => m \in Images
    /\ Controller \in Jobs /\ Controller \notin NB /\ NB \subseteq Jobs
    /\ \A j \in Jobs : j # Controller => j \in NB
    /\ NoConfig \in Configs /\ 0 \in 0..MaxUID
<1>1. NoSecret \in Secrets /\ ~NoSecret.there
  BY BoundAssumption DEF NoSecret, Secrets, Configs
<1>2. /\ NoMap \in Maps /\ NoData \in Maps /\ NoMap # NoData
      /\ \A i \in Images : i \in Maps /\ i # NoMap /\ i # NoData
      /\ \A m \in Maps : m # NoMap /\ m # NoData => m \in Images
  BY ImagesAssumption DEF Maps, NoMap, NoData
<1>3. NoJob \in JobTypes
  BY <1>1, <1>2, BoundAssumption DEF NoJob, JobTypes, Pcs, Configs, Kinds
<1>4. NoConfig \in Configs /\ 0 \in 0..MaxUID
  BY BoundAssumption DEF Configs
<1> QED BY <1>1, <1>2, <1>3, <1>4, NBAssumption DEF Jobs, Controller

\* A job that is over wants nothing.
LEMMA NoJobFits ==
    /\ Shape(NoJob)
    /\ \A m, s, out : MapFits(NoJob, m) /\ SecretFits(NoJob, s, out)
<1>1. /\ NoJob.pc = "none" /\ NoJob.seen = NoMap /\ ~NoJob.found.there /\ NoJob.want = {}
  BY DEF NoJob, NoSecret
<1> QED BY <1>1 DEF Shape, MapFits, SecretFits

\* A job goes on, the others stay; what is said of all of them follows from what
\* is said of this one.
LEMMA GotoInv ==
    ASSUME TypeOK, NEW j \in Jobs, NEW rec \in JobTypes, Goto(j, rec), Shape(rec),
           map' # NoData,
           \A i \in Jobs : Shape(job[i]),
           j \in NB => MapFits(rec, map') /\ SecretFits(rec, secret', j \in outdated'),
           \A n \in NB \ {j} : /\ MapFits(job[n], map')
                               /\ SecretFits(job[n], secret', n \in outdated')
    PROVE  job' \in [Jobs -> JobTypes] /\ JobInv'
<1>1. job \in [Jobs -> JobTypes]
  BY DEF TypeOK, JobTypes
<1>2. PICK new \in JobTypes :
         /\ job' = [job EXCEPT ![j] = new]
         /\ Shape(new)
         /\ j \in NB => MapFits(new, map') /\ SecretFits(new, secret', j \in outdated')
  <2>1. CASE rec.pc = "none"
    <3>1. job' = [job EXCEPT ![j] = NoJob]
      BY <2>1 DEF Goto
    <3> QED BY <3>1, ConstantFacts, NoJobFits
  <2>2. CASE rec.pc # "none" /\ j = Controller
    <3> DEFINE new == [rec EXCEPT !.want = {}, !.lost = {}]
    <3>1. job' = [job EXCEPT ![j] = new]
      BY <2>2 DEF Goto
    <3>2. /\ new \in JobTypes /\ new.pc = rec.pc /\ new.data = rec.data
          /\ new.seen = rec.seen /\ new.cfg = rec.cfg /\ new.found = rec.found
      BY DEF JobTypes
    <3>3. j \notin NB
      BY <2>2, ConstantFacts
    <3> HIDE DEF new
    <3>4. Shape(new)
      BY <3>2 DEF Shape
    <3> QED BY <3>1, <3>2, <3>3, <3>4
  <2>3. CASE rec.pc # "none" /\ j # Controller
    <3>1. job' = [job EXCEPT ![j] = rec]
      BY <2>3 DEF Goto
    <3> QED BY <3>1
  <2> QED BY <2>1, <2>2, <2>3
<1>3. job' \in [Jobs -> JobTypes] /\ job'[j] = new
      /\ \A i \in Jobs \ {j} : job'[i] = job[i]
  BY <1>1, <1>2
<1>4. \A i \in Jobs : Shape(job'[i])
  BY <1>2, <1>3
<1>5. \A n \in NB : MapFits(job'[n], map') /\ SecretFits(job'[n], secret', n \in outdated')
  BY <1>2, <1>3, ConstantFacts
<1> QED BY <1>3, <1>4, <1>5 DEF JobInv

\* The same with everything else a job may do.
LEMMA JobStepInv ==
    ASSUME Inv, NEW j \in Jobs, NEW rec \in JobTypes, Goto(j, rec), Shape(rec),
           map' \in Maps \ {NoData}, secret' \in Secrets, outdated' \in SUBSET Jobs,
           j \in NB => MapFits(rec, map') /\ SecretFits(rec, secret', j \in outdated'),
           \A n \in NB \ {j} : /\ MapFits(job[n], map')
                               /\ SecretFits(job[n], secret', n \in outdated'),
           UNCHANGED <<stream, dspa, gateway, nb>>,
           events' \in 0..MaxEvents, made' \in BOOLEAN
    PROVE  Inv'
<1>1. job' \in [Jobs -> JobTypes] /\ JobInv'
  BY GotoInv DEF Inv, JobInv
<1>2. TypeOK'
  BY <1>1 DEF Inv, TypeOK, JobTypes
<1>3. AdmittedWithMounts'
  BY DEF Inv, AdmittedWithMounts
<1> QED BY <1>1, <1>2, <1>3 DEF Inv

\* A step that reads, or is refused a write.
LEMMA ReadStepInv ==
    ASSUME Inv, NEW j \in Jobs, NEW rec \in JobTypes, Goto(j, rec), Shape(rec),
           j \in NB => MapFits(rec, map) /\ SecretFits(rec, secret, j \in outdated'),
           outdated' = outdated \/ outdated' = outdated \ {j},
           UNCHANGED <<stream, dspa, gateway, map, secret, nb, made>>,
           events' \in 0..MaxEvents
    PROVE  Inv'
<1>1. map' \in Maps \ {NoData} /\ secret' \in Secrets /\ made' \in BOOLEAN
  BY DEF Inv, TypeOK, JobInv
<1>2. outdated' \in SUBSET Jobs
  BY DEF Inv, TypeOK
<1>3. ASSUME NEW n \in NB \ {j}
      PROVE  MapFits(job[n], map') /\ SecretFits(job[n], secret', n \in outdated')
  <2>1. (n \in outdated') = (n \in outdated)
    OBVIOUS
  <2>2. SecretFits(job[n], secret, n \in outdated)
    BY DEF Inv, JobInv
  <2>3. SecretFits(job[n], secret', n \in outdated')
    BY <2>1, <2>2
  <2> QED BY <2>3 DEF Inv, JobInv
<1>4. j \in NB => MapFits(rec, map') /\ SecretFits(rec, secret', j \in outdated')
  OBVIOUS
<1> QED BY <1>1, <1>2, <1>3, <1>4, JobStepInv

\* A ConfigMap with images suits every admission.
LEMMA PutMapFits ==
    ASSUME Inv, NEW new \in Images, PutMap(new)
    PROVE  /\ map' \in Maps \ {NoData} /\ secret' \in Secrets /\ outdated' \in SUBSET Jobs
           /\ \A n \in NB : /\ MapFits(job[n], map')
                            /\ SecretFits(job[n], secret', n \in outdated')
<1>1. /\ map' = new /\ secret' = secret
      /\ outdated' = outdated \cup {j \in Jobs : job[j].seen # NoMap}
      /\ map' # NoMap /\ map' # NoData /\ map' \in Maps
  BY ConstantFacts DEF PutMap
<1>2. secret' \in Secrets /\ outdated' \in SUBSET Jobs
  BY <1>1 DEF Inv, TypeOK
<1>3. ASSUME NEW n \in NB
      PROVE  /\ MapFits(job[n], map')
             /\ SecretFits(job[n], secret', n \in outdated')
  <2>1. /\ Shape(job[n]) /\ MapFits(job[n], map)
        /\ SecretFits(job[n], secret, n \in outdated)
    BY ConstantFacts DEF Inv, JobInv
  <2>2. MapFits(job[n], map')
    BY <1>1, <2>1 DEF MapFits
  <2>3. job[n].pc = "putSecret" => (n \in outdated' <=> n \in outdated)
    BY <1>1, <2>1 DEF Shape
  <2>4. SecretFits(job[n], secret', n \in outdated')
    BY <1>1, <2>1, <2>3 DEF SecretFits
  <2> QED BY <2>2, <2>4
<1> QED BY <1>1, <1>2, <1>3

\* A Secret that can be mounted does.
LEMMA PutSecretFits ==
    ASSUME Inv, NEW new \in Secrets, Mountable(new), PutSecret(new)
    PROVE  /\ map' \in Maps \ {NoData} /\ secret' \in Secrets /\ outdated' \in SUBSET Jobs
           /\ \A n \in NB : /\ MapFits(job[n], map')
                            /\ SecretFits(job[n], secret', n \in outdated')
<1>1. /\ secret' = new /\ map' = map
      /\ outdated' = outdated \cup {j \in Jobs : job[j].found.there}
  BY DEF PutSecret
<1>2. map' \in Maps \ {NoData} /\ outdated' \in SUBSET Jobs
  BY <1>1 DEF Inv, TypeOK, JobInv
<1>3. ASSUME NEW n \in NB
      PROVE  /\ MapFits(job[n], map')
             /\ SecretFits(job[n], secret', n \in outdated')
  <2>1. MapFits(job[n], map) /\ SecretFits(job[n], secret, n \in outdated)
    BY DEF Inv, JobInv
  <2> QED BY <1>1, <2>1 DEF SecretFits
<1> QED BY <1>1, <1>2, <1>3

\* What is known of one job.
LEMMA JobFacts ==
    ASSUME Inv, NEW j \in Jobs
    PROVE  /\ job[j] \in JobTypes /\ Shape(job[j])
           /\ j \in NB => /\ MapFits(job[j], map)
                          /\ SecretFits(job[j], secret, j \in outdated)
  BY DEF Inv, TypeOK, JobTypes, JobInv

\* Where a job is after a sync: an admission at the mount, the controller never.
LEMMA AfterSyncFacts ==
    ASSUME NEW j \in Jobs, NEW ok \in BOOLEAN, NEW at \in {"mountMap", "mountSecret"}
    PROVE  /\ AfterSync(j, ok, at) \in {at, "read", "none"}
           /\ AfterSync(j, ok, at) \in Pcs
           /\ j \in NB => AfterSync(j, ok, at) = at
<1>1. j \in NB => j # Controller
  BY ConstantFacts
<1>2. /\ AfterSync(j, ok, at) \in {at, "read", "none"}
      /\ j \in NB => AfterSync(j, ok, at) = at
  BY <1>1 DEF AfterSync
<1> QED BY <1>2 DEF Pcs

--------------------------------------------------------------------------------
(* The sync of the ConfigMap.                                              *)

\* The images are listed: a ConfigMap is wanted if that gives data.
LEMMA ListInv ==
    ASSUME Inv, NEW j \in Jobs, ListImageStreams(j)
    PROVE  Inv'
<1> DEFINE r    == job[j]
           data == RuntimeImages(stream)
           rec  == [r EXCEPT !.pc = "getMap", !.data = data,
                             !.want = IF data # NoData THEN {"map"} ELSE {}]
<1>1. r \in JobTypes /\ Shape(r) /\ r.pc = "list"
  BY JobFacts DEF ListImageStreams
<1>2. data \in Maps \ {NoMap}
  BY ConstantFacts DEF RuntimeImages
<1> HIDE DEF data
<1>3. /\ rec \in JobTypes /\ rec.pc = "getMap" /\ rec.data = data
      /\ rec.want = (IF data # NoData THEN {"map"} ELSE {})
      /\ rec.seen = r.seen /\ rec.found = r.found
  BY <1>1, <1>2 DEF JobTypes, Pcs, Kinds
<1>4. /\ Goto(j, rec) /\ events' \in 0..MaxEvents
      /\ UNCHANGED <<stream, dspa, gateway, map, secret, nb, outdated, made>>
  BY DEF ListImageStreams, data, sources, Inv, TypeOK
<1> HIDE DEF rec
<1>5. Shape(rec)
  BY <1>1, <1>3 DEF Shape
<1>6. MapFits(rec, map) /\ SecretFits(rec, secret, j \in outdated')
  BY <1>3 DEF MapFits, SecretFits
<1> QED BY <1>3, <1>4, <1>5, <1>6, ReadStepInv

\* The ConfigMap is found as it should be, or there is something to write.
LEMMA GetMapInv ==
    ASSUME Inv, NEW j \in Jobs, GetRuntimeConfigMap(j)
    PROVE  Inv'
<1> DEFINE r == job[j]
<1>1. /\ r \in JobTypes /\ Shape(r) /\ r.pc = "getMap"
      /\ j \in NB => MapFits(r, map) /\ SecretFits(r, secret, j \in outdated)
      /\ map \in Maps
  BY JobFacts DEF GetRuntimeConfigMap, Inv, TypeOK
<1>2. /\ events' \in 0..MaxEvents /\ outdated' = outdated \ {j}
      /\ UNCHANGED <<stream, dspa, gateway, map, secret, nb, made>>
  BY DEF GetRuntimeConfigMap, sources, Inv, TypeOK
<1>3. CASE MapSettled(r.data)
  <2> DEFINE at  == AfterSync(j, TRUE, "mountMap")
             rec == [r EXCEPT !.pc = at, !.data = NoData]
  <2>1. /\ at \in {"mountMap", "read", "none"} /\ at \in Pcs
        /\ j \in NB => at = "mountMap"
    BY AfterSyncFacts
  <2>2. Goto(j, rec)
    BY <1>3 DEF GetRuntimeConfigMap
  <2> HIDE DEF at
  <2>3. /\ rec \in JobTypes /\ rec.pc = at /\ rec.seen = r.seen /\ rec.found = r.found
        /\ rec.want = r.want /\ rec.lost = r.lost
    BY <1>1, <2>1, ConstantFacts DEF JobTypes
  <2> HIDE DEF rec
  <2>4. Shape(rec)
    BY <1>1, <2>1, <2>3 DEF Shape
  <2>5. ASSUME j \in NB
        PROVE  MapFits(rec, map) /\ SecretFits(rec, secret, j \in outdated')
    <3>1. "map" \in r.want => map = r.data /\ map # NoMap
      BY <1>1, <1>3, <2>5 DEF MapFits, MapSettled, JobTypes
    <3>2. "secret" \notin r.want
      BY <1>1, <2>5 DEF SecretFits
    <3> QED BY <2>1, <2>3, <2>5, <3>1, <3>2 DEF MapFits, SecretFits
  <2> QED BY <1>2, <2>2, <2>3, <2>4, <2>5, ReadStepInv
<1>4. CASE ~MapSettled(r.data)
  <2> DEFINE rec == [r EXCEPT !.pc = "putMap", !.seen = map]
  <2>1. Goto(j, rec)
    BY <1>4 DEF GetRuntimeConfigMap
  <2>2. /\ rec \in JobTypes /\ rec.pc = "putMap" /\ rec.seen = map /\ rec.data = r.data
        /\ rec.found = r.found /\ rec.want = r.want
    BY <1>1 DEF JobTypes, Pcs
  <2> HIDE DEF rec
  <2>3. r.data # NoData
    BY <1>4 DEF MapSettled
  <2>4. Shape(rec)
    BY <1>1, <2>2, <2>3 DEF Shape
  <2>5. j \in NB => MapFits(rec, map) /\ SecretFits(rec, secret, j \in outdated')
    BY <1>1, <2>2 DEF MapFits, SecretFits
  <2> QED BY <1>2, <2>1, <2>2, <2>4, <2>5, ReadStepInv
<1> QED BY <1>3, <1>4

\* The ConfigMap is written, or it has been written or taken away meanwhile.
LEMMA PutMapInv ==
    ASSUME Inv, NEW j \in Jobs, PutRuntimeConfigMap(j)
    PROVE  Inv'
<1> DEFINE r   == job[j]
           ok  == IF r.seen = NoMap THEN map = NoMap ELSE j \notin outdated
           at  == AfterSync(j, ok, "mountMap")
           rec == [r EXCEPT !.pc = at, !.data = NoData, !.seen = NoMap]
<1>1. /\ r \in JobTypes /\ Shape(r) /\ r.pc = "putMap"
      /\ j \in NB => MapFits(r, map) /\ SecretFits(r, secret, j \in outdated)
  BY JobFacts DEF PutRuntimeConfigMap
<1>2. /\ at \in {"mountMap", "read", "none"} /\ at \in Pcs
      /\ j \in NB => at = "mountMap"
  <2>1. ok \in BOOLEAN
    OBVIOUS
  <2> HIDE DEF ok
  <2> QED BY <2>1, AfterSyncFacts
<1>3. /\ Goto(j, rec) /\ events' \in 0..MaxEvents /\ made' \in BOOLEAN
      /\ UNCHANGED <<stream, dspa, gateway, nb, made>>
      /\ IF ok THEN PutMap(r.data) ELSE UNCHANGED <<map, secret, outdated>>
  BY DEF PutRuntimeConfigMap, sources, Inv, TypeOK
<1> HIDE DEF at
<1>4. /\ rec \in JobTypes /\ rec.pc = at /\ rec.seen = NoMap /\ rec.found = r.found
      /\ rec.want = r.want /\ rec.lost = r.lost
  BY <1>1, <1>2, ConstantFacts DEF JobTypes
<1> HIDE DEF rec
<1>5. Shape(rec)
  BY <1>1, <1>2, <1>4 DEF Shape
<1>6. r.data \in Images
  BY <1>1, ConstantFacts DEF Shape, JobTypes
<1>7. CASE ok
  <2>1. PutMap(r.data) /\ map' = r.data /\ map' # NoMap
    BY <1>3, <1>6, <1>7, ConstantFacts DEF PutMap
  <2>2. /\ map' \in Maps \ {NoData} /\ secret' \in Secrets /\ outdated' \in SUBSET Jobs
        /\ \A n \in NB : /\ MapFits(job[n], map')
                         /\ SecretFits(job[n], secret', n \in outdated')
    BY <1>6, <2>1, PutMapFits
  <2>3. j \in NB => MapFits(rec, map') /\ SecretFits(rec, secret', j \in outdated')
    BY <1>1, <1>2, <1>4, <2>1 DEF MapFits, SecretFits
  <2> QED BY <1>3, <1>4, <1>5, <2>2, <2>3, JobStepInv
<1>8. CASE ~ok
  <2>1. UNCHANGED <<map, secret, outdated>>
    BY <1>3, <1>8
  <2>2. j \in NB /\ "map" \notin r.lost => map # NoMap
    BY <1>1, <1>8 DEF MapFits
  <2>3. j \in NB => MapFits(rec, map) /\ SecretFits(rec, secret, j \in outdated')
    BY <1>1, <1>2, <1>4, <2>2 DEF MapFits, SecretFits
  <2> QED BY <1>3, <1>4, <1>5, <2>1, <2>3, ReadStepInv
<1> QED BY <1>7, <1>8

--------------------------------------------------------------------------------
(* The sync of the Secret.                                                 *)

\* The DSPA and what belongs to it are read; what is missing ends the sync.
LEMMA ReadDSPAInv ==
    ASSUME Inv, NEW j \in Jobs, ReadDSPA(j)
    PROVE  Inv'
<1> DEFINE r   == job[j]
           cfg == ElyraConfig(dspa, gateway)
<1>1. /\ r \in JobTypes /\ Shape(r) /\ r.pc = "read"
      /\ j \in NB => MapFits(r, map) /\ SecretFits(r, secret, j \in outdated)
  BY JobFacts DEF ReadDSPA
<1>2. /\ events' \in 0..MaxEvents
      /\ UNCHANGED <<stream, dspa, gateway, map, secret, nb, outdated, made>>
  BY DEF ReadDSPA, sources, Inv, TypeOK
<1>3. cfg \in Configs /\ dspa.uid \in 0..MaxUID
  BY DEF ElyraConfig, getHostnameForPublicEndpoint, Configs, Hosts, Gateways, Inv, TypeOK,
         DSPAs
<1>4. CASE cfg = NoConfig
  <2> DEFINE at  == AfterSync(j, TRUE, "mountSecret")
             rec == [r EXCEPT !.pc = at]
  <2>1. /\ at \in {"mountSecret", "read", "none"} /\ at \in Pcs
        /\ j \in NB => at = "mountSecret"
    BY AfterSyncFacts
  <2>2. Goto(j, rec)
    BY <1>4 DEF ReadDSPA
  <2> HIDE DEF at, cfg
  <2>3. /\ rec \in JobTypes /\ rec.pc = at /\ rec.seen = r.seen /\ rec.found = r.found
        /\ rec.want = r.want /\ rec.lost = r.lost /\ rec.mounts = r.mounts
    BY <1>1, <2>1 DEF JobTypes
  <2> HIDE DEF rec
  <2>4. Shape(rec)
    BY <1>1, <2>1, <2>3 DEF Shape
  <2>5. j \in NB => MapFits(rec, map) /\ SecretFits(rec, secret, j \in outdated')
    BY <1>1, <2>1, <2>3 DEF MapFits, SecretFits
  <2> QED BY <1>2, <2>2, <2>3, <2>4, <2>5, ReadStepInv
<1>5. CASE cfg # NoConfig
  <2> DEFINE rec == [r EXCEPT !.pc = "getSecret", !.cfg = cfg, !.uid = dspa.uid,
                              !.want = @ \cup {"secret"}]
  <2>1. Goto(j, rec)
    BY <1>5 DEF ReadDSPA
  <2> HIDE DEF cfg
  <2>2. /\ rec \in JobTypes /\ rec.pc = "getSecret" /\ rec.cfg = cfg
        /\ rec.seen = r.seen /\ rec.found = r.found /\ rec.want = r.want \cup {"secret"}
        /\ rec.lost = r.lost /\ rec.mounts = r.mounts
    BY <1>1, <1>3 DEF JobTypes, Pcs, Kinds
  <2> HIDE DEF rec
  <2>3. Shape(rec)
    BY <1>1, <1>5, <2>2 DEF Shape
  <2>4. j \in NB => MapFits(rec, map) /\ SecretFits(rec, secret, j \in outdated')
    BY <1>1, <2>2 DEF MapFits, SecretFits
  <2> QED BY <1>2, <2>1, <2>2, <2>3, <2>4, ReadStepInv
<1> QED BY <1>4, <1>5

\* The Secret is found as it should be, or there is something to write.
LEMMA GetSecretInv ==
    ASSUME Inv, NEW j \in Jobs, GetSecret(j)
    PROVE  Inv'
<1> DEFINE r     == job[j]
           found == secret.there /\ secret.managed /\ secret.data = r.cfg
<1>1. /\ r \in JobTypes /\ Shape(r) /\ r.pc = "getSecret"
      /\ j \in NB => MapFits(r, map) /\ SecretFits(r, secret, j \in outdated)
      /\ secret \in Secrets
  BY JobFacts DEF GetSecret, Inv, TypeOK
<1>2. /\ events' \in 0..MaxEvents /\ outdated' = outdated \ {j}
      /\ UNCHANGED <<stream, dspa, gateway, map, secret, nb, made>>
  BY DEF GetSecret, sources, Inv, TypeOK
<1>3. CASE found
  <2> DEFINE at  == AfterSync(j, TRUE, "mountSecret")
             rec == [r EXCEPT !.pc = at, !.cfg = NoConfig, !.uid = 0]
  <2>1. /\ at \in {"mountSecret", "read", "none"} /\ at \in Pcs
        /\ j \in NB => at = "mountSecret"
    BY AfterSyncFacts
  <2>2. Goto(j, rec)
    BY <1>3 DEF GetSecret
  <2> HIDE DEF at
  <2>3. /\ rec \in JobTypes /\ rec.pc = at /\ rec.seen = r.seen /\ rec.found = r.found
        /\ rec.want = r.want /\ rec.lost = r.lost /\ rec.mounts = r.mounts
    BY <1>1, <2>1, ConstantFacts DEF JobTypes
  <2> HIDE DEF rec
  <2>4. Shape(rec)
    BY <1>1, <2>1, <2>3 DEF Shape
  <2>5. Mountable(secret)
    BY <1>1, <1>3 DEF Mountable, Shape
  <2>6. j \in NB => MapFits(rec, map) /\ SecretFits(rec, secret, j \in outdated')
    BY <1>1, <2>1, <2>3, <2>5 DEF MapFits, SecretFits
  <2> QED BY <1>2, <2>2, <2>3, <2>4, <2>6, ReadStepInv
<1>4. CASE ~found
  <2> DEFINE rec == [r EXCEPT !.pc = "putSecret", !.found = secret]
  <2>1. Goto(j, rec)
    BY <1>4 DEF GetSecret
  <2>2. /\ rec \in JobTypes /\ rec.pc = "putSecret" /\ rec.cfg = r.cfg
        /\ rec.seen = r.seen /\ rec.found = secret /\ rec.want = r.want
        /\ rec.lost = r.lost /\ rec.mounts = r.mounts
    BY <1>1 DEF JobTypes, Pcs
  <2> HIDE DEF rec
  <2>3. Shape(rec)
    BY <1>1, <2>2 DEF Shape
  <2>4. j \notin outdated'
    BY <1>2
  <2>5. j \in NB => MapFits(rec, map) /\ SecretFits(rec, secret, j \in outdated')
    BY <1>1, <2>2, <2>4 DEF MapFits, SecretFits
  <2> QED BY <1>2, <2>1, <2>2, <2>3, <2>5, ReadStepInv
<1> QED BY <1>3, <1>4

\* The Secret is written, or has been written or taken away meanwhile.
LEMMA PutSecretInv ==
    ASSUME Inv, NEW j \in Jobs, PutElyraSecret(j)
    PROVE  Inv'
<1> DEFINE r      == job[j]
           create == ~r.found.there
           write  == IF create THEN ~secret.there ELSE j \notin outdated
           at     == AfterSync(j, create \/ write, "mountSecret")
           rec    == [r EXCEPT !.pc = at, !.cfg = NoConfig, !.uid = 0, !.found = NoSecret]
<1>1. /\ r \in JobTypes /\ Shape(r) /\ r.pc = "putSecret"
      /\ j \in NB => MapFits(r, map) /\ SecretFits(r, secret, j \in outdated)
  BY JobFacts DEF PutElyraSecret
<1>2. /\ at \in {"mountSecret", "read", "none"} /\ at \in Pcs
      /\ j \in NB => at = "mountSecret"
  <2>1. (create \/ write) \in BOOLEAN
    OBVIOUS
  <2> HIDE DEF create, write
  <2> QED BY <2>1, AfterSyncFacts
<1>3. /\ Goto(j, rec) /\ events' \in 0..MaxEvents
      /\ UNCHANGED <<stream, dspa, gateway, nb>>
      /\ IF write THEN PutSecret(DesiredSecret(j)) /\ made' = (made \/ create)
         ELSE UNCHANGED <<map, secret, outdated, made>>
  BY DEF PutElyraSecret, sources, Inv, TypeOK
<1> HIDE DEF at
<1>4. /\ rec \in JobTypes /\ rec.pc = at /\ rec.seen = r.seen /\ ~rec.found.there
      /\ rec.want = r.want /\ rec.lost = r.lost /\ rec.mounts = r.mounts
  BY <1>1, <1>2, ConstantFacts DEF JobTypes
<1> HIDE DEF rec
<1>5. Shape(rec)
  BY <1>1, <1>2, <1>4 DEF Shape
<1>6. CASE write
  <2> DEFINE new == DesiredSecret(j)
  <2>1. new \in Secrets /\ Mountable(new)
    <3>1. /\ r.found.owner \in 0..MaxUID /\ r.uid \in 0..MaxUID /\ r.cfg \in Configs
          /\ r.cfg # NoConfig
      BY <1>1 DEF JobTypes, Secrets, Shape
    <3> QED BY <3>1 DEF DesiredSecret, Secrets, Mountable
  <2>2. PutSecret(new) /\ made' \in BOOLEAN /\ secret' = new
    BY <1>3, <1>6 DEF PutSecret, Inv, TypeOK
  <2> HIDE DEF new
  <2>3. /\ map' \in Maps \ {NoData} /\ secret' \in Secrets /\ outdated' \in SUBSET Jobs
        /\ \A n \in NB : /\ MapFits(job[n], map')
                         /\ SecretFits(job[n], secret', n \in outdated')
    BY <2>1, <2>2, PutSecretFits
  <2>4. map' = map
    BY <2>2 DEF PutSecret
  <2>5. j \in NB => MapFits(rec, map') /\ SecretFits(rec, secret', j \in outdated')
    BY <1>1, <1>2, <1>4, <2>1, <2>2, <2>4 DEF MapFits, SecretFits
  <2> QED BY <1>3, <1>4, <1>5, <2>2, <2>3, <2>5, JobStepInv
<1>7. CASE ~write
  <2>1. UNCHANGED <<map, secret, outdated, made>>
    BY <1>3, <1>7
  <2>2. j \in NB /\ "secret" \notin r.lost => Mountable(secret)
    BY <1>1, <1>7 DEF SecretFits
  <2>3. j \in NB => MapFits(rec, map) /\ SecretFits(rec, secret, j \in outdated')
    BY <1>1, <1>2, <1>4, <2>2 DEF MapFits, SecretFits
  <2> QED BY <1>3, <1>4, <1>5, <2>1, <2>3, ReadStepInv
<1> QED BY <1>6, <1>7

--------------------------------------------------------------------------------
(* The webhook.                                                            *)

\* A request arrives, or a reconcile starts.
LEMMA BeginInv ==
    ASSUME Inv, (\E n \in NB : Request(n)) \/ StartReconcile
    PROVE  Inv'
<1> DEFINE Begun(rec) == /\ rec.pc = "list" /\ rec.seen = NoMap /\ rec.found = NoSecret
                         /\ rec.want = {} /\ rec.lost = {}
<1>1. PICK j \in Jobs, rec \in JobTypes :
         /\ job' = [job EXCEPT ![j] = rec] /\ Begun(rec)
         /\ events' \in 0..MaxEvents
         /\ UNCHANGED <<stream, dspa, gateway, map, secret, nb, outdated, made>>
  <2>1. ASSUME NEW n \in NB, Request(n)
        PROVE  \E j \in Jobs, rec \in JobTypes :
                 /\ job' = [job EXCEPT ![j] = rec] /\ Begun(rec)
                 /\ events' \in 0..MaxEvents
                 /\ UNCHANGED <<stream, dspa, gateway, map, secret, nb, outdated, made>>
    <3> DEFINE rec == [NoJob EXCEPT !.pc = "list", !.mounts = nb[n].mounts]
    <3>1. events' \in 0..MaxEvents
      <4>1. events \in 0..MaxEvents
        BY DEF Inv, TypeOK
      <4>2. (events < MaxEvents /\ events' = events + 1) \/ events' = events
        BY <2>1 DEF Request, Act
      <4> QED BY <4>1, <4>2, BoundAssumption
    <3>2. nb[n].mounts \in SUBSET Kinds /\ n \in Jobs
      BY ConstantFacts DEF Inv, TypeOK
    <3>3. rec \in JobTypes
      BY <3>2, ConstantFacts DEF JobTypes, Pcs
    <3>4. Begun(rec)
      BY DEF NoJob
    <3>5. /\ job' = [job EXCEPT ![n] = rec]
          /\ UNCHANGED <<stream, dspa, gateway, map, secret, nb, outdated, made>>
      BY <2>1 DEF Request, sources
    <3> HIDE DEF rec, Begun
    <3> QED BY <3>1, <3>2, <3>3, <3>4, <3>5
  <2>2. ASSUME StartReconcile
        PROVE  \E j \in Jobs, rec \in JobTypes :
                 /\ job' = [job EXCEPT ![j] = rec] /\ Begun(rec)
                 /\ events' \in 0..MaxEvents
                 /\ UNCHANGED <<stream, dspa, gateway, map, secret, nb, outdated, made>>
    <3> DEFINE rec == [NoJob EXCEPT !.pc = "list"]
    <3>1. rec \in JobTypes
      BY ConstantFacts DEF JobTypes, Pcs
    <3>2. Begun(rec)
      BY DEF NoJob
    <3>3. /\ job' = [job EXCEPT ![Controller] = rec] /\ events' \in 0..MaxEvents
          /\ UNCHANGED <<stream, dspa, gateway, map, secret, nb, outdated, made>>
      BY <2>2 DEF StartReconcile, sources, Inv, TypeOK
    <3> HIDE DEF rec, Begun
    <3> QED BY <3>1, <3>2, <3>3, ConstantFacts
  <2> QED BY <2>1, <2>2
<1>2. /\ rec.pc = "list" /\ rec.seen = NoMap /\ ~rec.found.there
      /\ rec.want = {} /\ rec.lost = {}
  BY <1>1, ConstantFacts
<1>3. job' = [job EXCEPT ![j] = rec]
  BY <1>1
<1>4. Goto(j, rec)
  <2>1. [rec EXCEPT !.want = {}, !.lost = {}] = rec
    BY <1>2 DEF JobTypes
  <2> QED BY <1>2, <1>3, <2>1 DEF Goto
<1>5. /\ Shape(rec)
      /\ MapFits(rec, map) /\ SecretFits(rec, secret, j \in outdated')
  BY <1>2 DEF Shape, MapFits, SecretFits
<1> QED BY <1>1, <1>2, <1>4, <1>5, ReadStepInv

\* The webhook mounts what there is.
LEMMA MountInv ==
    ASSUME Inv, NEW n \in NB, MountMap(n) \/ MountSecret(n)
    PROVE  Inv'
<1> DEFINE r == job[n]
<1>1. /\ r \in JobTypes /\ Shape(r) /\ n \in Jobs
      /\ MapFits(r, map) /\ SecretFits(r, secret, n \in outdated)
  BY JobFacts, ConstantFacts
<1>2. /\ events' \in 0..MaxEvents
      /\ UNCHANGED <<stream, dspa, gateway, map, secret, nb, outdated, made>>
  BY DEF MountMap, MountSecret, sources, Inv, TypeOK
<1>3. CASE MountMap(n)
  <2> DEFINE rec == [r EXCEPT !.pc = "read",
                              !.mounts = IF map \in {NoMap, NoData} THEN @
                                         ELSE @ \cup {"map"}]
  <2>1. Goto(n, rec) /\ r.pc = "mountMap"
    BY <1>3 DEF MountMap
  <2>2. /\ rec \in JobTypes /\ rec.pc = "read" /\ rec.seen = r.seen /\ rec.found = r.found
        /\ rec.want = r.want /\ rec.lost = r.lost
        /\ map \notin {NoMap, NoData} => "map" \in rec.mounts
    BY <1>1 DEF JobTypes, Pcs, Kinds
  <2> HIDE DEF rec
  <2>3. Shape(rec)
    BY <1>1, <2>1, <2>2 DEF Shape
  <2>4. map # NoData
    BY DEF Inv, JobInv
  <2>5. MapFits(rec, map) /\ SecretFits(rec, secret, n \in outdated')
    BY <1>1, <2>1, <2>2, <2>4 DEF MapFits, SecretFits
  <2> QED BY <1>1, <1>2, <2>1, <2>2, <2>3, <2>5, ReadStepInv
<1>4. CASE MountSecret(n)
  <2> DEFINE rec == [r EXCEPT !.pc = "admit",
                              !.mounts = IF secret.managed /\ secret.data # NoConfig
                                         THEN @ \cup {"secret"} ELSE @]
  <2>1. Goto(n, rec) /\ r.pc = "mountSecret"
    BY <1>4 DEF MountSecret
  <2>2. /\ rec \in JobTypes /\ rec.pc = "admit" /\ rec.seen = r.seen /\ rec.found = r.found
        /\ rec.want = r.want /\ rec.lost = r.lost /\ r.mounts \subseteq rec.mounts
        /\ Mountable(secret) => "secret" \in rec.mounts
    BY <1>1 DEF JobTypes, Pcs, Kinds, Mountable
  <2> HIDE DEF rec
  <2>3. Shape(rec)
    BY <1>1, <2>1, <2>2 DEF Shape
  <2>4. MapFits(rec, map) /\ SecretFits(rec, secret, n \in outdated')
    BY <1>1, <2>1, <2>2 DEF MapFits, SecretFits
  <2> QED BY <1>1, <1>2, <2>1, <2>2, <2>3, <2>4, ReadStepInv
<1> QED BY <1>3, <1>4

\* The Notebook is stored with what has been mounted.
LEMMA AdmitInv ==
    ASSUME Inv, NEW n \in NB, Admit(n)
    PROVE  Inv'
<1> DEFINE r   == job[n]
           new == [there |-> TRUE, mounts |-> r.mounts, due |-> r.want \ r.lost]
<1>1. /\ r \in JobTypes /\ n \in Jobs /\ r.pc = "admit"
      /\ MapFits(r, map) /\ SecretFits(r, secret, n \in outdated)
  BY JobFacts, ConstantFacts DEF Admit
<1>2. /\ nb' = [nb EXCEPT ![n] = new] /\ Goto(n, NoJob)
      /\ UNCHANGED <<stream, dspa, gateway, map, secret, outdated, events, made>>
  BY DEF Admit, sources
<1>3. r.want \ r.lost \subseteq r.mounts
  BY <1>1 DEF MapFits, SecretFits, JobTypes, Kinds
<1>4. new \in [there: BOOLEAN, mounts: SUBSET Kinds, due: SUBSET Kinds]
      /\ new.due \subseteq new.mounts
  BY <1>1, <1>3 DEF JobTypes
<1> HIDE DEF new
<1>5. job' \in [Jobs -> JobTypes] /\ JobInv'
  <2>1. map' # NoData
        /\ \A i \in Jobs : Shape(job[i])
    BY <1>2 DEF Inv, JobInv
  <2>2. \A m \in NB \ {n} : /\ MapFits(job[m], map')
                            /\ SecretFits(job[m], secret', m \in outdated')
    BY <1>2 DEF Inv, JobInv
  <2> QED BY <1>1, <1>2, <2>1, <2>2, GotoInv, NoJobFits, ConstantFacts DEF Inv
<1>6. TypeOK' /\ AdmittedWithMounts'
  <2>1. nb' \in [NB -> [there: BOOLEAN, mounts: SUBSET Kinds, due: SUBSET Kinds]]
    BY <1>2, <1>4 DEF Inv, TypeOK
  <2>2. \A m \in NB : nb'[m].due \subseteq nb'[m].mounts
    BY <1>2, <1>4 DEF Inv, TypeOK, AdmittedWithMounts
  <2> QED BY <1>2, <1>5, <2>1, <2>2 DEF Inv, TypeOK, JobTypes, AdmittedWithMounts
<1> QED BY <1>5, <1>6 DEF Inv

\* A call fails: the object it is about counts as interfered with.
LEMMA CallFailsInv ==
    ASSUME Inv, NEW j \in Jobs, CallFails(j)
    PROVE  Inv'
<1> DEFINE r     == job[j]
           ofMap == r.pc \in {"list", "getMap", "putMap"}
           k     == IF ofMap THEN "map" ELSE "secret"
           at    == AfterSync(j, FALSE, IF ofMap THEN "mountMap" ELSE "mountSecret")
           rec   == [NoJob EXCEPT !.pc = at, !.mounts = r.mounts, !.want = r.want,
                                  !.lost = r.lost \cup {k}]
<1>1. /\ r \in JobTypes /\ Shape(r) /\ r.pc \notin {"none", "admit"}
      /\ j \in NB => MapFits(r, map) /\ SecretFits(r, secret, j \in outdated)
  BY JobFacts DEF CallFails
<1>2. /\ events' \in 0..MaxEvents
      /\ UNCHANGED <<stream, dspa, gateway, map, secret, nb, outdated, made>>
      /\ Goto(j, IF r.pc \in {"mountMap", "mountSecret"} THEN NoJob ELSE rec)
  BY BoundAssumption DEF CallFails, Act, sources, Inv, TypeOK
<1>3. CASE r.pc \in {"mountMap", "mountSecret"}
  <2>1. Goto(j, NoJob)
    BY <1>2, <1>3
  <2> QED BY <1>2, <2>1, ReadStepInv, NoJobFits, ConstantFacts
<1>4. CASE r.pc \notin {"mountMap", "mountSecret"}
  <2>1. /\ at \in {"mountMap", "mountSecret", "read", "none"} /\ at \in Pcs
        /\ j \in NB /\ ofMap => at = "mountMap" /\ k = "map"
        /\ j \in NB /\ ~ofMap => at = "mountSecret" /\ k = "secret"
    BY AfterSyncFacts
  <2>2. Goto(j, rec)
    BY <1>2, <1>4
  <2>3. k \in Kinds
    BY DEF Kinds
  <2> HIDE DEF at, k
  <2>4. /\ rec.pc = at /\ rec.seen = NoMap /\ rec.found = NoSecret /\ rec.cfg = NoConfig
        /\ rec.mounts = r.mounts /\ rec.want = r.want /\ rec.lost = r.lost \cup {k}
    BY DEF NoJob
  <2>5. rec \in JobTypes
    BY <1>1, <2>1, <2>3, ConstantFacts DEF JobTypes
  <2> HIDE DEF rec
  <2>6. Shape(rec)
    BY <2>1, <2>4, ConstantFacts DEF Shape
  <2>7. j \in NB /\ ofMap => MapFits(rec, map) /\ SecretFits(rec, secret, j \in outdated')
    BY <1>1, <2>1, <2>4 DEF MapFits, SecretFits
  <2>8. r.pc \in {"read", "getSecret", "putSecret"} \/ ofMap
    BY <1>1, <1>4 DEF JobTypes, Pcs
  <2>9. j \in NB /\ ~ofMap => MapFits(rec, map) /\ SecretFits(rec, secret, j \in outdated')
    BY <1>1, <2>1, <2>4, <2>8 DEF MapFits, SecretFits
  <2> QED BY <1>2, <2>2, <2>5, <2>6, <2>7, <2>9, ReadStepInv
<1> QED BY <1>3, <1>4

--------------------------------------------------------------------------------
(* Users, administrators, the garbage collector.                           *)

\* The sources change, or nothing happens.
LEMMA SourceInv ==
    ASSUME Inv, \/ ChangeStream \/ ChangeGateway \/ ChangeDSPA
                \/ DeployDSPA \/ RemoveDSPA \/ UNCHANGED vars
    PROVE  Inv'
<1>1. UNCHANGED <<map, secret, nb, job, outdated, made>>
  BY DEF ChangeStream, ChangeGateway, ChangeDSPA, DeployDSPA, RemoveDSPA, vars
<1>2. events' \in 0..MaxEvents
  BY BoundAssumption DEF ChangeStream, ChangeGateway, ChangeDSPA, DeployDSPA, RemoveDSPA,
         vars, Act, Inv, TypeOK
<1>3. stream' \in Defects \cup Images /\ gateway' \in Gateways
  BY DEF ChangeStream, ChangeGateway, ChangeDSPA, DeployDSPA, RemoveDSPA, vars, sources,
         Inv, TypeOK
<1>4. dspa' \in DSPAs
  <2>1. dspa \in DSPAs
    BY DEF Inv, TypeOK
  <2>2. CASE UNCHANGED dspa
    BY <2>1, <2>2
  <2>3. CASE ChangeDSPA
    BY <2>1, <2>3 DEF ChangeDSPA, DSPAs, Confs
  <2>4. CASE DeployDSPA
    <3>1. dspa.uid + 1 \in 0..MaxUID
      BY <2>1, <2>4, BoundAssumption DEF DeployDSPA, DSPAs
    <3> QED BY <2>4, <3>1 DEF DeployDSPA, DSPAs, Confs
  <2>5. CASE RemoveDSPA
    BY <2>1, <2>5 DEF RemoveDSPA, DSPAs, Confs
  <2> QED BY <2>2, <2>3, <2>4, <2>5 DEF ChangeStream, ChangeGateway, vars, sources
<1>5. TypeOK'
  BY <1>1, <1>2, <1>3, <1>4 DEF Inv, TypeOK
<1>6. JobInv' /\ AdmittedWithMounts'
  BY <1>1 DEF Inv, JobInv, AdmittedWithMounts
<1> QED BY <1>5, <1>6 DEF Inv

\* Objects are deleted or replaced, which every admission that runs is told.
LEMMA InterfereInv ==
    ASSUME Inv, DropMap \/ ReplaceSecret \/ Collect
    PROVE  Inv'
<1>1. PICK k \in Kinds :
         /\ Interfere(k)
         /\ \/ k = "map" /\ PutMap(NoMap) /\ UNCHANGED made
            \/ /\ k = "secret" /\ made' = FALSE
               /\ \E new \in Secrets : PutSecret(new)
         /\ events' \in 0..MaxEvents
         /\ UNCHANGED <<stream, dspa, gateway, nb>>
  <2>1. /\ events' \in 0..MaxEvents /\ UNCHANGED <<stream, dspa, gateway, nb>>
    BY BoundAssumption DEF DropMap, ReplaceSecret, Collect, Act, sources, Inv, TypeOK
  <2>2. CASE DropMap
    BY <2>1, <2>2 DEF DropMap, Kinds
  <2>3. CASE ReplaceSecret
    <3>1. [NoSecret EXCEPT !.there = TRUE] \in Secrets
      BY ConstantFacts DEF Secrets
    <3>2. \E new \in Secrets : PutSecret(new)
      BY <2>3, <3>1, ConstantFacts DEF ReplaceSecret
    <3> QED BY <2>1, <2>3, <3>2 DEF ReplaceSecret, Kinds
  <2>4. CASE Collect
    BY <2>1, <2>4, ConstantFacts DEF Collect, Kinds
  <2> QED BY <2>2, <2>3, <2>4
<1>2. job \in [Jobs -> JobTypes] /\ outdated \in SUBSET Jobs
  BY DEF Inv, TypeOK, JobTypes
<1>3. ASSUME NEW j \in Jobs
      PROVE  /\ job'[j] \in JobTypes /\ Shape(job'[j])
             /\ job'[j].pc = job[j].pc /\ job'[j].found = job[j].found
             /\ job'[j].seen = job[j].seen /\ job'[j].data = job[j].data
             /\ job'[j].want = job[j].want /\ job'[j].mounts = job[j].mounts
             /\ job[j].lost \subseteq job'[j].lost
             /\ j \in NB /\ job[j].pc # "none" => k \in job'[j].lost
  <2>1. job[j] \in JobTypes /\ Shape(job[j]) /\ (j \in NB => j # Controller)
    BY JobFacts, ConstantFacts
  <2>2. CASE job'[j] = job[j] /\ (j = Controller \/ job[j].pc = "none")
    BY <2>1, <2>2
  <2>3. CASE job'[j] = [job[j] EXCEPT !.lost = @ \cup {k}]
    <3>1. /\ job'[j] \in JobTypes /\ job'[j].lost = job[j].lost \cup {k}
          /\ job'[j].pc = job[j].pc /\ job'[j].found = job[j].found
          /\ job'[j].seen = job[j].seen /\ job'[j].data = job[j].data
          /\ job'[j].want = job[j].want /\ job'[j].mounts = job[j].mounts
          /\ job'[j].cfg = job[j].cfg
      BY <1>1, <2>1, <2>3 DEF JobTypes
    <3>2. Shape(job'[j])
      BY <2>1, <3>1 DEF Shape
    <3> QED BY <3>1, <3>2
  <2> QED BY <1>1, <2>2, <2>3 DEF Interfere
<1>4. job' \in [Jobs -> JobTypes]
  BY <1>1, <1>3 DEF Interfere
<1>5. /\ map' \in Maps \ {NoData} /\ secret' \in Secrets /\ outdated' \in SUBSET Jobs
      /\ k = "map" => /\ secret' = secret
                      /\ outdated' = outdated \cup {j \in Jobs : job[j].seen # NoMap}
      /\ k = "secret" => map' = map
  BY <1>1, <1>2, ConstantFacts DEF PutMap, PutSecret, Inv, TypeOK, JobInv
<1>6. ASSUME NEW n \in NB
      PROVE  MapFits(job'[n], map') /\ SecretFits(job'[n], secret', n \in outdated')
  <2>1. n \in Jobs /\ Shape(job[n])
        /\ MapFits(job[n], map) /\ SecretFits(job[n], secret, n \in outdated)
    BY JobFacts, ConstantFacts
  <2>2. CASE k = "map"
    <3>1. MapFits(job'[n], map')
      BY <1>3, <2>1, <2>2 DEF MapFits
    <3>2. job[n].pc = "putSecret" => (n \in outdated' <=> n \in outdated)
      BY <1>5, <2>1, <2>2 DEF Shape
    <3>3. SecretFits(job'[n], secret', n \in outdated')
      BY <1>3, <1>5, <2>1, <2>2, <3>2 DEF SecretFits
    <3> QED BY <3>1, <3>3
  <2>3. CASE k = "secret"
    <3>1. MapFits(job'[n], map')
      BY <1>3, <1>5, <2>1, <2>3 DEF MapFits
    <3>2. SecretFits(job'[n], secret', n \in outdated')
      BY <1>3, <2>1, <2>3 DEF SecretFits
    <3> QED BY <3>1, <3>2
  <2> QED BY <1>1, <2>2, <2>3
<1>7. made' \in BOOLEAN
  BY <1>1 DEF Inv, TypeOK
<1>8. TypeOK' /\ AdmittedWithMounts'
  BY <1>1, <1>4, <1>5, <1>7 DEF Inv, TypeOK, JobTypes, AdmittedWithMounts
<1>9. JobInv'
  BY <1>3, <1>5, <1>6 DEF JobInv
<1> QED BY <1>8, <1>9 DEF Inv

--------------------------------------------------------------------------------
(* Theorems.                                                               *)

\* Nothing is running and nothing has been admitted at first.
LEMMA InitInv == Init => Inv
<1> SUFFICES ASSUME Init PROVE Inv
  OBVIOUS
<1>1. TypeOK
  <2>1. stream \in Defects \cup Images
    BY ImagesAssumption DEF Init
  <2>2. dspa \in DSPAs
    BY BoundAssumption DEF Init, DSPAs, Confs
  <2>3. gateway \in Gateways /\ map \in Maps /\ secret \in Secrets /\ outdated \in SUBSET Jobs
    BY ConstantFacts DEF Init, Gateways
  <2>4. nb \in [NB -> [there: BOOLEAN, mounts: SUBSET Kinds, due: SUBSET Kinds]]
    BY DEF Init, NoNotebook
  <2>5. job \in [Jobs -> JobTypes]
    BY ConstantFacts DEF Init
  <2>6. events \in 0..MaxEvents
    BY BoundAssumption DEF Init
  <2>7. made \in BOOLEAN
    BY Zenon DEF Init
  <2> QED BY <2>1, <2>2, <2>3, <2>4, <2>5, <2>6, <2>7 DEF TypeOK, JobTypes
<1>2. JobInv
  BY ConstantFacts, NoJobFits DEF Init, JobInv
<1>3. AdmittedWithMounts
  BY DEF Init, NoNotebook, AdmittedWithMounts
<1> QED BY <1>1, <1>2, <1>3 DEF Inv

\* The invariant is inductive.
LEMMA NextInv ==
    ASSUME Inv, [Next]_vars
    PROVE  Inv'
<1>1. CASE \/ ChangeStream \/ ChangeGateway \/ ChangeDSPA
           \/ DeployDSPA \/ RemoveDSPA \/ UNCHANGED vars
  BY <1>1, SourceInv
<1>2. CASE DropMap \/ ReplaceSecret \/ Collect
  BY <1>2, InterfereInv
<1>3. CASE (\E n \in NB : Request(n)) \/ StartReconcile
  BY <1>3, BeginInv
<1>4. ASSUME NEW n \in NB, MountMap(n) \/ MountSecret(n) \/ Admit(n) PROVE Inv'
  BY <1>4, MountInv, AdmitInv
<1>5. ASSUME NEW j \in Jobs, Sync(j) \/ CallFails(j) PROVE Inv'
  BY <1>5, ListInv, GetMapInv, PutMapInv, ReadDSPAInv, GetSecretInv, PutSecretInv,
     CallFailsInv DEF Sync
<1> QED BY <1>1, <1>2, <1>3, <1>4, <1>5 DEF Next

\* It holds in every reachable state.
LEMMA SpecInv == Spec => []Inv
  BY InitInv, NextInv, PTL DEF Spec

\* Types: every variable keeps its range, for any number of admissions at a time.
THEOREM TypeTheorem == Spec => []TypeOK
<1>1. Inv => TypeOK
  BY DEF Inv
<1> QED BY <1>1, SpecInv, PTL

\* However many admissions race with each other and with the reconcile for
\* pipeline-runtime-images and ds-pipeline-config, each Notebook is stored with
\* the mounts of all that was available (RHOAIENG-24545).
THEOREM MountsTheorem == Spec => []AdmittedWithMounts
<1>1. Inv => AdmittedWithMounts
  BY DEF Inv
<1> QED BY <1>1, SpecInv, PTL
================================================================================

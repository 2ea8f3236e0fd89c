------------------------- MODULE TrustedCABundleProofs -------------------------
(***************************************************************************)
(* Proofs about TrustedCABundle, for every set of Notebooks and of         *)
(* certificates and every bound.                                           *)
(*                                                                         *)
(* A Notebook that was created without the mount keeps the lock until a    *)
(* reconcile removes it, and that reconcile has found the finalizers on    *)
(* the Notebook (FinalizerInv); with them, and with every other update     *)
(* under the lock, came the mount, because by then there is a bundle       *)
(* (MountInv).  The finalizers a copy shows are still there: they are only *)
(* taken off a Notebook that is terminating, by the reconcile itself.      *)
(***************************************************************************)
EXTENDS TrustedCABundle, TLAPS

Working == {"read", "write", "put", "check", "unset", "unlock"}

There(n)   == nb[n].phase # "absent"
Pending(n) == hook[n].pc # "none"

\* Nothing has happened that StartedWithBundle makes an exception for.
Ordinary == happened \cap {"noSource", "bundleRemoved", "hookFailed"} = {}

WorkTypes == [pc: Pcs, name: NB \cup {Nobody}, inst: CANotebooks,
              todo: Seq(Sources), pool: Seq(Certs), seen: Seq(Contents)]

\* The running reconcile.
WorkInv ==
    /\ work.pc # "idle" => work.name \in NB
    /\ work.pc = "finalizers" => work.inst.phase # "absent"
    /\ work.pc = "read" => work.todo # <<>>
    /\ work.pc = "put" => work.pool # <<>>

\* Notebook n: copies, writes that are being admitted, and finalizers.
FinalizerInv(n) ==
    /\ fresh[n] => nbC[n] = nb[n]
    /\ hook[n].pc = "create" => hook[n].raw # "nomap"
    /\ Pending(n) => IF There(n) THEN hook[n].new.phase = nb[n].phase
                     ELSE ~hook[n].new.fin
    /\ nbC[n].phase = "active" /\ nbC[n].fin => There(n) /\ nb[n].fin
    /\ work.pc \in Working /\ work.name = n => There(n) /\ nb[n].fin
    /\ There(n) /\ nb[n].fin /\ Pending(n) /\ ~hook[n].new.fin =>
          /\ nb[n].phase = "deleting" /\ nbC[n].phase = "deleting"
          /\ ~(work.pc \in Working /\ work.name = n)
    /\ nb[n].phase = "active" /\ (nb[n].fin \/ (Pending(n) /\ hook[n].new.fin)) =>
          /\ nbC[n].phase # "deleting"
          /\ ~(work.pc = "finalizers" /\ work.name = n /\ work.inst.phase = "deleting")

\* Notebook n and the mount: one that is there has a bundle to mount, and does
\* mount it unless it is still as it was created, locked and without finalizers.
MountInv(n) ==
    /\ There(n) => bundle # NoBundle
    /\ There(n) => hook[n].pc # "create"
    /\ There(n) /\ (nb[n].stop # Lock \/ nb[n].fin) => nb[n].inj = 1
    /\ There(n) /\ Pending(n) /\ hook[n].new.stop = NoStop => nb[n].inj = 1

Inv ==
    /\ TypeOK /\ WorkInv
    /\ \A n \in NB : FinalizerInv(n)
    /\ Ordinary => src["ca-bundle.crt"] # "nomap" /\ \A n \in NB : MountInv(n)

--------------------------------------------------------------------------------
(* Files, admission, storage.                                              *)

\* The sources and their files.
LEMMA FileFacts ==
    /\ Sources = {"odh", "self", "service"}
    /\ SourceMaps \in Seq(Sources) /\ SourceMaps # <<>>
    /\ \A m \in Sources : FilesOf(m) \subseteq FileNames
    /\ "ca-bundle.crt" \in FileNames
    /\ \A m \in Sources : "ca-bundle.crt" \in FilesOf(m) => m = "odh"
    /\ \A f \in FileNames : Writable(f) \subseteq Values \ {"nomap"}
<1>1. Sources = {"odh", "self", "service"}
  BY DEF Sources, SourceMaps
<1>2. SourceMaps \in Seq(Sources) /\ SourceMaps # <<>>
  BY <1>1 DEF SourceMaps
<1>3. /\ FilesOf("odh") = {"ca-bundle.crt", "odh-ca-bundle.crt"}
      /\ FilesOf("self") = {"ca.crt"} /\ FilesOf("service") = {"service-ca.crt"}
  BY DEF FilesOf, Files
<1>4. \A m \in Sources : FilesOf(m) \subseteq FileNames
  BY DEF FileNames
<1>5. "ca-bundle.crt" \in FileNames
  BY <1>1, <1>3, <1>4
<1>6. \A m \in Sources : "ca-bundle.crt" \in FilesOf(m) => m = "odh"
  BY <1>1, <1>3
<1>7. \A f \in FileNames : Writable(f) \subseteq Values \ {"nomap"}
  BY CertsAssumption DEF Writable, Values, Contents
<1> QED BY <1>1, <1>2, <1>4, <1>5, <1>6, <1>7

\* The constants and their types.
LEMMA ConstantFacts ==
    /\ Gone \in CANotebooks /\ Gone.phase = "absent" /\ ~Gone.fin /\ Gone.stop = NoStop
    /\ IdleWork \in WorkTypes /\ IdleWork.pc = "idle"
    /\ NoWrite \in [pc: {"none", "read", "create"}, new: CANotebooks, raw: Values]
    /\ NoWrite.pc = "none"
<1>1. Gone \in CANotebooks /\ Gone.phase = "absent" /\ ~Gone.fin /\ Gone.stop = NoStop
  BY DEF Gone, CANotebooks, Phases, StopAnnotation, NoStop, UpdatePending
<1>2. IdleWork \in WorkTypes /\ IdleWork.pc = "idle"
  BY <1>1 DEF IdleWork, WorkTypes, Pcs, NoBundle
<1>3. /\ NoWrite \in [pc: {"none", "read", "create"}, new: CANotebooks, raw: Values]
      /\ NoWrite.pc = "none"
  BY <1>1 DEF NoWrite, Values
<1> QED BY <1>1, <1>2, <1>3

\* The webhook leaves phase and finalizers alone.  A new Notebook gets the lock;
\* an update with the mount has it, unless it is held back from a running one.
LEMMA HandleFacts ==
    ASSUME NEW old \in CANotebooks, NEW new \in CANotebooks, NEW cfg \in {0, 1}
    PROVE  /\ LET r == HandleCreate(new, cfg) IN
              r \in CANotebooks /\ r.phase = new.phase /\ r.fin = new.fin /\ r.stop = Lock
           /\ LET r == HandleUpdate(old, new, cfg) IN
              /\ r \in CANotebooks /\ r.phase = new.phase /\ r.fin = new.fin
              /\ r.stop = new.stop
              /\ cfg = 1 /\ (new.stop = NoStop => old.inj = 1) => r.inj = 1
<1>1. LET r == HandleCreate(new, cfg) IN
      r \in CANotebooks /\ r.phase = new.phase /\ r.fin = new.fin /\ r.stop = Lock
  BY DEF HandleCreate, InjectTemplate, InjectReconciliationLock, CANotebooks,
         StopAnnotation, UpdatePending
<1> DEFINE mutated == InjectTemplate(new, cfg)
<1>2. /\ mutated \in CANotebooks /\ mutated.phase = new.phase /\ mutated.fin = new.fin
      /\ mutated.stop = new.stop /\ mutated.inj = cfg /\ mutated.user = new.user
  BY DEF InjectTemplate, CANotebooks
<1>3. \/ HandleUpdate(old, new, cfg) = [mutated EXCEPT !.pending = "none"]
      \/ /\ HandleUpdate(old, new, cfg) = [mutated EXCEPT !.inj = new.inj, !.pending = "diff"]
         /\ new.stop = NoStop /\ Template(old) = Template(new)
  BY DEF HandleUpdate, maybeRestartRunningNotebook
<1> HIDE DEF mutated
<1>4. LET r == HandleUpdate(old, new, cfg) IN
      /\ r \in CANotebooks /\ r.phase = new.phase /\ r.fin = new.fin
      /\ r.stop = new.stop
      /\ cfg = 1 /\ (new.stop = NoStop => old.inj = 1) => r.inj = 1
  <2>1. CASE HandleUpdate(old, new, cfg) = [mutated EXCEPT !.pending = "none"]
    BY <1>2, <2>1 DEF CANotebooks, UpdatePending
  <2>2. CASE /\ HandleUpdate(old, new, cfg)
                   = [mutated EXCEPT !.inj = new.inj, !.pending = "diff"]
             /\ new.stop = NoStop /\ Template(old) = Template(new)
    <3>1. new.inj = old.inj
      BY <2>2 DEF Template
    <3> QED BY <1>2, <2>2, <3>1 DEF CANotebooks, UpdatePending
  <2> QED BY <1>3, <2>1, <2>2
<1> QED BY <1>1, <1>4

\* A Notebook is stored, or goes because it is terminating without finalizers.
LEMMA PutFacts ==
    ASSUME TypeOK, NEW n \in NB, NEW new \in CANotebooks, Put(n, new)
    PROVE  /\ nb' \in [NB -> CANotebooks] /\ fresh' \in [NB -> BOOLEAN] /\ nbC' = nbC
           /\ nb'[n] = IF new.phase = "deleting" /\ ~new.fin THEN Gone ELSE new
           /\ fresh'[n] => fresh[n] /\ nb'[n] = nb[n]
           /\ \A m \in NB \ {n} : nb'[m] = nb[m] /\ fresh'[m] = fresh[m]
<1>1. /\ nb \in [NB -> CANotebooks] /\ fresh \in [NB -> BOOLEAN]
  BY DEF TypeOK
<1>2. /\ nb' = [nb EXCEPT ![n] = IF new.phase = "deleting" /\ ~new.fin THEN Gone ELSE new]
      /\ fresh' = [fresh EXCEPT ![n] = fresh[n] /\ nb'[n] = nb[n]] /\ nbC' = nbC
  BY DEF Put
<1>3. /\ nb' \in [NB -> CANotebooks]
      /\ nb'[n] = IF new.phase = "deleting" /\ ~new.fin THEN Gone ELSE new
      /\ \A m \in NB \ {n} : nb'[m] = nb[m]
  BY <1>1, <1>2, ConstantFacts
<1> QED BY <1>1, <1>2, <1>3

\* What is known of one Notebook.
LEMMA NotebookFacts ==
    ASSUME Inv, NEW n \in NB
    PROVE  /\ nb[n] \in CANotebooks /\ nbC[n] \in CANotebooks /\ fresh[n] \in BOOLEAN
           /\ hook[n] \in [pc: {"none", "read", "create"}, new: CANotebooks, raw: Values]
           /\ FinalizerInv(n)
           /\ Ordinary => MountInv(n)
  BY DEF Inv, TypeOK

--------------------------------------------------------------------------------
(* Steps about other things.                                               *)

\* For a Notebook that a step leaves alone it only matters what becomes of the
\* reconcile: it does not turn to the Notebook.
StaysAway(n) ==
    /\ work'.pc \in Working /\ work'.name = n => work.pc \in Working /\ work.name = n
    /\ work'.pc = "finalizers" /\ work'.name = n /\ work'.inst.phase = "deleting" =>
          work.pc = "finalizers" /\ work.name = n /\ work.inst.phase = "deleting"

\* Then what was true of its finalizers still is.
LEMMA AsideInv ==
    ASSUME Inv, NEW n \in NB, StaysAway(n),
           nb'[n] = nb[n], nbC'[n] = nbC[n], fresh'[n] = fresh[n], hook'[n] = hook[n]
    PROVE  FinalizerInv(n)'
<1>1. FinalizerInv(n)
  BY DEF Inv
<1>2. (There(n)' <=> There(n)) /\ (Pending(n)' <=> Pending(n))
  BY DEF There, Pending
<1> QED BY <1>1, <1>2 DEF FinalizerInv, StaysAway

\* And for its mount, that the bundle does not go.
LEMMA AsideMountInv ==
    ASSUME Inv, NEW n \in NB, Ordinary, bundle # NoBundle => bundle' # NoBundle,
           nb'[n] = nb[n], hook'[n] = hook[n]
    PROVE  MountInv(n)'
<1>1. MountInv(n)
  BY DEF Inv
<1>2. (There(n)' <=> There(n)) /\ (Pending(n)' <=> Pending(n))
  BY DEF There, Pending
<1> QED BY <1>1, <1>2 DEF MountInv

\* What has happened has happened.
LEMMA OrdinaryFacts ==
    ASSUME happened \subseteq happened'
    PROVE  Ordinary' => Ordinary
  BY DEF Ordinary

\* Acts are counted and recorded.
LEMMA ActFacts ==
    ASSUME TypeOK, NEW h \in SUBSET Happenings, Act(h) \/ Quiet
    PROVE  /\ events' \in 0..MaxEvents /\ happened' \in SUBSET Happenings
           /\ happened \subseteq happened'
           /\ Act(h) => h \subseteq happened'
  BY BoundAssumption DEF TypeOK, Act, Quiet, history

\* An event queues Notebooks.
LEMMA NotifyFacts ==
    ASSUME TypeOK, NEW m, Notify(m)
    PROVE  queue' \in SUBSET NB
  BY DEF TypeOK, Notify

--------------------------------------------------------------------------------
(* The webhook stores a write, and a write reaches the webhook.            *)

\* An admitted write keeps the finalizers of copies and of the reconcile, and
\* with the mount in it the Notebook has the mount.
LEMMA AdmitInv ==
    ASSUME Inv, NEW n \in NB, Pending(n), NEW mount \in BOOLEAN, Admit(n, mount),
           work' = work
    PROVE  /\ nb' \in [NB -> CANotebooks] /\ fresh' \in [NB -> BOOLEAN] /\ nbC' = nbC
           /\ hook' \in [NB -> [pc: {"none", "read", "create"},
                                new: CANotebooks, raw: Values]]
           /\ \A m \in NB : FinalizerInv(m)'
           /\ Ordinary /\ (There(n) => mount) /\ bundle' # NoBundle =>
                 \A m \in NB : MountInv(m)'
<1> DEFINE new == hook[n].new
           cfg == IF mount THEN 1 ELSE new.inj
           r   == IF nb[n].phase = "absent" THEN HandleCreate(new, cfg)
                  ELSE HandleUpdate(nb[n], new, cfg)
<1>1. TypeOK
  BY DEF Inv
<1>2. /\ nb[n] \in CANotebooks /\ nbC[n] \in CANotebooks /\ fresh[n] \in BOOLEAN
      /\ new \in CANotebooks /\ FinalizerInv(n) /\ (Ordinary => MountInv(n))
  BY NotebookFacts
<1>3. cfg \in {0, 1} /\ (mount => cfg = 1)
  BY <1>2 DEF CANotebooks
<1>4. Put(n, r) /\ hook' = [hook EXCEPT ![n] = NoWrite]
  BY DEF Admit
<1> HIDE DEF cfg
<1>5. /\ r \in CANotebooks /\ r.phase = new.phase /\ r.fin = new.fin
      /\ ~There(n) => r.stop = Lock
      /\ There(n) => /\ r.stop = new.stop
                     /\ mount /\ (new.stop = NoStop => nb[n].inj = 1) => r.inj = 1
  <2>1. CASE There(n)
    <3>1. r = HandleUpdate(nb[n], new, cfg)
      BY <2>1 DEF There
    <3> HIDE DEF r, new
    <3> QED BY <1>2, <1>3, <2>1, <3>1, HandleFacts
  <2>2. CASE ~There(n)
    <3>1. r = HandleCreate(new, cfg)
      BY <2>2 DEF There
    <3> HIDE DEF r, new
    <3> QED BY <1>2, <1>3, <2>2, <3>1, HandleFacts
  <2> QED BY <2>1, <2>2
<1> HIDE DEF r, new
<1>6. /\ nb' \in [NB -> CANotebooks] /\ fresh' \in [NB -> BOOLEAN] /\ nbC' = nbC
      /\ nb'[n] = IF r.phase = "deleting" /\ ~r.fin THEN Gone ELSE r
      /\ fresh'[n] => fresh[n] /\ nb'[n] = nb[n]
      /\ \A m \in NB \ {n} : nb'[m] = nb[m] /\ fresh'[m] = fresh[m]
  BY <1>1, <1>4, <1>5, PutFacts
<1>7. /\ hook' \in [NB -> [pc: {"none", "read", "create"}, new: CANotebooks, raw: Values]]
      /\ hook'[n] = NoWrite /\ \A m \in NB \ {n} : hook'[m] = hook[m]
  BY <1>1, <1>4, ConstantFacts DEF TypeOK
<1>8. ~Pending(n)' /\ hook'[n].pc # "create"
  BY <1>7, ConstantFacts DEF Pending
<1>9. /\ There(n)' <=> nb'[n].phase # "absent"
      /\ There(n)' => nb'[n] = r
      /\ There(n) /\ new.fin => There(n)' /\ nb'[n] = r
      /\ There(n) => new.phase = nb[n].phase
      /\ ~There(n) => ~new.fin
  BY <1>2, <1>5, <1>6, ConstantFacts DEF There, FinalizerInv, new
<1>10. FinalizerInv(n)'
  <2>1. fresh'[n] => nbC'[n] = nb'[n]
    BY <1>2, <1>6 DEF FinalizerInv
  <2>2. nbC[n].phase = "active" /\ nbC[n].fin => There(n)' /\ nb'[n].fin
    BY <1>2, <1>5, <1>9 DEF FinalizerInv, new
  <2>3. work.pc \in Working /\ work.name = n => There(n)' /\ nb'[n].fin
    BY <1>2, <1>5, <1>9 DEF FinalizerInv, new
  <2>4. nb'[n].phase = "active" /\ nb'[n].fin =>
          /\ nbC[n].phase # "deleting"
          /\ ~(work.pc = "finalizers" /\ work.name = n /\ work.inst.phase = "deleting")
    BY <1>2, <1>5, <1>9 DEF FinalizerInv, new
  <2> QED BY <1>6, <1>8, <2>1, <2>2, <2>3, <2>4 DEF FinalizerInv
<1>11. \A m \in NB : FinalizerInv(m)'
  BY <1>6, <1>7, <1>10, AsideInv DEF StaysAway
<1>12. ASSUME Ordinary, There(n) => mount, bundle' # NoBundle
       PROVE  \A m \in NB : MountInv(m)'
  <2>1. There(n)' /\ (nb'[n].stop # Lock \/ nb'[n].fin) => nb'[n].inj = 1
    BY <1>2, <1>5, <1>9, <1>12 DEF MountInv, new
  <2>2. MountInv(n)'
    BY <1>8, <1>12, <2>1 DEF MountInv
  <2> QED BY <1>6, <1>7, <1>12, <2>2, AsideMountInv
<1> QED BY <1>6, <1>7, <1>11, <1>12

\* The webhook goes on to create the bundle: the write is still the same one.
LEMMA GoOnFacts ==
    ASSUME Inv, NEW n \in NB, hook[n].pc = "read", src["ca-bundle.crt"] # "nomap",
           hook' = [hook EXCEPT ![n].pc = "create", ![n].raw = src["ca-bundle.crt"]],
           UNCHANGED <<notebooks, work, bundle>>
    PROVE  /\ hook' \in [NB -> [pc: {"none", "read", "create"},
                                new: CANotebooks, raw: Values]]
           /\ \A m \in NB : FinalizerInv(m)'
           /\ Ordinary /\ ~There(n) => \A m \in NB : MountInv(m)'
<1>1. TypeOK
  BY DEF Inv
<1>2. src["ca-bundle.crt"] \in Values
  BY <1>1, FileFacts DEF TypeOK
<1>3. /\ hook' \in [NB -> [pc: {"none", "read", "create"}, new: CANotebooks, raw: Values]]
      /\ hook'[n].new = hook[n].new /\ hook'[n].pc = "create" /\ hook'[n].raw # "nomap"
      /\ \A m \in NB \ {n} : hook'[m] = hook[m]
  BY <1>1, <1>2 DEF TypeOK
<1>4. nb' = nb /\ nbC' = nbC /\ fresh' = fresh
  BY DEF notebooks
<1>5. Pending(n) /\ Pending(n)' /\ (There(n)' <=> There(n))
  BY <1>3, <1>4 DEF Pending, There
<1>6. FinalizerInv(n)'
  BY <1>3, <1>4, <1>5, NotebookFacts DEF FinalizerInv
<1>7. \A m \in NB : FinalizerInv(m)'
  BY <1>3, <1>4, <1>6, AsideInv DEF StaysAway
<1>8. ASSUME Ordinary, ~There(n) PROVE \A m \in NB : MountInv(m)'
  <2>1. MountInv(n)'
    BY <1>5, <1>8 DEF MountInv
  <2> QED BY <1>3, <1>4, <1>8, <2>1, AsideMountInv
<1> QED BY <1>3, <1>7, <1>8

\* The webhook admits a write with the mount, or finds no bundle; the latter only
\* for a Notebook that is being created.
LEMMA HookReadInv == ASSUME Inv, NEW n \in NB, HookRead(n) PROVE Inv'
<1>1. TypeOK /\ WorkInv /\ (Ordinary => src["ca-bundle.crt"] # "nomap")
  BY DEF Inv
<1>2. /\ src' = src /\ bundle' = bundle /\ queue' = queue /\ work' = work
      /\ events' = events /\ happened' = happened
  BY DEF HookRead, Quiet, history, maps
<1>3. WorkInv' /\ (Ordinary' <=> Ordinary)
  BY <1>1, <1>2 DEF WorkInv, Ordinary
<1>4. CASE src["ca-bundle.crt"] = "nomap" \/ bundle # NoBundle
  <2>1. Admit(n, src["ca-bundle.crt"] # "nomap") /\ Pending(n)
    BY <1>4 DEF HookRead, MountsOn, Pending
  <2>2. /\ nb' \in [NB -> CANotebooks] /\ fresh' \in [NB -> BOOLEAN] /\ nbC' = nbC
        /\ hook' \in [NB -> [pc: {"none", "read", "create"}, new: CANotebooks, raw: Values]]
        /\ \A m \in NB : FinalizerInv(m)'
        /\ Ordinary /\ (There(n) => src["ca-bundle.crt"] # "nomap") /\ bundle' # NoBundle =>
                 \A m \in NB : MountInv(m)'
    BY <1>2, <2>1, AdmitInv
  <2>3. TypeOK'
    BY <1>1, <1>2, <2>2 DEF TypeOK
  <2> QED BY <1>1, <1>2, <1>3, <1>4, <2>2, <2>3 DEF Inv
<1>5. CASE ~(src["ca-bundle.crt"] = "nomap" \/ bundle # NoBundle)
  <2>1. /\ hook' = [hook EXCEPT ![n].pc = "create", ![n].raw = src["ca-bundle.crt"]]
        /\ UNCHANGED notebooks /\ hook[n].pc = "read"
    BY <1>5 DEF HookRead, MountsOn
  <2>2. /\ hook' \in [NB -> [pc: {"none", "read", "create"}, new: CANotebooks, raw: Values]]
        /\ \A m \in NB : FinalizerInv(m)'
        /\ Ordinary /\ ~There(n) => \A m \in NB : MountInv(m)'
    BY <1>2, <1>5, <2>1, GoOnFacts
  <2>3. Ordinary => ~There(n)
    BY <1>5, NotebookFacts DEF MountInv
  <2>4. TypeOK'
    BY <1>1, <1>2, <2>1, <2>2 DEF TypeOK, notebooks
  <2> QED BY <1>1, <1>2, <1>3, <2>2, <2>3, <2>4 DEF Inv
<1> QED BY <1>4, <1>5

\* The bundle is there after this, whether the webhook or somebody else made it.
LEMMA HookCreateInv == ASSUME Inv, NEW n \in NB, HookCreate(n) PROVE Inv'
<1>1. /\ TypeOK /\ WorkInv /\ (Ordinary => src["ca-bundle.crt"] # "nomap")
      /\ hook[n].raw \in Values /\ (Ordinary => MountInv(n)) /\ FinalizerInv(n)
  BY DEF Inv, TypeOK
<1>2. /\ hook[n].pc = "create" /\ src' = src /\ work' = work
      /\ events' = events /\ happened' = happened
  BY DEF HookCreate, Quiet, history, maps, PutBundle
<1>3. WorkInv' /\ (Ordinary' <=> Ordinary)
  BY <1>1, <1>2 DEF WorkInv, Ordinary
<1>4. /\ Pending(n) /\ (Ordinary => ~There(n))
  BY <1>1, <1>2 DEF MountInv, Pending
<1>5. \E mount \in BOOLEAN : Admit(n, mount)
  BY DEF HookCreate
<1>6. queue' \in SUBSET NB
  BY <1>1, NotifyFacts DEF HookCreate, PutBundle, TypeOK
<1>7. bundle' \in Seq(Contents) /\ bundle' # NoBundle
  <2>1. CASE bundle = NoBundle
    <3>1. bundle' = Preliminary(hook[n].raw)
      BY <2>1 DEF HookCreate, PutBundle
    <3>2. Preliminary(hook[n].raw) \in Seq(Contents) /\ Preliminary(hook[n].raw) # <<>>
      BY <1>1, <1>2 DEF Preliminary, Values, Contents, FinalizerInv
    <3> QED BY <3>1, <3>2 DEF NoBundle
  <2>2. CASE bundle # NoBundle
    BY <1>1, <2>2 DEF HookCreate, maps, TypeOK
  <2> QED BY <2>1, <2>2
<1>8. /\ nb' \in [NB -> CANotebooks] /\ fresh' \in [NB -> BOOLEAN] /\ nbC' = nbC
      /\ hook' \in [NB -> [pc: {"none", "read", "create"}, new: CANotebooks, raw: Values]]
      /\ \A m \in NB : FinalizerInv(m)'
      /\ Ordinary => \A m \in NB : MountInv(m)'
  BY <1>2, <1>4, <1>5, <1>7, AdmitInv
<1>9. TypeOK'
  BY <1>1, <1>2, <1>6, <1>7, <1>8 DEF TypeOK
<1> QED BY <1>1, <1>2, <1>3, <1>8, <1>9 DEF Inv

\* A failing call is an exception for the mount, not for the finalizers.
LEMMA HookFailsInv == ASSUME Inv, NEW n \in NB, HookFails(n) PROVE Inv'
<1>1. TypeOK /\ WorkInv
  BY DEF Inv
<1>2. /\ Pending(n) /\ src' = src /\ bundle' = bundle /\ queue' = queue /\ work' = work
      /\ Act({"hookFailed"})
  BY DEF HookFails, maps, Pending
<1>3. WorkInv'
  BY <1>1, <1>2 DEF WorkInv
<1>4. {"hookFailed"} \in SUBSET Happenings
  BY DEF Happenings
<1>5. events' \in 0..MaxEvents /\ happened' \in SUBSET Happenings /\ {"hookFailed"} \subseteq happened'
  BY <1>1, <1>2, <1>4, ActFacts
<1>6. ~Ordinary'
  BY <1>5 DEF Ordinary
<1>7. /\ nb' \in [NB -> CANotebooks] /\ fresh' \in [NB -> BOOLEAN] /\ nbC' = nbC
      /\ hook' \in [NB -> [pc: {"none", "read", "create"}, new: CANotebooks, raw: Values]]
      /\ \A m \in NB : FinalizerInv(m)'
  <2>1. CASE Admit(n, FALSE)
    BY <1>2, <2>1, AdmitInv
  <2>2. CASE ~Admit(n, FALSE)
    <3>1. /\ hook' = [hook EXCEPT ![n].pc = "create", ![n].raw = src["ca-bundle.crt"]]
          /\ UNCHANGED notebooks /\ hook[n].pc = "read" /\ src["ca-bundle.crt"] # "nomap"
      BY <2>2 DEF HookFails
    <3>2. /\ hook' \in [NB -> [pc: {"none", "read", "create"}, new: CANotebooks, raw: Values]]
          /\ \A m \in NB : FinalizerInv(m)'
      BY <1>2, <3>1, GoOnFacts
    <3> QED BY <1>1, <3>1, <3>2 DEF notebooks, TypeOK
  <2> QED BY <2>1, <2>2
<1>8. TypeOK'
  BY <1>1, <1>2, <1>5, <1>7 DEF TypeOK
<1> QED BY <1>3, <1>6, <1>7, <1>8 DEF Inv

\* A write may be submitted when it keeps the phase, takes finalizers only off a
\* Notebook the cache shows as terminating and adds them only to one it does not
\* show so, and when one without stop is of a Notebook that has the mount.
LEMMA SubmitInv ==
    ASSUME Inv, NEW n \in NB, NEW new \in CANotebooks, Submit(n, new),
           UNCHANGED <<notebooks, bundle>>, \A m \in NB : StaysAway(m),
           IF There(n) THEN new.phase = nb[n].phase ELSE ~new.fin,
           There(n) /\ nb[n].fin /\ ~new.fin =>
              /\ nb[n].phase = "deleting" /\ nbC[n].phase = "deleting"
              /\ ~(work'.pc \in Working /\ work'.name = n),
           nb[n].phase = "active" /\ new.fin =>
              /\ nbC[n].phase # "deleting"
              /\ ~(work'.pc = "finalizers" /\ work'.name = n /\ work'.inst.phase = "deleting"),
           Ordinary /\ There(n) /\ new.stop = NoStop => nb[n].inj = 1
    PROVE  /\ hook' \in [NB -> [pc: {"none", "read", "create"},
                                new: CANotebooks, raw: Values]]
           /\ \A m \in NB : FinalizerInv(m)'
           /\ Ordinary => \A m \in NB : MountInv(m)'
<1> DEFINE write == [NoWrite EXCEPT !.pc = "read", !.new = new]
<1>1. /\ write \in [pc: {"none", "read", "create"}, new: CANotebooks, raw: Values]
      /\ write.pc = "read" /\ write.new = new
  BY DEF NoWrite, Values
<1> HIDE DEF write
<1>2. hook' = [hook EXCEPT ![n] = write]
  BY DEF Submit, write
<1>3. /\ hook' \in [NB -> [pc: {"none", "read", "create"}, new: CANotebooks, raw: Values]]
      /\ hook'[n] = write /\ \A m \in NB \ {n} : hook'[m] = hook[m]
  BY <1>1, <1>2 DEF Inv, TypeOK
<1>4. nb' = nb /\ nbC' = nbC /\ fresh' = fresh
  BY DEF notebooks
<1>5. There(n)' <=> There(n)
  BY <1>4 DEF There
<1>6. FinalizerInv(n) /\ (Ordinary => MountInv(n)) /\ StaysAway(n)
  BY NotebookFacts
<1>7. FinalizerInv(n)'
  BY <1>1, <1>3, <1>4, <1>5, <1>6 DEF FinalizerInv, StaysAway
<1>8. \A m \in NB : FinalizerInv(m)'
  BY <1>3, <1>4, <1>7, AsideInv
<1>9. ASSUME Ordinary PROVE \A m \in NB : MountInv(m)'
  <2>1. MountInv(n)'
    BY <1>1, <1>3, <1>4, <1>5, <1>6, <1>9 DEF MountInv
  <2> QED BY <1>3, <1>4, <1>9, <2>1, AsideMountInv
<1> QED BY <1>3, <1>8, <1>9

\* Most writes leave finalizers alone.
LEMMA EditInv ==
    ASSUME Inv, NEW n \in NB, NEW new \in CANotebooks, Submit(n, new),
           UNCHANGED <<notebooks, bundle>>, \A m \in NB : StaysAway(m),
           There(n), new.phase = nb[n].phase, new.fin = nb[n].fin,
           Ordinary /\ new.stop = NoStop => nb[n].inj = 1
    PROVE  /\ hook' \in [NB -> [pc: {"none", "read", "create"},
                                new: CANotebooks, raw: Values]]
           /\ \A m \in NB : FinalizerInv(m)'
           /\ Ordinary => \A m \in NB : MountInv(m)'
<1>1. nb[n].phase = "active" /\ new.fin =>
         /\ nbC[n].phase # "deleting"
         /\ ~(work'.pc = "finalizers" /\ work'.name = n /\ work'.inst.phase = "deleting")
  BY NotebookFacts DEF FinalizerInv, StaysAway
<1> QED BY <1>1, SubmitInv

--------------------------------------------------------------------------------
(* Users, administrators, informers.                                       *)

\* A write of a user changes nothing but what is being admitted.
LEMMA UserWriteInv ==
    ASSUME Inv, NEW n \in NB, NEW new, UserWrite(n, new),
           hook' \in [NB -> [pc: {"none", "read", "create"}, new: CANotebooks, raw: Values]],
           \A m \in NB : FinalizerInv(m)',
           Ordinary => \A m \in NB : MountInv(m)'
    PROVE  Inv'
<1>1. TypeOK /\ WorkInv /\ (Ordinary => src["ca-bundle.crt"] # "nomap")
  BY DEF Inv
<1>2. UNCHANGED <<src, bundle, nb, nbC, fresh, queue, work>> /\ Act({})
  BY DEF UserWrite, maps, notebooks
<1>3. /\ events' \in 0..MaxEvents /\ happened' \in SUBSET Happenings
      /\ happened \subseteq happened'
  <2>1. {} \in SUBSET Happenings
    OBVIOUS
  <2> QED BY <1>1, <1>2, <2>1, ActFacts
<1>4. TypeOK' /\ WorkInv'
  BY <1>1, <1>2, <1>3 DEF TypeOK, WorkInv
<1> QED BY <1>1, <1>2, <1>3, <1>4, OrdinaryFacts DEF Inv

\* A new Notebook has no finalizers.
LEMMA CreateNotebookInv == ASSUME Inv, NEW n \in NB, CreateNotebook(n) PROVE Inv'
<1> DEFINE new == [Gone EXCEPT !.phase = "active"]
<1>1. UserWrite(n, new) /\ ~There(n)
  BY DEF CreateNotebook, There
<1>2. new \in CANotebooks /\ ~new.fin
  BY DEF Gone, CANotebooks, Phases, StopAnnotation, NoStop, UpdatePending
<1> HIDE DEF new
<1>3. Submit(n, new) /\ UNCHANGED <<notebooks, bundle>> /\ work' = work
  BY <1>1 DEF UserWrite, maps
<1>4. \A m \in NB : StaysAway(m)
  BY <1>3 DEF StaysAway
<1> QED BY <1>1, <1>2, <1>3, <1>4, SubmitInv, UserWriteInv

\* A user's write of a Notebook that is there.
LEMMA UserEditFacts ==
    ASSUME Inv, NEW n \in NB, NEW new \in CANotebooks, UserWrite(n, new), There(n),
           new.phase = nb[n].phase, new.fin = nb[n].fin,
           new.stop = NoStop => nb[n].stop # Lock
    PROVE  Inv'
<1>1. Submit(n, new) /\ UNCHANGED <<notebooks, bundle>> /\ work' = work
  BY DEF UserWrite, maps
<1>2. \A m \in NB : StaysAway(m)
  BY <1>1 DEF StaysAway
<1>3. Ordinary /\ new.stop = NoStop => nb[n].inj = 1
  BY NotebookFacts DEF MountInv
<1> QED BY <1>1, <1>2, <1>3, EditInv, UserWriteInv

\* A stop, a start and an edit leave the finalizers alone; a Notebook a user can
\* start is not locked any more, and has the mount.
LEMMA UserInv ==
    ASSUME Inv, NEW n \in NB, UserStop(n) \/ UserStart(n) \/ UserEdit(n)
    PROVE  Inv'
<1>1. nb[n] \in CANotebooks
  BY NotebookFacts
<1>2. Stopped # Lock /\ Stopped # NoStop /\ NoStop # Lock
      /\ Stopped \in StopAnnotation /\ NoStop \in StopAnnotation
  BY DEF Stopped, Lock, NoStop, StopAnnotation
<1>3. CASE UserStop(n)
  <2> DEFINE new == [nb[n] EXCEPT !.stop = Stopped]
  <2>1. new \in CANotebooks /\ new.phase = nb[n].phase /\ new.fin = nb[n].fin
        /\ new.stop = Stopped
    BY <1>1, <1>2 DEF CANotebooks
  <2>2. UserWrite(n, new) /\ There(n)
    BY <1>3 DEF UserStop, There
  <2> QED BY <1>2, <2>1, <2>2, UserEditFacts
<1>4. CASE UserStart(n)
  <2> DEFINE new == [nb[n] EXCEPT !.stop = NoStop]
  <2>1. new \in CANotebooks /\ new.phase = nb[n].phase /\ new.fin = nb[n].fin
    BY <1>1, <1>2 DEF CANotebooks
  <2>2. UserWrite(n, new) /\ There(n) /\ nb[n].stop = Stopped
    BY <1>4 DEF UserStart, There
  <2> QED BY <1>2, <2>1, <2>2, UserEditFacts
<1>5. CASE UserEdit(n)
  <2> DEFINE new == [nb[n] EXCEPT !.user = 1]
  <2>1. new \in CANotebooks /\ new.phase = nb[n].phase /\ new.fin = nb[n].fin
        /\ new.stop = nb[n].stop
    BY <1>1 DEF CANotebooks
  <2>2. UserWrite(n, new) /\ There(n)
    BY <1>5 DEF UserEdit, There
  <2> QED BY <1>2, <2>1, <2>2, UserEditFacts
<1> QED BY <1>3, <1>4, <1>5

\* Deletion marks a Notebook with finalizers; the cache may still show it as
\* active, and one without finalizers goes.
LEMMA DeleteNotebookInv == ASSUME Inv, NEW n \in NB, DeleteNotebook(n) PROVE Inv'
<1> DEFINE new == [nb[n] EXCEPT !.phase = "deleting"]
<1>1. TypeOK /\ WorkInv /\ (Ordinary => src["ca-bundle.crt"] # "nomap")
  BY DEF Inv
<1>2. /\ nb[n] \in CANotebooks /\ FinalizerInv(n) /\ (Ordinary => MountInv(n))
  BY NotebookFacts
<1>3. /\ new \in CANotebooks /\ new.phase = "deleting" /\ new.fin = nb[n].fin
      /\ new.stop = nb[n].stop /\ new.inj = nb[n].inj
  BY <1>2 DEF CANotebooks, Phases
<1>4. /\ nb[n].phase = "active" /\ ~Pending(n) /\ Put(n, new) /\ Act({"deleted"})
      /\ UNCHANGED <<src, bundle, hook, queue, work>>
  BY DEF DeleteNotebook, Pending, maps
<1> HIDE DEF new
<1>5. /\ nb' \in [NB -> CANotebooks] /\ fresh' \in [NB -> BOOLEAN] /\ nbC' = nbC
      /\ nb'[n] = IF new.phase = "deleting" /\ ~new.fin THEN Gone ELSE new
      /\ fresh'[n] => fresh[n] /\ nb'[n] = nb[n]
      /\ \A m \in NB \ {n} : nb'[m] = nb[m] /\ fresh'[m] = fresh[m]
  BY <1>1, <1>3, <1>4, PutFacts
<1>6. /\ events' \in 0..MaxEvents /\ happened' \in SUBSET Happenings
      /\ happened \subseteq happened'
  <2>1. {"deleted"} \in SUBSET Happenings
    BY DEF Happenings
  <2> QED BY <1>1, <1>4, <2>1, ActFacts
<1>7. TypeOK' /\ WorkInv'
  BY <1>1, <1>4, <1>5, <1>6 DEF TypeOK, WorkInv
<1>8. /\ There(n) /\ ~Pending(n)' /\ hook'[n].pc # "create"
      /\ There(n)' => nb[n].fin /\ nb'[n] = new
      /\ nb[n].fin => There(n)' /\ nb'[n].fin
      /\ nb'[n].phase # "active"
  BY <1>3, <1>4, <1>5, ConstantFacts DEF There, Pending
<1>9. FinalizerInv(n)'
  BY <1>2, <1>4, <1>5, <1>8 DEF FinalizerInv
<1>10. \A m \in NB : FinalizerInv(m)'
  BY <1>4, <1>5, <1>9, AsideInv DEF StaysAway
<1>11. ASSUME Ordinary PROVE \A m \in NB : MountInv(m)'
  <2>1. MountInv(n)'
    BY <1>2, <1>3, <1>4, <1>8, <1>11 DEF MountInv
  <2> QED BY <1>4, <1>5, <1>11, <2>1, AsideMountInv
<1> QED BY <1>1, <1>4, <1>6, <1>7, <1>10, <1>11, OrdinaryFacts DEF Inv

\* A step of the sources, of the bundle, or of a reconcile that goes on or ends.
LEMMA ElsewhereInv ==
    ASSUME Inv, UNCHANGED <<notebooks, hook>>, TypeOK', WorkInv',
           happened \subseteq happened', \A m \in NB : StaysAway(m),
           Ordinary' => src'["ca-bundle.crt"] # "nomap",
           Ordinary' => bundle = NoBundle \/ bundle' # NoBundle
    PROVE  Inv'
<1>1. nb' = nb /\ nbC' = nbC /\ fresh' = fresh /\ hook' = hook
  BY DEF notebooks
<1>2. \A m \in NB : FinalizerInv(m)'
  BY <1>1, AsideInv
<1>3. ASSUME Ordinary' PROVE \A m \in NB : MountInv(m)'
  <2>1. Ordinary
    BY <1>3, OrdinaryFacts
  <2> QED BY <1>1, <1>3, <2>1, AsideMountInv
<1> QED BY <1>2, <1>3 DEF Inv

\* odh-trusted-ca-bundle does not go unnoticed.
LEMMA ChangeSourceInv == ASSUME Inv, NEW m \in Sources, ChangeSource(m) PROVE Inv'
<1>1. TypeOK /\ WorkInv /\ (Ordinary => src["ca-bundle.crt"] # "nomap")
  BY DEF Inv
<1>2. /\ UNCHANGED <<bundle, notebooks, hook, work>> /\ queue' \in SUBSET NB
  BY <1>1, NotifyFacts DEF ChangeSource
<1>3. PICK h \in SUBSET Happenings : Act(h) /\ h \in {{}, {"noSource"}}
  BY DEF ChangeSource, Happenings
<1>4. /\ events' \in 0..MaxEvents /\ happened' \in SUBSET Happenings
      /\ happened \subseteq happened'
  BY <1>1, <1>3, ActFacts
<1>5. /\ src' \in [FileNames -> Values]
      /\ Ordinary' => src'["ca-bundle.crt"] # "nomap"
  <2>1. CASE \E f \in FilesOf(m) : \E v \in Writable(f) \ {src[f]} :
                src' = [g \in FileNames |->
                          IF g = f THEN v
                          ELSE IF g \in FilesOf(m) /\ src[g] = "nomap"
                          THEN "nokey" ELSE src[g]]
    <3> PICK f \in FilesOf(m) : \E v \in Writable(f) \ {src[f]} :
                src' = [g \in FileNames |->
                          IF g = f THEN v
                          ELSE IF g \in FilesOf(m) /\ src[g] = "nomap"
                          THEN "nokey" ELSE src[g]]
      BY <2>1
    <3>1. PICK v \in Writable(f) :
                src' = [g \in FileNames |->
                          IF g = f THEN v
                          ELSE IF g \in FilesOf(m) /\ src[g] = "nomap"
                          THEN "nokey" ELSE src[g]]
      OBVIOUS
    <3>2. v \in Values /\ v # "nomap" /\ "nokey" \in Values
      BY FileFacts DEF Values
    <3>3. src \in [FileNames -> Values] /\ "ca-bundle.crt" \in FileNames
      BY <1>1, FileFacts DEF TypeOK
    <3> QED BY <1>1, <1>4, <3>1, <3>2, <3>3, OrdinaryFacts
  <2>2. CASE /\ src' = [f \in FileNames |->
                          IF f \in FilesOf(m) THEN "nomap" ELSE src[f]]
             /\ Act(IF m = "odh" THEN {"noSource"} ELSE {})
    <3>1. src \in [FileNames -> Values] /\ "ca-bundle.crt" \in FileNames
      BY <1>1, FileFacts DEF TypeOK
    <3>2. "nomap" \in Values
      BY DEF Values
    <3>3. CASE m = "odh"
      <4>1. "noSource" \in happened'
        BY <2>2, <3>3 DEF Act
      <4>2. ~Ordinary'
        BY <4>1 DEF Ordinary
      <4> QED BY <2>2, <3>1, <3>2, <4>2
    <3>4. CASE m # "odh"
      <4>1. "ca-bundle.crt" \notin FilesOf(m)
        BY <3>4, FileFacts
      <4> QED BY <1>1, <1>4, <2>2, <3>1, <3>2, <4>1, OrdinaryFacts
    <3> QED BY <3>3, <3>4
  <2> QED BY <2>1, <2>2 DEF ChangeSource
<1>6. TypeOK' /\ WorkInv'
  BY <1>1, <1>2, <1>4, <1>5 DEF TypeOK, WorkInv, notebooks
<1>7. \A n \in NB : StaysAway(n)
  BY <1>2 DEF StaysAway
<1> QED BY <1>2, <1>4, <1>5, <1>6, <1>7, ElsewhereInv

\* Nor does the bundle.
LEMMA DropBundleInv == ASSUME Inv, DropBundle PROVE Inv'
<1>1. TypeOK /\ WorkInv
  BY DEF Inv
<1>2. /\ UNCHANGED <<src, notebooks, hook, work>> /\ queue' \in SUBSET NB
      /\ bundle' = NoBundle /\ Act({"bundleRemoved"})
  BY <1>1, NotifyFacts DEF DropBundle, PutBundle
<1>3. /\ events' \in 0..MaxEvents /\ happened' \in SUBSET Happenings
      /\ happened \subseteq happened' /\ {"bundleRemoved"} \subseteq happened'
  <2>1. {"bundleRemoved"} \in SUBSET Happenings
    BY DEF Happenings
  <2> QED BY <1>1, <1>2, <2>1, ActFacts
<1>4. ~Ordinary'
  BY <1>3 DEF Ordinary
<1>5. NoBundle \in Seq(Contents)
  BY DEF NoBundle
<1>6. TypeOK' /\ WorkInv'
  BY <1>1, <1>2, <1>3, <1>5 DEF TypeOK, WorkInv, notebooks
<1>7. \A n \in NB : StaysAway(n)
  BY <1>2 DEF StaysAway
<1> QED BY <1>2, <1>3, <1>4, <1>6, <1>7, ElsewhereInv

\* The cache catches up.
LEMMA SyncNotebookInv == ASSUME Inv, NEW n \in NB, SyncNotebook(n) PROVE Inv'
<1>1. TypeOK /\ WorkInv /\ (Ordinary => src["ca-bundle.crt"] # "nomap")
  BY DEF Inv
<1>2. /\ nbC' = [nbC EXCEPT ![n] = nb[n]] /\ fresh' = [fresh EXCEPT ![n] = TRUE]
      /\ queue' = queue \cup {n}
      /\ UNCHANGED <<src, bundle, nb, hook, work, events, happened>>
  BY DEF SyncNotebook, maps, history
<1>3. TypeOK' /\ WorkInv'
  BY <1>1, <1>2 DEF TypeOK, WorkInv
<1>4. /\ nbC'[n] = nb[n]
      /\ \A m \in NB \ {n} : nbC'[m] = nbC[m] /\ fresh'[m] = fresh[m]
  BY <1>1, <1>2 DEF TypeOK
<1>5. (There(n)' <=> There(n)) /\ (Pending(n)' <=> Pending(n))
  BY <1>2 DEF There, Pending
<1>6. FinalizerInv(n)'
  BY <1>2, <1>4, <1>5, NotebookFacts DEF FinalizerInv, There
<1>7. \A m \in NB : FinalizerInv(m)'
  BY <1>2, <1>4, <1>6, AsideInv DEF StaysAway
<1>8. ASSUME Ordinary PROVE \A m \in NB : MountInv(m)'
  BY <1>2, <1>8, AsideMountInv
<1>9. Ordinary' <=> Ordinary
  BY <1>2 DEF Ordinary
<1> QED BY <1>1, <1>2, <1>3, <1>7, <1>8, <1>9 DEF Inv

\* Writes being admitted are gone and the cache is new.
LEMMA CrashInv == ASSUME Inv, Crash PROVE Inv'
<1>1. TypeOK /\ (Ordinary => src["ca-bundle.crt"] # "nomap")
  BY DEF Inv
<1>2. /\ work' = IdleWork /\ hook' = [n \in NB |-> NoWrite] /\ nbC' = nb
      /\ fresh' = [n \in NB |-> TRUE] /\ queue' \in SUBSET NB
      /\ UNCHANGED <<src, bundle, nb>> /\ Act({})
  BY DEF Crash, maps
<1>3. /\ events' \in 0..MaxEvents /\ happened' \in SUBSET Happenings
      /\ happened \subseteq happened'
  <2>1. {} \in SUBSET Happenings
    OBVIOUS
  <2> QED BY <1>1, <1>2, <2>1, ActFacts
<1>4. hook' \in [NB -> [pc: {"none", "read", "create"}, new: CANotebooks, raw: Values]]
  BY <1>2, ConstantFacts
<1>5. TypeOK'
  BY <1>1, <1>2, <1>3, <1>4, ConstantFacts DEF TypeOK, WorkTypes
<1>6. WorkInv' /\ work'.pc \notin Working /\ work'.pc # "finalizers"
  BY <1>2, ConstantFacts DEF WorkInv, Working
<1>7. ASSUME NEW n \in NB PROVE FinalizerInv(n)' /\ (Ordinary => MountInv(n)')
  <2>1. nbC'[n] = nb'[n] /\ nb'[n] = nb[n] /\ hook'[n].pc = "none" /\ ~Pending(n)'
    BY <1>2, ConstantFacts DEF Pending
  <2>2. There(n)' <=> There(n)
    BY <1>2 DEF There
  <2>3. FinalizerInv(n)'
    BY <1>6, <2>1 DEF FinalizerInv, There
  <2>4. Ordinary => MountInv(n)'
    BY <1>2, <2>1, <2>2, NotebookFacts DEF MountInv
  <2> QED BY <2>3, <2>4
<1> QED BY <1>1, <1>2, <1>3, <1>5, <1>6, <1>7, OrdinaryFacts DEF Inv

--------------------------------------------------------------------------------
(* The reconcile.                                                          *)

\* The reconcile leaves Notebooks and writes alone: the bundle only grows, and
\* the reconcile is where it was, further on, or over.
LEMMA ReconcileInv ==
    ASSUME Inv, UNCHANGED <<src, notebooks, hook>>, bundle' \in Seq(Contents),
           bundle = NoBundle \/ bundle' # NoBundle, queue' \in SUBSET NB,
           work' \in WorkTypes, WorkInv',
           events' \in 0..MaxEvents, happened' \in SUBSET Happenings,
           happened \subseteq happened', \A m \in NB : StaysAway(m)
    PROVE  Inv'
<1>1. TypeOK /\ (Ordinary => src["ca-bundle.crt"] # "nomap")
  BY DEF Inv
<1>2. TypeOK'
  BY <1>1 DEF TypeOK, WorkTypes, notebooks
<1> QED BY <1>1, <1>2, OrdinaryFacts, ElsewhereInv

\* What a step of the reconcile starts from.
LEMMA WorkFacts ==
    ASSUME Inv
    PROVE  /\ TypeOK /\ WorkInv /\ work \in WorkTypes /\ queue \in SUBSET NB
           /\ bundle \in Seq(Contents)
           /\ work.pc # "idle" => /\ work.name \in NB
                                  /\ queue \cup {work.name} \in SUBSET NB
  BY DEF Inv, TypeOK, WorkInv, WorkTypes

\* A reconcile that ends, with a retry or without.
LEMMA EndFacts ==
    ASSUME Inv, work.pc # "idle", Requeue \/ Finish
    PROVE  /\ work' \in WorkTypes /\ WorkInv' /\ queue' \in SUBSET NB
           /\ \A m \in NB : StaysAway(m)
           /\ work'.pc \notin Working /\ work'.pc # "finalizers"
<1>1. work' = IdleWork /\ queue' \in SUBSET NB
  BY WorkFacts DEF Requeue, Finish
<1> QED BY <1>1, ConstantFacts DEF WorkInv, StaysAway, Working

\* A reconcile that goes on to a step without a condition of its own.
LEMMA GoFacts ==
    ASSUME Inv, work.pc \in Working, NEW pc \in {"check", "unset", "unlock"}, Go(pc)
    PROVE  /\ work' \in WorkTypes /\ WorkInv' /\ queue' \in SUBSET NB
           /\ \A m \in NB : StaysAway(m)
           /\ work'.name = work.name
<1>1. /\ work' \in WorkTypes /\ work'.pc = pc /\ work'.name = work.name
      /\ queue' \in SUBSET NB
  BY WorkFacts DEF Go, WorkTypes, Pcs
<1>2. work.name \in NB
  BY WorkFacts DEF Working
<1> QED BY <1>1, <1>2 DEF WorkInv, StaysAway, Working

\* Steps that nobody counts.
LEMMA QuietFacts ==
    ASSUME Inv, Quiet
    PROVE  /\ events' \in 0..MaxEvents /\ happened' \in SUBSET Happenings
           /\ happened \subseteq happened' /\ (Ordinary' <=> Ordinary)
  BY DEF Inv, TypeOK, Quiet, history, Ordinary

\* A failing call ends the reconcile.
LEMMA CallFailsInv == ASSUME Inv, CallFails PROVE Inv'
<1>1. /\ work.pc # "idle" /\ Requeue /\ Act({})
      /\ UNCHANGED <<src, bundle, notebooks, hook>>
  BY DEF CallFails, maps
<1>2. /\ events' \in 0..MaxEvents /\ happened' \in SUBSET Happenings
      /\ happened \subseteq happened'
  <2>1. {} \in SUBSET Happenings
    OBVIOUS
  <2> QED BY <1>1, <2>1, ActFacts, WorkFacts
<1> QED BY <1>1, <1>2, EndFacts, WorkFacts, ReconcileInv

\* The reconcile turns to a Notebook: with finalizers, as far as the cache shows,
\* and not terminating, or to bring or take them.
LEMMA StartInv == ASSUME Inv, NEW n \in NB, Start(n) PROVE Inv'
<1> DEFINE inst == nbC[n]
           next == [IdleWork EXCEPT !.name = n, !.inst = inst]
<1>1. TypeOK /\ (Ordinary => src["ca-bundle.crt"] # "nomap")
  BY DEF Inv
<1>2. inst \in CANotebooks /\ FinalizerInv(n)
  BY NotebookFacts
<1>3. /\ queue' \in SUBSET NB /\ Quiet /\ UNCHANGED <<src, bundle, nb, nbC, fresh, hook>>
      /\ work' = IF inst.phase = "absent" THEN IdleWork
                 ELSE IF inst.phase = "deleting" \/ ~inst.fin
                 THEN [next EXCEPT !.pc = "finalizers"]
                 ELSE [next EXCEPT !.pc = "read", !.todo = SourceMaps]
  BY <1>1 DEF Start, TypeOK, maps, notebooks
<1> HIDE DEF inst
<1>4. next \in WorkTypes /\ next.name = n /\ next.inst = inst
  BY <1>2, ConstantFacts DEF WorkTypes, IdleWork
<1> HIDE DEF next
<1>5. /\ work' \in WorkTypes
      /\ \/ work'.pc = "idle"
         \/ /\ work'.pc = "finalizers" /\ work'.name = n /\ work'.inst = inst
            /\ inst.phase # "absent"
         \/ /\ work'.pc = "read" /\ work'.name = n /\ work'.todo # <<>>
            /\ inst.phase = "active" /\ inst.fin
  <2>1. CASE inst.phase = "absent"
    BY <1>3, <2>1, ConstantFacts
  <2>2. CASE inst.phase # "absent" /\ (inst.phase = "deleting" \/ ~inst.fin)
    BY <1>3, <1>4, <2>2 DEF WorkTypes, Pcs
  <2>3. CASE inst.phase # "absent" /\ ~(inst.phase = "deleting" \/ ~inst.fin)
    <3>1. inst.phase = "active" /\ inst.fin
      BY <1>2, <2>3 DEF CANotebooks, Phases
    <3>2. work' = [next EXCEPT !.pc = "read", !.todo = SourceMaps]
      BY <1>3, <2>3
    <3> QED BY <1>4, <3>1, <3>2, FileFacts DEF WorkTypes, Pcs
  <2> QED BY <2>1, <2>2, <2>3
<1>6. WorkInv'
  BY <1>5 DEF WorkInv
<1>7. /\ events' \in 0..MaxEvents /\ happened' \in SUBSET Happenings
      /\ (Ordinary' <=> Ordinary)
  BY <1>3, QuietFacts
<1>8. TypeOK'
  BY <1>1, <1>3, <1>5, <1>7 DEF TypeOK, WorkTypes
<1>9. FinalizerInv(n)'
  <2>1. (There(n)' <=> There(n)) /\ (Pending(n)' <=> Pending(n))
    BY <1>3 DEF There, Pending
  <2>2. work'.pc \in Working => inst.phase = "active" /\ inst.fin
    BY <1>5 DEF Working
  <2>3. work'.pc = "finalizers" /\ work'.inst.phase = "deleting" => inst.phase = "deleting"
    BY <1>5
  <2> QED BY <1>2, <1>3, <2>1, <2>2, <2>3 DEF FinalizerInv, inst
<1>10. \A m \in NB : FinalizerInv(m)'
  <2>1. \A m \in NB \ {n} : StaysAway(m)
    BY <1>5 DEF StaysAway, Working
  <2> QED BY <1>3, <1>9, <2>1, AsideInv
<1>11. ASSUME Ordinary PROVE \A m \in NB : MountInv(m)'
  BY <1>3, <1>11, AsideMountInv
<1> QED BY <1>1, <1>3, <1>6, <1>7, <1>8, <1>10, <1>11 DEF Inv

\* The certificates of a source are certificates.
LEMMA CertificatesType == \A m : Certificates(m) \in Seq(Certs)
<1>1. \A f : Pem(f) \in Seq(Certs)
  BY DEF Pem
<1>2. \A m : (IF Len(Files[m]) = 2 THEN Pem(Files[m][2]) ELSE <<>>) \in Seq(Certs)
  BY <1>1
<1> QED BY <1>1, <1>2 DEF Certificates

\* Sources are read one after the other until none is left.
LEMMA ReadSourceInv == ASSUME Inv, ReadSource PROVE Inv'
<1> DEFINE m    == Head(work.todo)
           next == [work EXCEPT !.todo = Tail(@),
                                !.pc = IF Len(work.todo) = 1 THEN "write" ELSE @]
<1>1. /\ work.pc = "read" /\ UNCHANGED <<src, bundle, notebooks, hook>>
      /\ \/ Go("check") /\ Quiet
         \/ work' = [next EXCEPT !.pool = @ \o Certificates(m)] /\ UNCHANGED queue /\ Quiet
         \/ work' = next /\ UNCHANGED queue /\ Act({"readFailed"})
  BY DEF ReadSource, At, maps
<1>2. /\ TypeOK /\ work \in WorkTypes /\ queue \in SUBSET NB /\ bundle \in Seq(Contents)
      /\ work.name \in NB /\ work.todo # <<>> /\ work.todo \in Seq(Sources)
  BY <1>1, WorkFacts DEF WorkInv, WorkTypes
<1>3. /\ Tail(work.todo) \in Seq(Sources)
      /\ Len(work.todo) # 1 => Tail(work.todo) # <<>>
  <2>1. \A s \in Seq(Sources) : s # <<>> /\ Len(s) # 1 => Len(s) - 1 # 0
    OBVIOUS
  <2>2. \A s \in Seq(Sources) :
           s # <<>> => Tail(s) \in Seq(Sources) /\ Len(Tail(s)) = Len(s) - 1
    OBVIOUS
  <2>3. Len(<<>>) = 0
    OBVIOUS
  <2> QED BY <1>2, <2>1, <2>2, <2>3
<1>4. /\ next \in WorkTypes /\ next.name = work.name
      /\ next.pc \in {"read", "write"} /\ (next.pc = "read" => next.todo # <<>>)
  BY <1>1, <1>2, <1>3 DEF WorkTypes, Pcs
<1> HIDE DEF m, next
<1>5. CASE Go("check") /\ Quiet
  <2>1. /\ work' \in WorkTypes /\ WorkInv' /\ queue' \in SUBSET NB
        /\ \A n \in NB : StaysAway(n)
    BY <1>1, <1>5, GoFacts DEF Working
  <2> QED BY <1>1, <1>2, <1>5, <2>1, QuietFacts, ReconcileInv
<1>6. CASE /\ \/ work' = [next EXCEPT !.pool = @ \o Certificates(m)] /\ Quiet
              \/ work' = next /\ Act({"readFailed"})
           /\ UNCHANGED queue
  <2>1. next.pool \o Certificates(m) \in Seq(Certs)
    BY <1>4, CertificatesType DEF WorkTypes
  <2>2. /\ work' \in WorkTypes /\ work'.name = work.name
        /\ work'.pc \in {"read", "write"} /\ (work'.pc = "read" => work'.todo # <<>>)
    BY <1>4, <1>6, <2>1 DEF WorkTypes
  <2>3. WorkInv' /\ \A n \in NB : StaysAway(n)
    BY <1>1, <1>2, <2>2 DEF WorkInv, StaysAway, Working
  <2>4. /\ events' \in 0..MaxEvents /\ happened' \in SUBSET Happenings
        /\ happened \subseteq happened'
    <3>1. {"readFailed"} \in SUBSET Happenings
      BY DEF Happenings
    <3> QED BY <1>2, <1>6, <3>1, ActFacts
  <2> QED BY <1>1, <1>2, <1>6, <2>2, <2>3, <2>4, ReconcileInv
<1> QED BY <1>1, <1>5, <1>6

\* Only a bundle with certificates in it is written.
LEMMA ReadBundleInv == ASSUME Inv, ReadBundle PROVE Inv'
<1>1. /\ work.pc = "write" /\ UNCHANGED <<src, bundle, notebooks, hook>>
      /\ \/ Go("check") /\ (Quiet \/ Act({"readFailed"}))
         \/ /\ work.pool \notin {<<>>, bundle} /\ Quiet
            /\ work' = [work EXCEPT !.pc = "put", !.seen = bundle]
            /\ UNCHANGED queue
  BY DEF ReadBundle, At, maps
<1>2. /\ TypeOK /\ work \in WorkTypes /\ queue \in SUBSET NB /\ bundle \in Seq(Contents)
      /\ work.name \in NB
  BY <1>1, WorkFacts
<1>3. /\ events' \in 0..MaxEvents /\ happened' \in SUBSET Happenings
      /\ happened \subseteq happened'
  <2>1. {"readFailed"} \in SUBSET Happenings
    BY DEF Happenings
  <2> QED BY <1>1, <1>2, <2>1, ActFacts
<1>4. /\ work' \in WorkTypes /\ WorkInv' /\ queue' \in SUBSET NB
      /\ \A n \in NB : StaysAway(n)
  <2>1. CASE Go("check")
    BY <1>1, <2>1, GoFacts DEF Working
  <2>2. CASE /\ work.pool # <<>> /\ work' = [work EXCEPT !.pc = "put", !.seen = bundle]
             /\ UNCHANGED queue
    <3>1. /\ work' \in WorkTypes /\ work'.pc = "put" /\ work'.name = work.name
          /\ work'.pool # <<>>
      BY <1>2, <2>2 DEF WorkTypes, Pcs
    <3> QED BY <1>1, <1>2, <2>2, <3>1 DEF WorkInv, StaysAway, Working
  <2> QED BY <1>1, <2>1, <2>2
<1> QED BY <1>1, <1>2, <1>3, <1>4, ReconcileInv

\* It replaces the one that was read, or is left to whoever was faster.
LEMMA WriteBundleInv == ASSUME Inv, WriteBundle PROVE Inv'
<1>1. work.pc = "put" /\ Quiet /\ UNCHANGED <<src, notebooks, hook>>
  BY DEF WriteBundle, At, maps, PutBundle
<1>2. /\ TypeOK /\ WorkInv /\ work \in WorkTypes /\ queue \in SUBSET NB
      /\ bundle \in Seq(Contents) /\ work.name \in NB
  BY <1>1, WorkFacts
<1>3. CASE bundle = work.seen
  <2>1. bundle' = work.pool /\ work' = [work EXCEPT !.pc = "check"] /\ queue' \in SUBSET NB
    BY <1>2, <1>3, NotifyFacts DEF WriteBundle, PutBundle
  <2>2. bundle' \in Seq(Contents) /\ bundle' # NoBundle
    BY <1>1, <1>2, <2>1 DEF WorkInv, WorkTypes, Contents, NoBundle
  <2>3. work' \in WorkTypes /\ work'.pc = "check" /\ work'.name = work.name
    BY <1>2, <2>1 DEF WorkTypes, Pcs
  <2>4. WorkInv' /\ \A n \in NB : StaysAway(n)
    BY <1>1, <1>2, <2>3 DEF WorkInv, StaysAway, Working
  <2> QED BY <1>1, <2>1, <2>2, <2>3, <2>4, QuietFacts, ReconcileInv
<1>4. CASE bundle # work.seen
  <2>1. (Go("check") \/ Requeue) /\ bundle' = bundle
    BY <1>4 DEF WriteBundle, maps
  <2>2. /\ work' \in WorkTypes /\ WorkInv' /\ queue' \in SUBSET NB
        /\ \A n \in NB : StaysAway(n)
    BY <1>1, <2>1, GoFacts, EndFacts DEF Working
  <2> QED BY <1>1, <1>2, <2>1, <2>2, QuietFacts, ReconcileInv
<1> QED BY <1>3, <1>4

\* The mount is to be taken away, or not.
LEMMA CheckBundleInv == ASSUME Inv, CheckBundle PROVE Inv'
<1>1. /\ work.pc = "check" /\ UNCHANGED <<src, bundle, notebooks, hook>>
      /\ Quiet \/ Act({})
      /\ Go("unset") \/ Go("unlock")
  BY DEF CheckBundle, At, maps
<1>2. TypeOK /\ bundle \in Seq(Contents)
  BY WorkFacts
<1>3. /\ events' \in 0..MaxEvents /\ happened' \in SUBSET Happenings
      /\ happened \subseteq happened'
  <2>1. {} \in SUBSET Happenings
    OBVIOUS
  <2> QED BY <1>1, <1>2, <2>1, ActFacts
<1>4. /\ work' \in WorkTypes /\ WorkInv' /\ queue' \in SUBSET NB
      /\ \A n \in NB : StaysAway(n)
  BY <1>1, GoFacts DEF Working
<1> QED BY <1>1, <1>2, <1>3, <1>4, ReconcileInv

\* A reconcile's write of a Notebook changes nothing but what is being admitted.
LEMMA ReconcileWriteInv ==
    ASSUME Inv, UNCHANGED <<src, bundle, notebooks>>, Quiet,
           work' \in WorkTypes, WorkInv', queue' \in SUBSET NB,
           hook' \in [NB -> [pc: {"none", "read", "create"}, new: CANotebooks, raw: Values]],
           \A m \in NB : FinalizerInv(m)',
           Ordinary => \A m \in NB : MountInv(m)'
    PROVE  Inv'
<1>1. TypeOK /\ (Ordinary => src["ca-bundle.crt"] # "nomap")
  BY DEF Inv
<1>2. /\ events' \in 0..MaxEvents /\ happened' \in SUBSET Happenings
      /\ (Ordinary' <=> Ordinary)
  BY QuietFacts
<1>3. TypeOK'
  BY <1>1, <1>2 DEF TypeOK, WorkTypes, notebooks
<1> QED BY <1>1, <1>2, <1>3 DEF Inv

\* Finalizers are added to a Notebook as it is stored, and taken off one that
\* was terminating when the reconcile began and still is.
LEMMA FinalizersInv == ASSUME Inv, Finalizers PROVE Inv'
<1> DEFINE n   == work.name
           add == work.inst.phase = "active"
           new == [nb[n] EXCEPT !.fin = add]
<1>1. /\ work.pc = "finalizers" /\ Quiet /\ UNCHANGED <<src, bundle, notebooks>>
      /\ Requeue \/ Finish
      /\ \/ /\ nbC[n].phase # "absent" /\ nbC[n].fin # add /\ fresh[n] /\ Submit(n, new)
         \/ UNCHANGED hook
  BY DEF Finalizers, At, maps
<1>2. /\ TypeOK /\ WorkInv /\ work \in WorkTypes /\ bundle \in Seq(Contents) /\ n \in NB
      /\ work.inst.phase # "absent"
  BY <1>1, WorkFacts DEF WorkInv
<1>3. /\ work' \in WorkTypes /\ WorkInv' /\ queue' \in SUBSET NB
      /\ \A m \in NB : StaysAway(m)
      /\ work'.pc \notin Working /\ work'.pc # "finalizers"
  BY <1>1, EndFacts
<1>4. CASE UNCHANGED hook
  BY <1>1, <1>2, <1>3, <1>4, QuietFacts, ReconcileInv
<1>5. CASE /\ nbC[n].phase # "absent" /\ nbC[n].fin # add /\ fresh[n] /\ Submit(n, new)
  <2>1. /\ nb[n] \in CANotebooks /\ FinalizerInv(n) /\ (Ordinary => MountInv(n))
    BY <1>2, NotebookFacts
  <2>2. nbC[n] = nb[n] /\ There(n) /\ nb[n].fin # add
    BY <1>5, <2>1 DEF FinalizerInv, There
  <2>3. add \in BOOLEAN
    OBVIOUS
  <2>4. /\ new \in CANotebooks /\ new.phase = nb[n].phase /\ new.fin = add
        /\ new.stop = nb[n].stop
    BY <2>1, <2>3 DEF CANotebooks
  <2>5. work.inst.phase \in {"active", "deleting"} /\ nb[n].phase \in {"active", "deleting"}
    BY <1>2, <2>1, <2>2 DEF WorkTypes, CANotebooks, Phases, There
  <2>6. nb[n].fin /\ ~new.fin => nb[n].phase = "deleting" /\ nbC[n].phase = "deleting"
    BY <1>1, <2>1, <2>2, <2>4, <2>5 DEF FinalizerInv
  <2>7. nb[n].phase = "active" => nbC[n].phase # "deleting"
    BY <2>2
  <2>8. NoStop # Lock
    BY DEF NoStop, Lock
  <2>9. Ordinary /\ There(n) /\ new.stop = NoStop => nb[n].inj = 1
    BY <2>1, <2>4, <2>8 DEF MountInv
  <2> HIDE DEF n, new, add
  <2>10. /\ hook' \in [NB -> [pc: {"none", "read", "create"}, new: CANotebooks, raw: Values]]
         /\ \A m \in NB : FinalizerInv(m)'
         /\ Ordinary => \A m \in NB : MountInv(m)'
    BY <1>1, <1>2, <1>3, <1>5, <2>2, <2>4, <2>6, <2>7, <2>9, SubmitInv
  <2> QED BY <1>1, <1>3, <2>10, ReconcileWriteInv
<1> QED BY <1>1, <1>4, <1>5

\* The Notebook of a reconcile that works has finalizers, and so the mount: the
\* writes that take the mount away or remove the lock may be submitted.
LEMMA WorkWriteInv ==
    ASSUME Inv, work.pc \in Working, NEW new \in CANotebooks, Submit(work.name, new),
           new.phase = nb[work.name].phase, new.fin = nb[work.name].fin, Quiet,
           UNCHANGED <<src, bundle, notebooks>>,
           work' \in WorkTypes, WorkInv', queue' \in SUBSET NB,
           \A m \in NB : StaysAway(m)
    PROVE  Inv'
<1>1. work.name \in NB
  BY WorkFacts DEF Working
<1>2. There(work.name) /\ (Ordinary => nb[work.name].inj = 1)
  BY <1>1, NotebookFacts DEF FinalizerInv, MountInv
<1> QED BY <1>1, <1>2, EditInv, ReconcileWriteInv

\* It is taken away in a write that the webhook sees, and that keeps finalizers.
LEMMA UnsetInv == ASSUME Inv, UnsetNotebookCertConfig PROVE Inv'
<1> DEFINE n   == work.name
           new == [nb[n] EXCEPT !.inj = 0, !.user = work.inst.user]
<1>1. /\ work.pc = "unset" /\ Quiet /\ UNCHANGED <<src, bundle, notebooks>>
      /\ \/ Requeue /\ UNCHANGED hook
         \/ Submit(n, new) /\ Go("unlock")
  BY DEF UnsetNotebookCertConfig, At, maps
<1>2. work.pc \in Working /\ work.pc # "idle"
  BY <1>1 DEF Working
<1>3. bundle \in Seq(Contents) /\ n \in NB /\ work \in WorkTypes
  BY <1>2, WorkFacts
<1>4. CASE Requeue /\ UNCHANGED hook
  BY <1>1, <1>2, <1>3, <1>4, EndFacts, QuietFacts, ReconcileInv
<1>5. CASE Submit(n, new) /\ Go("unlock")
  <2>1. nb[n] \in CANotebooks
    BY <1>3, NotebookFacts
  <2>2. new \in CANotebooks /\ new.phase = nb[n].phase /\ new.fin = nb[n].fin
    BY <1>3, <2>1 DEF CANotebooks, WorkTypes
  <2>3. /\ work' \in WorkTypes /\ WorkInv' /\ queue' \in SUBSET NB
        /\ \A m \in NB : StaysAway(m)
    BY <1>2, <1>5, GoFacts
  <2> HIDE DEF new
  <2> QED BY <1>1, <1>2, <1>5, <2>2, <2>3, WorkWriteInv
<1> QED BY <1>1, <1>4, <1>5

\* The lock is removed from a Notebook that has finalizers.
LEMMA UnlockInv == ASSUME Inv, Unlock PROVE Inv'
<1> DEFINE n   == work.name
           new == [nb[n] EXCEPT !.stop = NoStop]
<1>1. /\ work.pc = "unlock" /\ Quiet /\ UNCHANGED <<src, bundle, notebooks>> /\ Finish
      /\ UNCHANGED hook \/ Submit(n, new)
  BY DEF Unlock, At, maps
<1>2. work.pc \in Working /\ work.pc # "idle"
  BY <1>1 DEF Working
<1>3. bundle \in Seq(Contents) /\ n \in NB
  BY <1>2, WorkFacts
<1>4. /\ work' \in WorkTypes /\ WorkInv' /\ queue' \in SUBSET NB
      /\ \A m \in NB : StaysAway(m)
  BY <1>1, <1>2, EndFacts
<1>5. CASE UNCHANGED hook
  BY <1>1, <1>3, <1>4, <1>5, QuietFacts, ReconcileInv
<1>6. CASE Submit(n, new)
  <2>1. nb[n] \in CANotebooks
    BY <1>3, NotebookFacts
  <2>2. new \in CANotebooks /\ new.phase = nb[n].phase /\ new.fin = nb[n].fin
    BY <2>1 DEF CANotebooks, StopAnnotation, NoStop
  <2> HIDE DEF new
  <2> QED BY <1>1, <1>2, <1>4, <1>6, <2>2, WorkWriteInv
<1> QED BY <1>1, <1>5, <1>6

--------------------------------------------------------------------------------
(* The theorems.                                                           *)

\* There are no Notebooks at first.
LEMMA InitInv == Init => Inv
<1> SUFFICES ASSUME Init PROVE Inv
  OBVIOUS
<1>1. /\ bundle = NoBundle /\ nb = [n \in NB |-> Gone] /\ nbC = nb
      /\ fresh = [n \in NB |-> TRUE] /\ hook = [n \in NB |-> NoWrite]
      /\ queue = {} /\ work = IdleWork /\ events = 0
      /\ happened = IF src["ca-bundle.crt"] = "nomap" THEN {"noSource"} ELSE {}
  BY DEF Init
<1>2. src \in [FileNames -> Values]
  BY DEF Init, Values, Contents
<1>3. TypeOK
  <2>1. hook \in [NB -> [pc: {"none", "read", "create"}, new: CANotebooks, raw: Values]]
    BY <1>1, ConstantFacts
  <2>2. bundle \in Seq(Contents) /\ happened \in SUBSET Happenings
    BY <1>1 DEF NoBundle, Happenings
  <2>3. events \in 0..MaxEvents
    BY <1>1, BoundAssumption
  <2> QED BY <1>1, <1>2, <2>1, <2>2, <2>3, ConstantFacts DEF TypeOK, WorkTypes
<1>4. WorkInv /\ work.pc \notin Working /\ work.pc # "finalizers"
  BY <1>1, ConstantFacts DEF WorkInv, Working
<1>5. ASSUME NEW n \in NB PROVE FinalizerInv(n) /\ MountInv(n)
  <2>1. ~There(n) /\ ~Pending(n) /\ nb[n].phase # "active" /\ nbC[n] = nb[n]
        /\ hook[n].pc = "none"
    BY <1>1, ConstantFacts DEF There, Pending
  <2> QED BY <1>4, <2>1 DEF FinalizerInv, MountInv
<1>6. Ordinary => src["ca-bundle.crt"] # "nomap"
  BY <1>1 DEF Ordinary
<1> QED BY <1>3, <1>4, <1>5, <1>6 DEF Inv

\* The invariant is inductive.
LEMMA NextInv == Inv /\ [Next]_vars => Inv'
<1> SUFFICES ASSUME Inv, [Next]_vars PROVE Inv'
  OBVIOUS
<1>1. ASSUME NEW n \in NB,
             \/ CreateNotebook(n) \/ UserStop(n) \/ UserStart(n) \/ UserEdit(n)
             \/ DeleteNotebook(n) \/ HookFails(n)
      PROVE  Inv'
  BY <1>1, CreateNotebookInv, UserInv, DeleteNotebookInv, HookFailsInv
<1>2. ASSUME NEW m \in Sources, ChangeSource(m) PROVE Inv'
  BY <1>2, ChangeSourceInv
<1>3. CASE DropBundle
  BY <1>3, DropBundleInv
<1>4. CASE Deliver
  BY <1>4, SyncNotebookInv, HookReadInv, HookCreateInv DEF Deliver
<1>5. CASE Controller
  BY <1>5, StartInv, FinalizersInv, ReadSourceInv, ReadBundleInv, WriteBundleInv,
     CheckBundleInv, UnsetInv, UnlockInv DEF Controller
<1>6. CASE CallFails
  BY <1>6, CallFailsInv
<1>7. CASE Crash
  BY <1>7, CrashInv
<1>8. CASE UNCHANGED vars
  <2>1. UNCHANGED <<src, bundle, nb, nbC, fresh, hook, queue, work, events, happened>>
    BY <1>8 DEF vars, maps, notebooks, history
  <2>2. TypeOK' /\ WorkInv'
    BY <2>1 DEF Inv, TypeOK, WorkInv
  <2> QED BY <2>1, <2>2, ElsewhereInv DEF StaysAway, notebooks, Inv, Ordinary
<1> QED BY <1>1, <1>2, <1>3, <1>4, <1>5, <1>6, <1>7, <1>8 DEF Next

\* It holds in every reachable state.
LEMMA SpecInv == Spec => []Inv
  BY InitInv, NextInv, PTL DEF Spec

\* Whatever happens in whatever order, the ConfigMaps, the Notebooks, the writes
\* that are being admitted and the running reconcile stay well formed.
THEOREM TypeTheorem == Spec => []TypeOK
<1>1. Inv => TypeOK
  BY DEF Inv
<1> QED BY <1>1, SpecInv, PTL

\* However many Notebooks are created at once and however old the caches are, none
\* runs without the certificates: the reconcile that removes the lock has seen the
\* finalizers, and the update that brought them brought the mount.
THEOREM BundleTheorem == Spec => []StartedWithBundle
<1>1. Inv => StartedWithBundle
  <2>1. NoStop # Lock
    BY DEF NoStop, Lock
  <2> QED BY <2>1 DEF Inv, StartedWithBundle, Ordinary, MountInv, There
<1> QED BY <1>1, SpecInv, PTL

================================================================================

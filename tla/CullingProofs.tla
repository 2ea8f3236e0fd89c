----------------------------- MODULE CullingProofs -----------------------------
(***************************************************************************)
(* Proofs about Culling, for every idle time and check period.  The        *)
(* argument is about the functions a check is made of: they only ever move *)
(* the last-activity annotation to a more recent time, and never past what *)
(* the server has reported.  Because an update from an old version is      *)
(* refused, they are applied to the stored Notebook, whatever has happened *)
(* to it since the check began.                                            *)
(***************************************************************************)
EXTENDS Culling, TLAPS

--------------------------------------------------------------------------------
(* Ages and annotations.                                                   *)

\* The cap is above both limits, so that a capped age still is past them.
LEMMA CapFacts ==
    /\ Cap \in Nat /\ CULL_IDLE_TIME < Cap /\ IDLENESS_CHECK_PERIOD < Cap
    /\ 0 \in Ages /\ Ages \subseteq Nat /\ MaybeAges \subseteq Int
    /\ Absent \in MaybeAges /\ Ages \subseteq MaybeAges /\ Absent \notin Ages
    /\ \A a \in MaybeAges : Older(a) \in MaybeAges
<1>1. /\ Cap \in Nat /\ CULL_IDLE_TIME < Cap /\ IDLENESS_CHECK_PERIOD < Cap
  BY TimesAssumption DEF Cap, Larger
<1> QED BY <1>1 DEF Ages, MaybeAges, Absent, Older

\* Ages and missing ones are integers.
LEMMA AgeFacts == \A a \in MaybeAges : a \in Int /\ a <= a
  BY CapFacts

\* A verdict is a verdict, and "no" below the limit.
LEMMA MoreThanFacts ==
    ASSUME NEW age \in Int, NEW limit \in Int, NEW b \in MoreThan(age, limit)
    PROVE  b \in BOOLEAN /\ (b => age >= limit)
  BY DEF MoreThan

\* One reported time: last-activity becomes no older, and no older than the report.
LEMMA UpdateTimestampFacts ==
    ASSUME NEW n \in Notebooks, NEW act \in MaybeAges
    PROVE  LET new == UpdateTimestamp(n, act) IN
           /\ new \in Notebooks /\ new.stop = n.stop
           /\ new.last = Absent <=> n.last = Absent
           /\ new.last <= n.last
           /\ n.last # Absent /\ act # Absent => new.last <= act
<1>1. n.last \in Int /\ act \in Int
  BY CapFacts DEF Notebooks
<1>2. CASE act # Absent /\ compareAnnotationTimeToResource(n, act)
  <2>1. /\ UpdateTimestamp(n, act) = [n EXCEPT !.last = act]
        /\ n.last # Absent /\ act <= n.last
    BY <1>1, <1>2 DEF UpdateTimestamp, compareAnnotationTimeToResource
  <2> QED BY <1>1, <1>2, <2>1 DEF Notebooks
<1>3. CASE ~(act # Absent /\ compareAnnotationTimeToResource(n, act))
  <2>1. /\ UpdateTimestamp(n, act) = n
        /\ act # Absent /\ n.last # Absent => n.last < act
    BY <1>1, <1>3 DEF UpdateTimestamp, compareAnnotationTimeToResource
  <2> QED BY <1>1, <2>1
<1> QED BY <1>2, <1>3

\* One check: kernels, terminals, time of the check.
LEMMA CheckedFacts ==
    ASSUME TypeOK, NEW n \in Notebooks
    PROVE  LET new == Checked(n) IN
           /\ new \in Notebooks /\ new.stop = n.stop
           /\ n.last # Absent => new.last <= n.last
           /\ new.last # Absent =>
                 /\ kernels.busy => new.last <= 0
                 /\ ~kernels.busy /\ kernels.act # Absent => new.last <= kernels.act
                 /\ terminals # Absent => new.last <= terminals
<1> DEFINE n1 == updateTimestampFromKernelsActivity(n, kernels)
           n2 == updateTimestampFromTerminalsActivity(n1, terminals)
<1>1. /\ kernels.busy \in BOOLEAN /\ kernels.act \in MaybeAges
      /\ terminals \in MaybeAges /\ n.last \in MaybeAges
  BY DEF TypeOK, KernelStatus, Notebooks
<1>2. /\ n1 \in Notebooks /\ n1.stop = n.stop
      /\ n.last # Absent => n1.last <= n.last
      /\ kernels.busy => n1.last = 0
      /\ ~kernels.busy /\ n1.last # Absent /\ kernels.act # Absent => n1.last <= kernels.act
  <2>1. CASE kernels.busy
    <3>1. n1 = [n EXCEPT !.last = 0]
      BY <2>1 DEF updateTimestampFromKernelsActivity
    <3>2. n1 \in Notebooks /\ n1.stop = n.stop /\ n1.last = 0
      BY <3>1, CapFacts DEF Notebooks
    <3>3. n.last # Absent => 0 <= n.last
      BY <1>1, CapFacts DEF MaybeAges
    <3> QED BY <2>1, <3>2, <3>3
  <2>2. CASE ~kernels.busy
    <3>1. n1 = UpdateTimestamp(n, kernels.act)
      BY <2>2 DEF updateTimestampFromKernelsActivity
    <3> HIDE DEF n1
    <3> QED BY <1>1, <2>2, <3>1, UpdateTimestampFacts
  <2> QED BY <2>1, <2>2
<1> HIDE DEF n1
<1>3. /\ n2 \in Notebooks /\ n2.stop = n1.stop
      /\ n2.last = Absent <=> n1.last = Absent
      /\ n2.last <= n1.last
      /\ n1.last # Absent /\ terminals # Absent => n2.last <= terminals
  BY <1>1, <1>2, UpdateTimestampFacts DEF updateTimestampFromTerminalsActivity
<1> HIDE DEF n2
<1>4. Checked(n) = [n2 EXCEPT !.check = 0]
  BY DEF Checked, n1, n2, updateLastCullingCheckTimestampAnnotation
<1>5. Checked(n) \in Notebooks /\ Checked(n).stop = n2.stop /\ Checked(n).last = n2.last
  BY <1>3, <1>4, CapFacts DEF Notebooks
<1>6. /\ n.last \in Int /\ n1.last \in Int /\ n2.last \in Int
      /\ kernels.act \in Int /\ terminals \in Int
  BY <1>1, <1>2, <1>3, CapFacts DEF Notebooks
<1> QED BY <1>2, <1>3, <1>5, <1>6

\* notebookIsIdle: a Notebook that is culled is not stopping, and its last
\* activity is as old as the idle time.
LEMMA IdleFacts ==
    ASSUME NEW n \in Notebooks, NEW idle \in notebookIsIdle(n)
    PROVE  /\ idle \in BOOLEAN
           /\ idle => n.last # Absent /\ n.last >= CULL_IDLE_TIME
<1>1. n.last \in Int /\ CULL_IDLE_TIME \in Int
  <2>1. n.last \in MaybeAges
    BY DEF Notebooks
  <2> QED BY <2>1, AgeFacts, TimesAssumption
<1>2. CASE n.stop \/ n.last = Absent
  BY <1>2 DEF notebookIsIdle
<1>3. CASE ~(n.stop \/ n.last = Absent)
  BY <1>1, <1>3, MoreThanFacts DEF notebookIsIdle
<1> QED BY <1>2, <1>3

--------------------------------------------------------------------------------
(* Steps.                                                                  *)

\* What a check leaves behind: the checked Notebook with the verdict.
LEMMA UpdateFacts ==
    ASSUME TypeOK, NEW idle \in notebookIsIdle(Checked(nb))
    PROVE  LET new == [Checked(nb) EXCEPT !.stop = @ \/ idle] IN
           /\ new \in Notebooks /\ new.last = Checked(nb).last
           /\ new.stop = (nb.stop \/ idle)
<1>1. Checked(nb) \in Notebooks /\ Checked(nb).stop = nb.stop
  BY CheckedFacts DEF TypeOK
<1>2. idle \in BOOLEAN
  BY <1>1, IdleFacts
<1> HIDE DEF Checked
<1> QED BY <1>1, <1>2 DEF Notebooks

\* The Notebook after a step that is neither a tick nor a user's start.
LEMMA NotebookStep ==
    ASSUME TypeOK, Next, ~Tick
    PROVE  /\ nb' \in Notebooks
           /\ nb.last # Absent /\ nb'.last # Absent => nb'.last <= nb.last
           /\ nb.stop /\ ~nb'.stop => UserStart
<1>1. nb \in Notebooks /\ nb.last \in MaybeAges /\ nb.stop \in BOOLEAN
  BY DEF TypeOK, Notebooks
<1>2. nb.last <= nb.last
  BY <1>1, AgeFacts
<1>3. CASE UNCHANGED nb
  BY <1>1, <1>2, <1>3
<1>4. CASE UserStop \/ UserStart
  <2>1. \/ UserStart /\ nb' = [nb EXCEPT !.stop = FALSE]
        \/ nb' = [nb EXCEPT !.stop = TRUE]
    BY <1>4 DEF UserStop, UserStart, Put
  <2>2. nb' \in Notebooks /\ nb'.last = nb.last /\ (UserStart \/ nb'.stop = TRUE)
    BY <1>1, <2>1 DEF Notebooks
  <2> QED BY <1>2, <2>2
<1>5. CASE CullRemove /\ nb' # nb
  <2>1. nb' = removeAnnotations(nb)
    BY <1>5 DEF CullRemove, Put, Conflict, stored
  <2>2. nb' \in Notebooks /\ nb'.last = Absent /\ nb'.stop = nb.stop
    BY <1>1, <2>1, CapFacts DEF removeAnnotations, Notebooks
  <2> QED BY <2>2
<1>6. CASE CullInit /\ nb' # nb
  <2>1. nb' = initializeAnnotations(nb)
    BY <1>6 DEF CullInit, Put, Conflict, stored
  <2>2. nb' \in Notebooks /\ nb'.last = 0 /\ nb'.stop = nb.stop
    BY <1>1, <2>1, CapFacts DEF initializeAnnotations, Notebooks
  <2>3. nb.last # Absent => 0 <= nb.last
    BY <1>1, CapFacts DEF MaybeAges
  <2> QED BY <2>2, <2>3
<1>7. CASE CullUpdate /\ nb' # nb
  <2>1. PICK idle \in notebookIsIdle(Checked(nb)) :
           nb' = [Checked(nb) EXCEPT !.stop = @ \/ idle]
    BY <1>7 DEF CullUpdate, Put, Conflict, stored
  <2>2. /\ nb' \in Notebooks /\ nb'.last = Checked(nb).last
        /\ nb'.stop = (nb.stop \/ idle)
    BY <2>1, UpdateFacts
  <2>3. nb.last # Absent => Checked(nb).last <= nb.last
    BY <1>1, CheckedFacts
  <2> QED BY <2>2, <2>3
<1>8. \/ UNCHANGED nb \/ UserStop \/ UserStart
      \/ CullRemove \/ CullInit \/ CullUpdate
  BY DEF Next, Step, Environment, Cluster, Reconcile, KernelActivity, TerminalActivity,
         Sync, SyncPod, StatusWrite, PodStarts, PodStops, TimerFires, CullStart,
         CullQueryKernels, CullQueryTerminals, CullCrash, stored
<1> QED BY <1>3, <1>4, <1>5, <1>6, <1>7, <1>8

\* Time passes: everything keeps its type.
LEMMA TickType ==
    ASSUME TypeOK, Tick
    PROVE  TypeOK'
<1>1. ASSUME NEW n \in Notebooks PROVE OlderNotebook(n) \in Notebooks
  <2>1. Older(n.last) \in MaybeAges /\ Older(n.check) \in MaybeAges
    BY CapFacts DEF Notebooks
  <2> QED BY <2>1 DEF OlderNotebook, Notebooks
<1>2. nb' \in Notebooks /\ nbC' \in Notebooks
  BY <1>1 DEF Tick, TypeOK
<1>3. ASSUME NEW k \in KernelStatus PROVE [k EXCEPT !.act = Older(@)] \in KernelStatus
  <2>1. Older(k.act) \in MaybeAges
    BY CapFacts DEF KernelStatus
  <2> QED BY <2>1 DEF KernelStatus
<1>4. kernels' \in KernelStatus /\ terminals' \in MaybeAges
  BY <1>3, CapFacts DEF Tick, TypeOK
<1>5. server' \in [kernels: KernelStatus, terminals: MaybeAges]
  <2>1. /\ Older(server.terminals) \in MaybeAges
        /\ [server.kernels EXCEPT !.act = Older(@)] \in KernelStatus
    BY <1>3, CapFacts DEF TypeOK
  <2>2. server' = [kernels |-> [server.kernels EXCEPT !.act = Older(@)],
                   terminals |-> Older(server.terminals)]
    BY DEF Tick, TypeOK
  <2> QED BY <2>1, <2>2
<1>6. timer' \in -1..IDLENESS_CHECK_PERIOD
  BY TimesAssumption DEF Tick, TypeOK
<1>7. UNCHANGED <<fresh, due, pod, podC, queued, pc>>
  BY DEF Tick
<1> QED BY <1>2, <1>4, <1>5, <1>6, <1>7 DEF TypeOK

\* Every other step does, too.
LEMMA NextType ==
    ASSUME TypeOK, [Next]_vars
    PROVE  TypeOK'
<1>1. CASE Tick
  BY <1>1, TickType
<1>2. CASE UNCHANGED vars
  BY <1>2 DEF vars, stored, cluster, culler, TypeOK
<1>3. CASE Next /\ ~Tick
  <2>1. nb' \in Notebooks
    BY <1>3, NotebookStep
  <2>2. /\ NoKernels \in KernelStatus /\ Absent \in MaybeAges
        /\ NoServer \in [kernels: KernelStatus, terminals: MaybeAges]
        /\ IDLENESS_CHECK_PERIOD \in -1..IDLENESS_CHECK_PERIOD
        /\ Absent \in -1..IDLENESS_CHECK_PERIOD
    BY CapFacts, TimesAssumption DEF NoKernels, NoServer, KernelStatus, Absent
  <2>3. nbC' \in Notebooks
    BY <1>3 DEF Next, Step, Environment, Cluster, Reconcile, TypeOK, UserStop, UserStart,
         KernelActivity, TerminalActivity, Sync, SyncPod, StatusWrite, PodStarts,
         PodStops, TimerFires, CullStart, CullRemove, CullInit, CullQueryKernels,
         CullQueryTerminals, CullUpdate, CullCrash, Put, Conflict, stored
  <2>4. server' \in [kernels: KernelStatus, terminals: MaybeAges]
    <3>1. CASE KernelActivity
      <4>1. PICK k \in {BusyKernel, [busy |-> FALSE, act |-> 0]} :
               server' = [server EXCEPT !.kernels = k]
        BY <3>1 DEF KernelActivity
      <4>2. k \in KernelStatus
        <5>1. 0 \in MaybeAges /\ Absent \in MaybeAges
          BY CapFacts
        <5>2. BusyKernel \in KernelStatus
          BY <5>1 DEF BusyKernel, KernelStatus
        <5>3. [busy |-> FALSE, act |-> 0] \in KernelStatus
          BY <5>1 DEF KernelStatus
        <5> QED BY <5>2, <5>3, Zenon
      <4> QED BY <4>1, <4>2 DEF TypeOK
    <3>2. CASE TerminalActivity
      BY <3>2, CapFacts DEF TerminalActivity, TypeOK
    <3>3. CASE server' = server \/ server' = NoServer
      BY <2>2, <3>3 DEF TypeOK
    <3> QED BY <1>3, <3>1, <3>2, <3>3
         DEF Next, Step, Environment, Cluster, Reconcile, UserStop, UserStart, Sync,
             SyncPod, StatusWrite, PodStarts, PodStops, TimerFires, CullStart,
             CullRemove, CullInit, CullQueryKernels, CullQueryTerminals, CullUpdate,
             CullCrash, cluster
  <2>5. kernels' \in KernelStatus /\ terminals' \in MaybeAges
    BY <1>3, <2>2 DEF Next, Step, Environment, Cluster, Reconcile, TypeOK, UserStop,
         UserStart, KernelActivity, TerminalActivity, Sync, SyncPod, StatusWrite,
         PodStarts, PodStops, TimerFires, CullStart, CullRemove, CullInit,
         CullQueryKernels, CullQueryTerminals, CullUpdate, CullCrash, Conflict,
         Done, Fail, culler
  <2>6. pc' \in Pcs /\ timer' \in -1..IDLENESS_CHECK_PERIOD
    BY <1>3, <2>2 DEF Next, Step, Environment, Cluster, Reconcile, TypeOK, UserStop,
         UserStart, KernelActivity, TerminalActivity, Sync, SyncPod, StatusWrite,
         PodStarts, PodStops, TimerFires, CullStart, CullRemove, CullInit,
         CullQueryKernels, CullQueryTerminals, CullUpdate, CullCrash, Conflict,
         Done, Fail, CheckPeriod, RequeueAfter, Pcs, culler
  <2>7. pod' \in BOOLEAN /\ podC' \in BOOLEAN
    BY <1>3, Zenon DEF Next, Step, Environment, Cluster, Reconcile, TypeOK, UserStop,
         UserStart, KernelActivity, TerminalActivity, Sync, SyncPod, StatusWrite,
         PodStarts, PodStops, TimerFires, CullStart, CullRemove, CullInit,
         CullQueryKernels, CullQueryTerminals, CullUpdate, CullCrash, cluster
  <2>8. fresh' \in BOOLEAN /\ due' \in BOOLEAN
    BY <1>3 DEF Next, Step, Environment, Cluster, Reconcile, TypeOK, UserStop,
         UserStart, KernelActivity, TerminalActivity, Sync, SyncPod, StatusWrite,
         PodStarts, PodStops, TimerFires, CullStart, CullRemove, CullInit,
         CullQueryKernels, CullQueryTerminals, CullUpdate, CullCrash, Put, Conflict, stored
  <2>9. queued' \in BOOLEAN
    BY <1>3 DEF Next, Step, Environment, Cluster, Reconcile, TypeOK, UserStop,
         UserStart, KernelActivity, TerminalActivity, Sync, SyncPod, StatusWrite,
         PodStarts, PodStops, TimerFires, CullStart, CullRemove, CullInit,
         CullQueryKernels, CullQueryTerminals, CullUpdate, CullCrash, Conflict, Fail, culler
  <2> QED BY <2>1, <2>3, <2>4, <2>5, <2>6, <2>7, <2>8, <2>9 DEF TypeOK
<1> QED BY <1>1, <1>2, <1>3

--------------------------------------------------------------------------------
(* Theorems.                                                               *)

\* Types: ages and timers stay within their ranges, for every idle time and
\* check period, whatever the server answers.
THEOREM TypeTheorem == Spec => []TypeOK
<1>1. Init => TypeOK
  <2> SUFFICES ASSUME Init PROVE TypeOK
    OBVIOUS
  <2>1. nb \in Notebooks /\ nbC \in Notebooks /\ kernels \in KernelStatus
        /\ terminals \in MaybeAges
    BY CapFacts DEF Init, Notebooks, NoKernels, KernelStatus
  <2>2. server \in [kernels: KernelStatus, terminals: MaybeAges]
    BY CapFacts DEF Init, NoServer, NoKernels, KernelStatus
  <2>3. timer \in -1..IDLENESS_CHECK_PERIOD /\ pc \in Pcs
    BY TimesAssumption DEF Init, Absent, Pcs
  <2>4. /\ fresh \in BOOLEAN /\ due \in BOOLEAN /\ pod \in BOOLEAN /\ podC \in BOOLEAN
        /\ queued \in BOOLEAN
    BY Zenon DEF Init
  <2> QED BY <2>1, <2>2, <2>3, <2>4 DEF TypeOK
<1> QED BY <1>1, NextType, PTL DEF Spec

\* Last-activity is never moved backwards by a write
\* (compareAnnotationTimeToResource), conflicts, retries and restarts included.
THEOREM ActivityTheorem == Spec => ActivityNeverGoesBack
<1>1. ASSUME TypeOK, [Next]_vars
      PROVE  [(nb.last # Absent /\ nb'.last # Absent /\ nb'.last > nb.last) => Tick]_vars
  <2>1. CASE UNCHANGED vars
    BY <2>1
  <2>2. CASE Next /\ ~Tick
    <3>1. /\ nb' \in Notebooks
          /\ nb.last # Absent /\ nb'.last # Absent => nb'.last <= nb.last
      BY <1>1, <2>2, NotebookStep
    <3>2. nb.last \in Int /\ nb'.last \in Int
      BY <1>1, <3>1, CapFacts DEF TypeOK, Notebooks
    <3> QED BY <3>1, <3>2
  <2> QED BY <1>1, <2>1, <2>2
<1> QED BY <1>1, TypeTheorem, PTL DEF Spec, ActivityNeverGoesBack

\* Only a user ends a stop: the culler writes the stored Notebook or nothing.
THEOREM StopTheorem == Spec => CullerKeepsStops
<1>1. ASSUME TypeOK, [Next]_vars
      PROVE  [nb.stop /\ ~nb'.stop => UserStart]_vars
  <2>1. CASE UNCHANGED vars
    BY <2>1
  <2>2. CASE Next /\ ~Tick
    BY <1>1, <2>2, NotebookStep
  <2>3. CASE Tick
    <3>1. nb'.stop = nb.stop
      BY <1>1, <2>3 DEF Tick, OlderNotebook, TypeOK, Notebooks
    <3> QED BY <3>1
  <2> QED BY <1>1, <2>1, <2>2, <2>3
<1> QED BY <1>1, TypeTheorem, PTL DEF Spec, CullerKeepsStops

\* A check culls only a server that, by its own answers, has not been used for
\* the idle time: the update takes both answers into account before the verdict.
THEOREM IdleTheorem == Spec => CulledOnlyIfIdle
<1>1. ASSUME TypeOK, CullUpdate, ~nb.stop, nb'.stop
      PROVE  /\ ~kernels.busy
             /\ OldEnough(kernels.act) /\ OldEnough(terminals)
  <2>1. PICK idle \in notebookIsIdle(Checked(nb)) :
           nb' = [Checked(nb) EXCEPT !.stop = @ \/ idle]
    BY <1>1 DEF CullUpdate, Put, Conflict, stored
  <2>2. nb'.stop = (nb.stop \/ idle)
    BY <1>1, <2>1, UpdateFacts
  <2>3. Checked(nb) \in Notebooks
    BY <1>1, CheckedFacts DEF TypeOK
  <2>4. Checked(nb).last # Absent /\ Checked(nb).last >= CULL_IDLE_TIME
    BY <1>1, <2>1, <2>2, <2>3, IdleFacts
  <2>5. /\ kernels.busy => Checked(nb).last <= 0
        /\ ~kernels.busy /\ kernels.act # Absent => Checked(nb).last <= kernels.act
        /\ terminals # Absent => Checked(nb).last <= terminals
    BY <1>1, <2>4, CheckedFacts DEF TypeOK
  <2>6. Checked(nb).last \in Int /\ kernels.act \in Int /\ terminals \in Int
    <3>1. Checked(nb).last \in MaybeAges
      BY <2>3 DEF Notebooks
    <3> QED BY <1>1, <3>1, CapFacts DEF TypeOK, KernelStatus
  <2>7. ~kernels.busy
    BY <2>4, <2>5, <2>6, TimesAssumption
  <2> QED BY <2>4, <2>5, <2>6, <2>7, TimesAssumption DEF OldEnough
<1>2. TypeOK => [CullUpdate /\ ~nb.stop /\ nb'.stop =>
                    /\ ~kernels.busy
                    /\ OldEnough(kernels.act) /\ OldEnough(terminals)]_vars
  BY <1>1
<1> QED BY <1>2, TypeTheorem, PTL DEF CulledOnlyIfIdle
================================================================================

------------------------------- MODULE ServerTLS -------------------------------
(***************************************************************************)
(* The TLS posture of the servers of a manager process: notebook-controller *)
(* (pkg/tls, main.go) or odh-notebook-controller (main.go).  Both read the  *)
(* APIServer object "cluster" once when they start, derive from its        *)
(* tlsSecurityProfile what their servers demand, refuse to start when the  *)
(* posture is unknown or cannot be honoured, and watch the object: when it *)
(* differs from what was read, the process ends and is started again.      *)
(* The two do not interact, so a behaviour is about one of them.           *)
(*                                                                         *)
(* Cipher suites are classes: those of the Intermediate profile, those     *)
(* only the Old one has, those of TLS 1.3, which a Go server does not      *)
(* choose by configuration, and those Go cannot negotiate.                 *)
(***************************************************************************)
EXTENDS Naturals, FiniteSets

CONSTANTS
    Profiles,   \* the values of tlsSecurityProfile the cluster may have
    MaxEvents   \* bound on edits, API failures and crashes together

Managers == {"notebook-controller", "odh-notebook-controller"}
Versions == 10..13
Classes  == {"intermediate", "old", "tls13", "unusable"}

\* A TLSProfileSpec; a version that is not one of Versions is unknown.
Specs   == [min: {0} \cup Versions, ciphers: SUBSET Classes]
NoSpec  == [min |-> 99, ciphers |-> {}]
Unset   == [type |-> "", custom |-> NoSpec]
Types   == {"", "Old", "Intermediate", "Modern", "Custom", "Unheard"}

ASSUME ProfilesAssumption ==
    Profiles \subseteq [type: Types, custom: Specs \cup {NoSpec}]
ASSUME BoundAssumption == MaxEvents \in Nat

VARIABLES
    manager,    \* the process that is looked at
    api,        \* how reads of the API server go: ok, transient or denied
    cluster,    \* the APIServer object, None if there is none, or NoAPI
    pc,         \* down, adherence (between the two reads of odh), up
    serving,    \* the posture of the servers, None if they do not run
    watch,      \* none, starting (nothing listed yet), synced
    last,       \* the profile the watcher compares with
    lastAdherence, \* the adherence policy the watcher compares with
    policyRead, \* the adherence policy has been read
    copy,       \* the watcher's cached object
    news,       \* the object has changed since it was copied
    queue,      \* the watcher has a request
    outcome,    \* history: how the first read of the process went
    since,      \* history: the states of the object since the process started
    events      \* edits, failures and crashes so far

history == <<outcome, since, events>>
vars == <<manager, api, cluster, pc, serving, watch, last, lastAdherence,
          policyRead, copy, news, queue, history>>

\* The adherence policy: no opinion, or all components must honour the profile.
NoOpinion  == ""
Adherences == {NoOpinion, "Strict"}
Configs    == [profile: Profiles, adherence: Adherences]
NoAPI == [profile |-> Unset, adherence |-> "no API"]
None  == [profile |-> Unset, adherence |-> "none"]

\* What servers demand; without cipher suites Go uses a selection of its own.
Postures == [min: Versions, ciphers: SUBSET {"intermediate", "old"}]
Hardened == [min |-> 12, ciphers |-> {"intermediate"}]
Refused  == [min |-> 0, ciphers |-> {}]
Down     == [min |-> 1, ciphers |-> {}]

\* A profile that was not read equals none of the profiles that are.  odh has the
\* zero value for it, which has no known version.
Unread == [min |-> 98, ciphers |-> {}]

TypeOK ==
    /\ manager \in Managers
    /\ api \in {"ok", "transient", "denied"}
    /\ cluster \in Configs \cup {NoAPI, None}
    /\ pc \in {"down", "adherence", "up"}
    /\ serving \in Postures \cup {Down}
    /\ serving # Down <=> pc = "up"
    /\ watch \in {"none", "starting", "synced"}
    /\ last \in Profiles \cup Specs \cup {Unread}
    /\ lastAdherence \in Adherences /\ policyRead \in BOOLEAN
    /\ copy \in Configs \cup {NoAPI, None}
    /\ news \in BOOLEAN /\ queue \in BOOLEAN
    /\ outcome \in {"none", "found", "absent", "transient"}
    /\ since \in SUBSET (Configs \cup {NoAPI, None})
    /\ events \in 0..MaxEvents

Init ==
    /\ manager \in Managers
    /\ api = "ok" /\ cluster \in Configs \cup {NoAPI, None}
    /\ pc = "down" /\ serving = Down /\ watch = "none"
    /\ last = Unread /\ lastAdherence = NoOpinion /\ policyRead = FALSE
    /\ copy = None /\ news = FALSE /\ queue = FALSE
    /\ outcome = "none" /\ since = {} /\ events = 0

--------------------------------------------------------------------------------
(* From a profile to a posture.                                            *)

\* resolveCiphers, and the filter of validateProfileSpec: below TLS 1.3 only what
\* a TLS 1.2 handshake can negotiate is kept.  The two look names up in tables of
\* their own, which are assumed to classify them alike.
cipherUsableForTLS12(names) == names \ {"tls13", "unusable"}

\* The cipher suites of the built-in profiles, by OpenShift's table.
TLSProfiles(type) ==
    CASE type = "Old"    -> [min |-> 10, ciphers |-> {"tls13", "intermediate", "old"}]
      [] type = "Modern" -> [min |-> 13, ciphers |-> {"tls13"}]
      [] OTHER           -> [min |-> 12, ciphers |-> {"tls13", "intermediate"}]

\* Fault: TLS 1.3 suites count as usable.
FaultKeepTLS13(custom) ==
    LET usable == custom.ciphers \ {"unusable"} IN
    CASE custom.min \notin Versions -> Refused
      [] custom.min = 13            -> [min |-> 13, ciphers |-> {}]
      [] OTHER -> IF usable = {} THEN Refused ELSE [min |-> custom.min, ciphers |-> usable]

\* pkg/tls parseCustomProfile: no suites and no usable suites are both errors.
parseCustomProfile(custom) ==
    LET usable == cipherUsableForTLS12(custom.ciphers) IN
    CASE custom.min \notin Versions -> Refused
      [] custom.min = 13            -> [min |-> 13, ciphers |-> {}]
      [] OTHER -> IF usable = {} THEN Refused ELSE [min |-> custom.min, ciphers |-> usable]

\* pkg/tls parseProfile: an unknown type is treated as Intermediate.
parseProfile(profile) ==
    CASE profile.type = "Custom" ->
            IF profile.custom = NoSpec THEN Refused ELSE parseCustomProfile(profile.custom)
      [] profile.type = "Modern" -> [min |-> 13, ciphers |-> {}]
      [] profile.type = "Old"    ->
            [min |-> 10, ciphers |-> cipherUsableForTLS12(TLSProfiles("Old").ciphers)]
      [] OTHER -> Hardened

\* FetchAPIServerTLSProfile of odh's library: Custom without a block is an error.
GetTLSProfileSpec(profile) ==
    IF profile.type = "Custom" THEN profile.custom ELSE TLSProfiles(profile.type)

\* Fault: an unread policy is taken for the zero value.
FaultZeroPolicy(spec, policy, read) ==
    LET usable == cipherUsableForTLS12(spec.ciphers) IN
    CASE spec.min \notin Versions -> Refused
      [] spec.min = 13            -> [min |-> 13, ciphers |-> {}]
      [] spec.min \in 10..12 /\ spec.ciphers = {} ->
            IF policy = "Strict" THEN Refused ELSE [min |-> spec.min, ciphers |-> {}]
      [] OTHER -> IF usable = {} THEN Refused ELSE [min |-> spec.min, ciphers |-> usable]

\* odh validateProfileSpec, and the options made of its result: without suites
\* Go's selection is let through only if the policy was read and is not strict.
validateProfileSpec(spec, policy, read) ==
    LET usable == cipherUsableForTLS12(spec.ciphers) IN
    CASE spec.min \notin Versions -> Refused
      [] spec.min = 13            -> [min |-> 13, ciphers |-> {}]
      [] spec.min \in 10..12 /\ spec.ciphers = {} ->
            IF ~read \/ policy = "Strict" THEN Refused
            ELSE [min |-> spec.min, ciphers |-> {}]
      [] OTHER -> IF usable = {} THEN Refused ELSE [min |-> spec.min, ciphers |-> usable]

--------------------------------------------------------------------------------
(* Starting.                                                               *)

\* How a read of the object goes; a missing object and a missing API are alike.
Read == CASE api = "transient" -> "transient"
          [] api = "denied" -> "denied"
          [] cluster \in {NoAPI, None} -> "absent"
          [] OTHER -> "found"

\* os.Exit, or the end of mgr.Start: everything in memory is gone.
Exit ==
    /\ pc' = "down" /\ serving' = Down /\ watch' = "none"
    /\ last' = Unread /\ lastAdherence' = NoOpinion /\ policyRead' = FALSE
    /\ copy' = None /\ news' = FALSE /\ queue' = FALSE
    /\ outcome' = "none" /\ since' = {}
    /\ UNCHANGED <<manager, api, cluster>>

\* mgr.Start with a posture, and with the watcher if the API is there.
Start(posture, watcher) ==
    /\ pc' = "up" /\ serving' = posture
    /\ watch' = IF watcher THEN "starting" ELSE "none"
    /\ UNCHANGED <<manager, api, cluster, copy, news, queue, events>>

\* Fault: the raw profile is kept only when it is set.
FaultRawProfile(profile) == IF profile = Unset THEN Unread ELSE profile

\* Result.RawProfile, which the watcher starts from; the typed nil of a cluster
\* without a profile is equal to the one the watcher reads.
RawProfile(profile) == profile

\* Fault: no watcher after a transient error.
FaultNoWatcher(read) == read = "found"

\* Result.APIAvailable, tlsBootstrap.hasOpenShiftConfigAPI: whether there is to
\* be a watcher.
APIAvailable(read) == read \in {"found", "transient"}

\* Fault: the error is logged, and the start goes on.
FaultGoOn(posture) == TRUE

\* The posture could be derived; otherwise resolveFrom or validateProfileSpec
\* return an error, and main exits.
Honoured(posture) == posture # Refused

\* notebook-controller: Resolve and main.
Resolve ==
    /\ manager = "notebook-controller" /\ pc = "down" /\ Read # "denied"
    /\ LET posture == IF Read = "found" THEN parseProfile(cluster.profile) ELSE Hardened
       IN Honoured(posture) /\ Start(posture, APIAvailable(Read))
    /\ last' = IF Read = "found" THEN RawProfile(cluster.profile) ELSE Unread
    /\ outcome' = Read
    /\ since' = {cluster}
    /\ UNCHANGED <<lastAdherence, policyRead>>

\* odh-notebook-controller, bootstrapTLS: the profile is read, ...
FetchProfile ==
    /\ manager = "odh-notebook-controller" /\ pc = "down" /\ Read # "denied"
    /\ since' = {cluster} /\ outcome' = Read
    /\ IF ~APIAvailable(Read)
       THEN Start(Hardened, FALSE) /\ UNCHANGED last
       ELSE LET spec == GetTLSProfileSpec(cluster.profile) IN
            /\ Read = "found" => spec # NoSpec
            /\ pc' = "adherence"
            /\ last' = IF Read = "found" THEN spec ELSE Unread
            /\ UNCHANGED <<manager, api, cluster, serving, watch, copy, news, queue, events>>
    /\ UNCHANGED <<lastAdherence, policyRead>>

\* ... then the adherence policy (fetchTLSAdherence), and what was read is
\* validated.
FetchAdherence ==
    LET policy  == IF Read = "found" THEN cluster.adherence ELSE NoOpinion
        posture == IF last = Unread THEN Hardened
                   ELSE validateProfileSpec(last, policy, Read = "found")
    IN
    /\ pc = "adherence"
    /\ IF Read = "denied" \/ ~Honoured(posture)
       THEN Exit /\ UNCHANGED events
       ELSE /\ Start(posture, TRUE)
            /\ lastAdherence' = policy /\ policyRead' = (Read = "found")
            /\ UNCHANGED <<last, outcome, since>>

--------------------------------------------------------------------------------
(* Watching.                                                               *)

Unaffected == UNCHANGED <<manager, api, cluster, pc, serving, last, lastAdherence,
                          policyRead, history>>

\* Fault: the predicate lets no Create event through.
FaultUpdatesOnly(old, new) == new \notin {NoAPI, None} /\ old \notin {NoAPI, None}

\* The predicate of SetupWithManager: creations and updates queue a request,
\* and so does the object that is found when the watch starts.
Enqueues(old, new) == new \notin {NoAPI, None}

\* The informer lists, or is told of a change.
Sync ==
    /\ api = "ok" /\ cluster # NoAPI
    /\ watch = "starting" \/ (watch = "synced" /\ news)
    /\ watch' = "synced" /\ copy' = cluster /\ news' = FALSE
    /\ queue' = (queue \/ Enqueues(copy, cluster))
    /\ Unaffected

\* The manager gives up when its caches do not get in sync.
SyncTimeout ==
    /\ watch = "starting" /\ (api # "ok" \/ cluster = NoAPI)
    /\ Exit /\ UNCHANGED events

\* ProfileWatcher.Reconcile reads the object anew; while that fails the request
\* comes back every profileRetryInterval.
ReconcileProfile ==
    /\ manager = "notebook-controller" /\ queue /\ Read = "found"
    /\ IF last = cluster.profile
       THEN queue' = FALSE /\ Unaffected /\ UNCHANGED <<watch, copy, news>>
       ELSE Exit /\ UNCHANGED events

\* SecurityProfileWatcher.Reconcile looks into the cache; Custom without a block
\* is an error, and is tried again and again.
ReconcileSecurityProfile ==
    /\ manager = "odh-notebook-controller" /\ queue
    /\ IF copy \in {NoAPI, None}
       THEN queue' = FALSE /\ Unaffected /\ UNCHANGED <<watch, copy, news>>
       ELSE /\ GetTLSProfileSpec(copy.profile) # NoSpec
            /\ IF last = GetTLSProfileSpec(copy.profile) /\ lastAdherence = copy.adherence
               THEN queue' = FALSE /\ Unaffected /\ UNCHANGED <<watch, copy, news>>
               ELSE Exit /\ UNCHANGED events

Process ==
    \/ Resolve \/ FetchProfile \/ FetchAdherence
    \/ SyncTimeout \/ ReconcileProfile \/ ReconcileSecurityProfile

--------------------------------------------------------------------------------
(* The cluster.                                                            *)

Act == events < MaxEvents /\ events' = events + 1

\* The administrator sets a profile or a policy, or the object or its API is
\* removed or comes into being.
Edit ==
    /\ Act /\ cluster' \in (Configs \cup {NoAPI, None}) \ {cluster}
    /\ since' = IF pc = "down" THEN since ELSE since \cup {cluster'}
    /\ news' = (watch = "synced")
    /\ UNCHANGED <<manager, api, pc, serving, watch, last, lastAdherence,
                   policyRead, copy, queue, outcome>>

Disturb ==
    /\ Act /\ api' \in {"transient", "denied"} \ {api}
    /\ UNCHANGED <<manager, cluster, pc, serving, watch, last, lastAdherence,
                   policyRead, copy, news, queue, outcome, since>>

Recover ==
    /\ api # "ok" /\ api' = "ok"
    /\ UNCHANGED <<manager, cluster, pc, serving, watch, last, lastAdherence,
                   policyRead, copy, news, queue, history>>

Crash == pc # "down" /\ Act /\ Exit

Next == Process \/ Sync \/ Edit \/ Disturb \/ Recover \/ Crash

Spec == Init /\ [][Next]_vars

\* A process that has ended is started again, its worker runs and the informer
\* catches up.  Nothing says that failures of the API end.
FairSpec == Spec /\ WF_vars(Process) /\ WF_vars(Sync)

--------------------------------------------------------------------------------
(* Properties.                                                             *)

\* When a start is due, it does not matter which of the two managers' mappings from
\* profile to posture is used, whatever version and suites an administrator gives
\* the profile; except that odh may leave the suites to Go (parseProfile,
\* validateProfileSpec).
ManagersAgree ==
    pc = "down" /\ cluster \in Configs =>
        \A custom \in Specs, policy \in Adherences :
            LET profile == [cluster.profile EXCEPT !.custom = custom]
                posture == validateProfileSpec(GetTLSProfileSpec(profile), policy, TRUE)
            IN posture = parseProfile(profile)
                  \/ (profile.type = "Custom" /\ custom.ciphers = {} /\ policy = NoOpinion)

\* Below TLS 1.3 no server runs with a selection of cipher suites that nobody has
\* asked for: only odh-notebook-controller may, and only if the adherence policy
\* was other than Strict at some time since the process started
\* (validateProfileSpec, parseCustomProfile).
NoSilentSubstitution ==
    serving # Down /\ serving.min < 13 /\ serving.ciphers = {} =>
        /\ manager = "odh-notebook-controller"
        /\ \E s \in since : s.adherence = NoOpinion

\* A watcher ends the process only if the object has changed since the process
\* started, or the process could not read all of it then, or nothing could be
\* listed: a profile that stays as it is costs no restarts.
NoNeedlessRestart ==
    [][pc = "up" /\ pc' = "down" /\ events' = events =>
          \/ Cardinality(since) > 1
          \/ watch = "starting"
          \/ outcome # "found"
          \/ manager = "odh-notebook-controller" /\ ~policyRead]_vars

\* What the manager's servers should demand by the object as it is stored.
Target ==
    LET spec == GetTLSProfileSpec(cluster.profile) IN
    IF manager = "notebook-controller" THEN parseProfile(cluster.profile)
    ELSE IF spec = NoSpec THEN Refused
    ELSE validateProfileSpec(spec, cluster.adherence, TRUE)

\* If the API server works, the servers in the end demand what the profile says,
\* also when it changed while the process was starting or could not be read
\* then, and do not run with a profile that cannot be honoured.  A process that
\* found no object when it started does not notice one; odh goes on as before
\* when Custom loses its block.
Settled ==
    api = "ok" /\ cluster \in Configs /\ outcome # "absent" =>
        IF Target # Refused THEN serving = Target
        ELSE \/ serving = Down
             \/ /\ manager = "odh-notebook-controller"
                /\ GetTLSProfileSpec(cluster.profile) = NoSpec

EventuallyCurrent == <>[]Settled
================================================================================

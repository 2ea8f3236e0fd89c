---------------------------- MODULE ServerTLSProofs ----------------------------
(***************************************************************************)
(* Proofs about ServerTLS, for every set of profiles and every bound.      *)
(* ManagersAgree is a fact about the two mappings from profile to posture. *)
(* The others rest on the inductive invariant Inv: what the process        *)
(* remembers of its start, and what the watcher has cached, are states the *)
(* object has had since then (MemoryInv).                                  *)
(***************************************************************************)
EXTENDS ServerTLS, TLAPS, FiniteSetTheorems

Objects == Configs \cup {NoAPI, None}

\* What the process keeps of a profile it has read.
Kept(profile) ==
    IF manager = "notebook-controller" THEN profile ELSE GetTLSProfileSpec(profile)

\* What is in memory belongs to the process that runs.
ProcessInv ==
    /\ pc = "adherence" => manager = "odh-notebook-controller"
    /\ manager = "odh-notebook-controller" => last \in Specs \cup {Unread}
    /\ watch # "none" => pc = "up"
    /\ queue => watch = "synced"
    /\ pc = "down" => since = {}

\* What was read or cached is among the states of the object since the start.
MemoryInv ==
    /\ IsFiniteSet(since)
    /\ pc # "down" => cluster \in since
    /\ watch = "synced" => copy \in since
    /\ pc # "down" /\ outcome = "found" => \E s \in since : last = Kept(s.profile)
    /\ policyRead => \E s \in since : lastAdherence = s.adherence

Inv == TypeOK /\ ProcessInv /\ MemoryInv /\ NoSilentSubstitution

--------------------------------------------------------------------------------
(* The mappings from profile to posture.                                   *)

\* pkg/tls refuses a profile or makes a posture of it, and below TLS 1.3 never
\* one without cipher suites.
LEMMA ParseProfilePosture ==
    ASSUME NEW profile \in Profiles
    PROVE  LET p == parseProfile(profile) IN
           /\ p \in Postures \cup {Refused}
           /\ p # Refused => p.min = 13 \/ p.ciphers # {}
<1>1. profile.type \in Types /\ profile.custom \in Specs \cup {NoSpec}
  BY ProfilesAssumption
<1>2. ASSUME NEW custom \in Specs
      PROVE  LET p == parseCustomProfile(custom) IN
             /\ p \in Postures \cup {Refused}
             /\ p # Refused => p.min = 13 \/ p.ciphers # {}
  <2>1. CASE custom.min \notin Versions
    <3>1. custom.min # 13
      BY <2>1 DEF Versions
    <3>2. parseCustomProfile(custom) = Refused
      BY <2>1, <3>1, Zenon DEF parseCustomProfile
    <3> QED BY <3>2
  <2>2. CASE custom.min = 13
    <3>1. custom.min \in Versions
      BY <2>2 DEF Versions
    <3>2. parseCustomProfile(custom) = [min |-> 13, ciphers |-> {}]
      BY <2>2, <3>1, Zenon DEF parseCustomProfile
    <3> QED BY <2>2, <3>1, <3>2 DEF Postures
  <2>3. CASE custom.min \in Versions /\ custom.min # 13
    <3> DEFINE usable == cipherUsableForTLS12(custom.ciphers)
    <3>1. usable \in SUBSET {"intermediate", "old"}
      BY DEF Specs, Classes, cipherUsableForTLS12
    <3>2. parseCustomProfile(custom) =
             IF usable = {} THEN Refused ELSE [min |-> custom.min, ciphers |-> usable]
      BY <2>3 DEF parseCustomProfile
    <3> QED BY <2>3, <3>1, <3>2 DEF Postures
  <2> QED BY <2>1, <2>2, <2>3
<1>3. CASE profile.type = "Custom"
  BY <1>1, <1>2, <1>3 DEF parseProfile
<1>4. CASE profile.type = "Old"
  <2>1. cipherUsableForTLS12(TLSProfiles("Old").ciphers) = {"intermediate", "old"}
    BY DEF cipherUsableForTLS12, TLSProfiles
  <2>2. parseProfile(profile) = [min |-> 10, ciphers |-> {"intermediate", "old"}]
    BY <1>4, <2>1 DEF parseProfile
  <2> QED BY <2>2 DEF Postures, Versions
<1>5. CASE profile.type \notin {"Custom", "Old"}
  BY <1>5 DEF parseProfile, Hardened, Postures, Versions
<1> QED BY <1>3, <1>4, <1>5

\* The same of odh-notebook-controller, which may leave the suites to Go, but
\* only if the policy was read and is not strict.
LEMMA ValidatePosture ==
    ASSUME NEW spec \in Specs, NEW policy, NEW read \in BOOLEAN
    PROVE  LET p == validateProfileSpec(spec, policy, read) IN
           /\ p \in Postures \cup {Refused}
           /\ p # Refused => \/ p.min = 13
                             \/ p.ciphers # {}
                             \/ read /\ policy # "Strict"
<1> DEFINE usable == cipherUsableForTLS12(spec.ciphers)
<1>1. CASE spec.min \notin Versions
  <2>1. spec.min # 13 /\ ~(spec.min \in 10..12)
    BY <1>1 DEF Versions
  <2>2. validateProfileSpec(spec, policy, read) = Refused
    BY <1>1, <2>1, Zenon DEF validateProfileSpec
  <2> QED BY <2>2
<1>2. CASE spec.min = 13
  <2>1. spec.min \in Versions /\ ~(spec.min \in 10..12)
    BY <1>2 DEF Versions
  <2>2. validateProfileSpec(spec, policy, read) = [min |-> 13, ciphers |-> {}]
    BY <1>2, <2>1, Zenon DEF validateProfileSpec
  <2> QED BY <1>2, <2>1, <2>2 DEF Postures
<1>3. CASE spec.min \in Versions /\ spec.min # 13 /\ spec.ciphers = {}
  <2>1. spec.min \in 10..12
    BY <1>3 DEF Versions
  <2>2. validateProfileSpec(spec, policy, read) =
          IF ~read \/ policy = "Strict" THEN Refused
          ELSE [min |-> spec.min, ciphers |-> {}]
    BY <1>3, <2>1 DEF validateProfileSpec
  <2> QED BY <1>3, <2>2 DEF Postures
<1>4. CASE spec.min \in Versions /\ spec.min # 13 /\ spec.ciphers # {}
  <2>1. usable \in SUBSET {"intermediate", "old"}
    BY DEF Specs, Classes, cipherUsableForTLS12
  <2>2. validateProfileSpec(spec, policy, read) =
          IF usable = {} THEN Refused ELSE [min |-> spec.min, ciphers |-> usable]
    BY <1>4 DEF validateProfileSpec
  <2> QED BY <1>4, <2>1, <2>2 DEF Postures
<1> QED BY <1>1, <1>2, <1>3, <1>4

\* What odh reads of a profile is a specification, or the missing block of Custom.
LEMMA SpecOfProfile ==
    ASSUME NEW profile \in Profiles
    PROVE  GetTLSProfileSpec(profile) \in Specs \cup {NoSpec}
<1>1. profile.custom \in Specs \cup {NoSpec}
  BY ProfilesAssumption
<1>2. TLSProfiles(profile.type) \in Specs
  BY DEF TLSProfiles, Specs, Versions, Classes
<1> QED BY <1>1, <1>2 DEF GetTLSProfileSpec

\* The two managers make the same posture of the same profile, whichever type it
\* has and whatever its block says, unless odh leaves the suites to Go.
LEMMA MappingsAgree ==
    ASSUME NEW profile, profile.type \in Types, profile.custom \in Specs,
           NEW policy \in Adherences
    PROVE  \/ validateProfileSpec(GetTLSProfileSpec(profile), policy, TRUE)
                 = parseProfile(profile)
           \/ /\ profile.type = "Custom" /\ profile.custom.ciphers = {}
              /\ policy = NoOpinion
<1>1. CASE profile.type = "Custom"
  <2> DEFINE custom == profile.custom
             usable == cipherUsableForTLS12(custom.ciphers)
  <2>1. custom # NoSpec
    BY DEF Specs, NoSpec, Versions
  <2>2. parseProfile(profile) = parseCustomProfile(custom)
    BY <1>1, <2>1 DEF parseProfile
  <2>3. GetTLSProfileSpec(profile) = custom
    BY <1>1 DEF GetTLSProfileSpec
  <2>4. CASE custom.min \notin Versions
    BY <2>2, <2>3, <2>4 DEF parseCustomProfile, validateProfileSpec
  <2>5. CASE custom.min = 13
    BY <2>2, <2>3, <2>5 DEF parseCustomProfile, validateProfileSpec, Versions
  <2>6. CASE custom.min \in 10..12 /\ custom.ciphers = {}
    <3>1. usable = {}
      BY <2>6 DEF cipherUsableForTLS12
    <3>2. parseCustomProfile(custom) = Refused
      BY <2>6, <3>1 DEF parseCustomProfile, Versions
    <3>3. policy = "Strict" => validateProfileSpec(custom, policy, TRUE) = Refused
      BY <2>6 DEF validateProfileSpec, Versions
    <3> QED BY <1>1, <2>2, <2>3, <2>6, <3>2, <3>3 DEF Adherences
  <2>7. CASE custom.min \in 10..12 /\ custom.ciphers # {}
    <3>1. custom.min \in Versions /\ custom.min # 13
      BY <2>7 DEF Versions
    <3> QED BY <2>2, <2>3, <2>7, <3>1, Zenon DEF parseCustomProfile, validateProfileSpec
  <2>8. custom.min \in Versions => custom.min = 13 \/ custom.min \in 10..12
    BY DEF Versions
  <2> QED BY <2>4, <2>5, <2>6, <2>7, <2>8, Zenon
<1>2. CASE profile.type = "Old"
  <2>1. cipherUsableForTLS12(TLSProfiles("Old").ciphers) = {"intermediate", "old"}
    BY DEF cipherUsableForTLS12, TLSProfiles
  <2>2. GetTLSProfileSpec(profile) = TLSProfiles("Old")
    BY <1>2 DEF GetTLSProfileSpec
  <2>3. TLSProfiles("Old").min = 10 /\ TLSProfiles("Old").ciphers # {}
    BY DEF TLSProfiles
  <2>4. validateProfileSpec(TLSProfiles("Old"), policy, TRUE) =
          [min |-> 10, ciphers |-> {"intermediate", "old"}]
    BY <2>1, <2>3 DEF validateProfileSpec, Versions
  <2> QED BY <1>2, <2>1, <2>2, <2>4 DEF parseProfile
<1>3. CASE profile.type = "Modern"
  BY <1>3 DEF GetTLSProfileSpec, TLSProfiles, validateProfileSpec, Versions,
              parseProfile
<1>4. CASE profile.type \notin {"Custom", "Old", "Modern"}
  <2> DEFINE spec == [min |-> 12, ciphers |-> {"tls13", "intermediate"}]
  <2>1. GetTLSProfileSpec(profile) = spec
    BY <1>4 DEF GetTLSProfileSpec, TLSProfiles
  <2>2. cipherUsableForTLS12(spec.ciphers) = {"intermediate"}
    BY DEF cipherUsableForTLS12
  <2>3. spec.min = 12 /\ spec.ciphers # {}
    OBVIOUS
  <2>4. validateProfileSpec(spec, policy, TRUE) = Hardened
    BY <2>2, <2>3 DEF validateProfileSpec, Versions, Hardened
  <2> QED BY <1>4, <2>1, <2>4 DEF parseProfile
<1> QED BY <1>1, <1>2, <1>3, <1>4

\* It does not matter which of the two managers' mappings from profile to
\* posture is used (parseProfile, validateProfileSpec).
THEOREM AgreementTheorem == Spec => []ManagersAgree
<1>1. ManagersAgree
  <2> SUFFICES ASSUME cluster \in Configs,
                      NEW custom \in Specs, NEW policy \in Adherences
               PROVE  LET profile == [cluster.profile EXCEPT !.custom = custom]
                      IN \/ validateProfileSpec(GetTLSProfileSpec(profile), policy, TRUE)
                              = parseProfile(profile)
                         \/ /\ profile.type = "Custom" /\ custom.ciphers = {}
                            /\ policy = NoOpinion
    BY DEF ManagersAgree
  <2> DEFINE profile == [cluster.profile EXCEPT !.custom = custom]
  <2>1. cluster.profile \in [type: Types, custom: Specs \cup {NoSpec}]
    BY ProfilesAssumption DEF Configs
  <2>2. profile.type \in Types /\ profile.custom = custom
    BY <2>1
  <2> QED BY <2>2, MappingsAgree
<1> QED BY <1>1, PTL

--------------------------------------------------------------------------------
(* The invariant.                                                          *)

\* Every initial state satisfies the invariant.
LEMMA InitInv == Init => Inv
<1> SUFFICES ASSUME Init PROVE Inv
  OBVIOUS
<1>1. TypeOK
  <2>1. events \in 0..MaxEvents
    BY BoundAssumption DEF Init
  <2>2. policyRead \in BOOLEAN /\ news \in BOOLEAN /\ queue \in BOOLEAN
    BY Zenon DEF Init
  <2>3. pc \in {"down", "adherence", "up"} /\ pc # "up"
    BY DEF Init
  <2>4. since \in SUBSET (Configs \cup {NoAPI, None})
    BY DEF Init
  <2> QED BY <2>1, <2>2, <2>3, <2>4, Zenon DEF Init, TypeOK, Adherences
<1>2. IsFiniteSet(since)
  BY FS_EmptySet DEF Init
<1>3. ProcessInv /\ MemoryInv /\ NoSilentSubstitution
  BY <1>2 DEF Init, ProcessInv, MemoryInv, NoSilentSubstitution
<1> QED BY <1>1, <1>3 DEF Inv

\* The end of the process forgets everything, which is in order.
LEMMA ExitInv ==
    ASSUME Inv, Exit, events' \in 0..MaxEvents
    PROVE  Inv'
<1> USE DEF Exit
<1>1. TypeOK'
  <2>1. policyRead' \in BOOLEAN /\ news' \in BOOLEAN /\ queue' \in BOOLEAN
    BY Zenon
  <2>2. since' \in SUBSET (Configs \cup {NoAPI, None})
    OBVIOUS
  <2>3. pc' \in {"down", "adherence", "up"} /\ pc' # "up"
    OBVIOUS
  <2> QED BY <2>1, <2>2, <2>3, Zenon DEF Inv, TypeOK, Adherences
<1>2. IsFiniteSet(since)'
  BY FS_EmptySet
<1>3. ProcessInv' /\ MemoryInv' /\ NoSilentSubstitution'
  BY <1>2 DEF ProcessInv, MemoryInv, NoSilentSubstitution
<1> QED BY <1>1, <1>3 DEF Inv

\* A read that finds the object finds a configuration.
LEMMA ReadFinds ==
    ASSUME TypeOK
    PROVE  /\ Read \in {"transient", "denied", "absent", "found"}
           /\ Read = "found" => cluster \in Configs
<1>1. Read \in {"transient", "denied", "absent", "found"}
  BY Zenon DEF Read
<1>2. ASSUME Read = "found" PROVE cluster \notin {NoAPI, None}
  <2> SUFFICES ASSUME cluster \in {NoAPI, None} PROVE FALSE
    OBVIOUS
  <2>1. CASE api = "transient"
    <3>1. api # "denied"
      BY <2>1
    <3>2. Read \in {"transient", "absent"}
      BY <2>1, <3>1, Zenon DEF Read
    <3> QED BY <1>2, <3>2
  <2>2. CASE api = "denied"
    <3>1. api # "transient"
      BY <2>2
    <3>2. Read \in {"denied", "absent"}
      BY <2>2, <3>1, Zenon DEF Read
    <3> QED BY <1>2, <3>2
  <2>3. CASE api # "transient" /\ api # "denied"
    <3>1. Read = "absent"
      BY <2>3, Zenon DEF Read
    <3> QED BY <1>2, <3>1
  <2> QED BY <2>1, <2>2, <2>3
<1> QED BY <1>1, <1>2 DEF TypeOK

\* The postures are not the marks that stand for none.
LEMMA PostureMarks == Down \notin Postures /\ Refused \notin Postures /\ Hardened \in Postures
  BY DEF Down, Refused, Hardened, Postures, Versions

\* notebook-controller starts.
LEMMA ResolveInv == Inv /\ Resolve => Inv'
<1> SUFFICES ASSUME Inv, Resolve PROVE Inv'
  OBVIOUS
<1> USE DEF Inv
<1> DEFINE posture == IF Read = "found" THEN parseProfile(cluster.profile) ELSE Hardened
<1>1. Read \in {"transient", "absent", "found"} /\ (Read = "found" => cluster \in Configs)
  BY ReadFinds DEF Resolve
<1>2. Read = "found" => cluster.profile \in Profiles
  BY <1>1 DEF Configs
<1>3. posture \in Postures /\ (posture.min < 13 => posture.ciphers # {})
  <2>1. Honoured(posture)
    BY DEF Resolve
  <2>2. CASE Read = "found"
    BY <1>2, <2>1, <2>2, ParseProfilePosture DEF Honoured
  <2>3. CASE Read # "found"
    BY <2>3, PostureMarks DEF Hardened
  <2> QED BY <2>2, <2>3
<1>4. /\ serving' = posture /\ pc' = "up" /\ outcome' = Read /\ since' = {cluster}
      /\ watch' \in {"none", "starting"}
      /\ last' = IF Read = "found" THEN cluster.profile ELSE Unread
      /\ UNCHANGED <<manager, api, cluster, copy, news, queue, events,
                     lastAdherence, policyRead>>
  BY DEF Resolve, Start, RawProfile
<1>5. manager = "notebook-controller" /\ pc = "down"
  BY DEF Resolve
<1>6. TypeOK'
  BY <1>1, <1>2, <1>3, <1>4, PostureMarks DEF TypeOK
<1>7. ProcessInv'
  BY <1>4, <1>5 DEF ProcessInv
<1>8. MemoryInv'
  <2>1. IsFiniteSet(since')
    BY <1>4, FS_Singleton
  <2>2. ~policyRead'
    BY <1>4, <1>5 DEF MemoryInv, ProcessInv
  <2>3. outcome' = "found" => last' = cluster.profile
    BY <1>4
  <2> QED BY <1>4, <1>5, <2>1, <2>2, <2>3 DEF MemoryInv, Kept
<1>9. NoSilentSubstitution'
  BY <1>3, <1>4 DEF NoSilentSubstitution
<1> QED BY <1>6, <1>7, <1>8, <1>9

\* odh-notebook-controller reads the profile.
LEMMA FetchProfileInv == Inv /\ FetchProfile => Inv'
<1> SUFFICES ASSUME Inv, FetchProfile PROVE Inv'
  OBVIOUS
<1> USE DEF Inv
<1> DEFINE spec == GetTLSProfileSpec(cluster.profile)
<1>1. Read \in {"transient", "absent", "found"} /\ (Read = "found" => cluster \in Configs)
  BY ReadFinds DEF FetchProfile
<1>2. /\ outcome' = Read /\ since' = {cluster}
      /\ manager = "odh-notebook-controller" /\ pc = "down"
      /\ UNCHANGED <<manager, api, cluster, copy, news, queue, events,
                     lastAdherence, policyRead>>
  BY DEF FetchProfile, Start
<1>3. IsFiniteSet(since') /\ ~policyRead'
  BY <1>2, FS_Singleton DEF MemoryInv, ProcessInv
<1>4. CASE ~APIAvailable(Read)
  <2>1. /\ pc' = "up" /\ serving' = Hardened /\ watch' = "none" /\ last' = last
        /\ Read = "absent"
    BY <1>1, <1>4 DEF FetchProfile, Start, APIAvailable
  <2>2. TypeOK'
    BY <1>2, <2>1, PostureMarks DEF TypeOK
  <2>3. ProcessInv' /\ MemoryInv'
    BY <1>2, <1>3, <2>1 DEF ProcessInv, MemoryInv
  <2>4. NoSilentSubstitution'
    BY <2>1 DEF NoSilentSubstitution, Hardened
  <2> QED BY <2>2, <2>3, <2>4
<1>5. CASE APIAvailable(Read)
  <2>1. /\ pc' = "adherence" /\ UNCHANGED <<serving, watch>>
        /\ Read = "found" => spec # NoSpec
        /\ last' = IF Read = "found" THEN spec ELSE Unread
    BY <1>5 DEF FetchProfile
  <2>2. Read = "found" => spec \in Specs
    BY <1>1, <2>1, SpecOfProfile DEF Configs
  <2>3. TypeOK'
    BY <1>1, <1>2, <2>1, <2>2 DEF TypeOK
  <2>4. ProcessInv'
    BY <1>2, <2>1, <2>2 DEF ProcessInv
  <2>5. MemoryInv'
    BY <1>2, <1>3, <2>1 DEF MemoryInv, ProcessInv, Kept
  <2>6. NoSilentSubstitution'
    BY <1>2, <2>1 DEF NoSilentSubstitution, TypeOK
  <2> QED BY <2>3, <2>4, <2>5, <2>6
<1> QED BY <1>4, <1>5

\* odh-notebook-controller reads the adherence policy and starts, or ends.
LEMMA FetchAdherenceInv == Inv /\ FetchAdherence => Inv'
<1> SUFFICES ASSUME Inv, FetchAdherence PROVE Inv'
  OBVIOUS
<1> USE DEF Inv
<1> DEFINE policy  == IF Read = "found" THEN cluster.adherence ELSE NoOpinion
           posture == IF last = Unread THEN Hardened
                      ELSE validateProfileSpec(last, policy, Read = "found")
<1>1. CASE Read = "denied" \/ ~Honoured(posture)
  <2>1. Exit /\ UNCHANGED events
    BY <1>1 DEF FetchAdherence
  <2> QED BY <2>1, ExitInv DEF TypeOK
<1>2. CASE Read # "denied" /\ Honoured(posture)
  <2>1. /\ pc' = "up" /\ serving' = posture /\ watch' = "starting"
        /\ lastAdherence' = policy /\ policyRead' = (Read = "found")
        /\ UNCHANGED <<manager, api, cluster, copy, news, queue, events, last,
                       outcome, since>>
    BY <1>2, Zenon DEF FetchAdherence, Start
  <2>2. pc = "adherence" /\ manager = "odh-notebook-controller"
    BY DEF FetchAdherence, ProcessInv
  <2>3. policy \in Adherences /\ (Read = "found" => cluster \in Configs)
    BY ReadFinds DEF Configs, Adherences
  <2>4. /\ posture \in Postures
        /\ posture.min < 13 /\ posture.ciphers = {} => policyRead' /\ policy = NoOpinion
    <3>1. CASE last = Unread
      BY <3>1, PostureMarks DEF Hardened
    <3>2. CASE last # Unread
      <4>1. last \in Specs
        BY <2>2, <3>2 DEF ProcessInv
      <4>2. /\ posture \in Postures \cup {Refused}
            /\ posture # Refused => \/ posture.min = 13
                                    \/ posture.ciphers # {}
                                    \/ Read = "found" /\ policy # "Strict"
        BY <3>2, <4>1, ValidatePosture
      <4> HIDE DEF posture, policy
      <4>3. posture \in Postures /\ posture # Refused
        BY <1>2, <4>2 DEF Honoured
      <4>4. policy # "Strict" => policy = NoOpinion
        BY <2>3 DEF Adherences
      <4>5. Read = "found" => policyRead'
        BY <2>1, Zenon
      <4>6. posture.min < 13 => posture.min # 13
        BY <4>3 DEF Postures, Versions
      <4> QED BY <4>2, <4>3, <4>4, <4>5, <4>6, Zenon
    <3> QED BY <3>1, <3>2
  <2>5. TypeOK'
    <3>1. policyRead' \in BOOLEAN
      BY <2>1
    <3>2. serving' \in Postures /\ serving' # Down
      BY <2>1, <2>4, PostureMarks
    <3> QED BY <2>1, <2>3, <3>1, <3>2 DEF TypeOK
  <2>6. ProcessInv'
    BY <2>1, <2>2 DEF ProcessInv, TypeOK
  <2>7. cluster \in since
    BY <2>2 DEF MemoryInv
  <2>8. MemoryInv'
    BY <2>1, <2>2, <2>7 DEF MemoryInv, Kept
  <2>9. NoSilentSubstitution'
    BY <2>1, <2>2, <2>4, <2>7 DEF NoSilentSubstitution
  <2> QED BY <2>5, <2>6, <2>8, <2>9
<1> QED BY <1>1, <1>2

\* The watcher's cache is filled with the object as it is stored.
LEMMA SyncInv == Inv /\ Sync => Inv'
<1> SUFFICES ASSUME Inv, Sync PROVE Inv'
  OBVIOUS
<1> USE DEF Inv
<1>1. /\ watch # "none" /\ watch' = "synced" /\ copy' = cluster /\ news' = FALSE
      /\ UNCHANGED <<manager, api, cluster, pc, serving, last, lastAdherence,
                     policyRead, outcome, since, events>>
  BY DEF Sync, Unaffected, history
<1>2. pc = "up" /\ cluster \in since
  BY <1>1 DEF ProcessInv, MemoryInv
<1>3. TypeOK'
  <2>1. queue' \in BOOLEAN
    BY DEF Sync
  <2>2. news' \in BOOLEAN
    BY <1>1, Zenon
  <2> QED BY <1>1, <2>1, <2>2 DEF TypeOK
<1>4. ProcessInv'
  BY <1>1, <1>2 DEF ProcessInv
<1>5. MemoryInv'
  BY <1>1, <1>2 DEF MemoryInv, Kept
<1>6. NoSilentSubstitution'
  BY <1>1 DEF NoSilentSubstitution
<1> QED BY <1>3, <1>4, <1>5, <1>6

\* A watcher finds nothing new, or ends the process.
LEMMA WatchInv ==
    ASSUME Inv, SyncTimeout \/ ReconcileProfile \/ ReconcileSecurityProfile
    PROVE  Inv'
<1>1. CASE Exit /\ UNCHANGED events
  BY <1>1, ExitInv DEF Inv, TypeOK
<1>2. CASE queue' = FALSE /\ Unaffected /\ UNCHANGED <<watch, copy, news>>
  <2>1. TypeOK'
    <3>1. queue' \in BOOLEAN
      BY <1>2, Zenon
    <3> QED BY <1>2, <3>1 DEF Inv, TypeOK, Unaffected, history
  <2>2. ProcessInv' /\ MemoryInv' /\ NoSilentSubstitution'
    BY <1>2 DEF Inv, ProcessInv, MemoryInv, Kept, NoSilentSubstitution, Unaffected,
                history
  <2> QED BY <2>1, <2>2 DEF Inv
<1> QED BY <1>1, <1>2, Zenon DEF SyncTimeout, ReconcileProfile, ReconcileSecurityProfile

\* The object changes: what the process remembers remains a state it has had.
LEMMA EditInv == Inv /\ Edit => Inv'
<1> SUFFICES ASSUME Inv, Edit PROVE Inv'
  OBVIOUS
<1> USE DEF Inv
<1>1. /\ cluster' \in Configs \cup {NoAPI, None}
      /\ since' = IF pc = "down" THEN since ELSE since \cup {cluster'}
      /\ news' \in BOOLEAN /\ events' \in 0..MaxEvents
      /\ UNCHANGED <<manager, api, pc, serving, watch, last, lastAdherence,
                     policyRead, copy, queue, outcome>>
  BY BoundAssumption DEF Edit, Act, TypeOK
<1>2. TypeOK'
  BY <1>1 DEF TypeOK
<1>3. ProcessInv'
  BY <1>1 DEF ProcessInv
<1>4. MemoryInv'
  <2>1. IsFiniteSet(since')
    BY <1>1, FS_AddElement DEF MemoryInv
  <2> QED BY <1>1, <2>1 DEF MemoryInv, Kept
<1>5. NoSilentSubstitution'
  BY <1>1 DEF NoSilentSubstitution
<1> QED BY <1>2, <1>3, <1>4, <1>5

\* Failing reads, and their end, touch nothing else.
LEMMA APIInv == Inv /\ (Disturb \/ Recover \/ UNCHANGED vars) => Inv'
<1> SUFFICES ASSUME Inv, Disturb \/ Recover \/ UNCHANGED vars PROVE Inv'
  OBVIOUS
<1> USE DEF Inv
<1>1. /\ api' \in {"ok", "transient", "denied"} /\ events' \in 0..MaxEvents
      /\ UNCHANGED <<manager, cluster, pc, serving, watch, last, lastAdherence,
                     policyRead, copy, news, queue, outcome, since>>
  BY BoundAssumption DEF Disturb, Recover, Act, TypeOK, vars, history
<1>2. TypeOK'
  BY <1>1 DEF TypeOK
<1>3. ProcessInv' /\ MemoryInv' /\ NoSilentSubstitution'
  BY <1>1 DEF ProcessInv, MemoryInv, Kept, NoSilentSubstitution
<1> QED BY <1>2, <1>3

\* Every step keeps the invariant.
LEMMA NextInv == Inv /\ [Next]_vars => Inv'
<1> SUFFICES ASSUME Inv, [Next]_vars PROVE Inv'
  OBVIOUS
<1>1. CASE Crash
  <2>1. events' \in 0..MaxEvents
    BY <1>1, BoundAssumption DEF Crash, Act, Inv, TypeOK
  <2> QED BY <1>1, <2>1, ExitInv DEF Crash
<1> QED BY <1>1, ResolveInv, FetchProfileInv, FetchAdherenceInv, SyncInv, WatchInv,
           EditInv, APIInv DEF Next, Process

\* The inductive invariant holds of every behaviour.
LEMMA SpecInv == Spec => []Inv
  BY InitInv, NextInv, PTL DEF Spec

\* Every variable keeps its type, and servers run exactly in a process that is up.
THEOREM TypeTheorem == Spec => []TypeOK
<1>1. Inv => TypeOK
  BY DEF Inv
<1> QED BY <1>1, SpecInv, PTL

\* Below TLS 1.3 no server runs with a selection of cipher suites that nobody
\* has asked for (validateProfileSpec, parseCustomProfile).
THEOREM SubstitutionTheorem == Spec => []NoSilentSubstitution
<1>1. Inv => NoSilentSubstitution
  BY DEF Inv
<1> QED BY <1>1, SpecInv, PTL

\* Two states of the object since the start are more than one.
LEMMA TwoStates ==
    ASSUME NEW S, IsFiniteSet(S), NEW a \in S, NEW b \in S, a # b
    PROVE  Cardinality(S) > 1
<1>1. IsFiniteSet({a, b}) /\ Cardinality({a, b}) = 2
  <2>1. IsFiniteSet({a}) /\ Cardinality({a}) = 1
    BY FS_Singleton
  <2>2. {a, b} = {a} \cup {b} /\ b \notin {a}
    OBVIOUS
  <2> QED BY <2>1, <2>2, FS_AddElement
<1>2. Cardinality({a, b}) <= Cardinality(S)
  BY <1>1, FS_Subset
<1>3. Cardinality(S) \in Nat
  BY FS_CardinalityType
<1> QED BY <1>1, <1>2, <1>3

\* A watcher ends the process only if the object has changed since the process
\* started, or the process could not read all of it then, or nothing could be
\* listed (ProfileWatcher.Reconcile, SecurityProfileWatcher.Reconcile).
THEOREM RestartTheorem == Spec => NoNeedlessRestart
<1> DEFINE Excused ==
      \/ Cardinality(since) > 1
      \/ watch = "starting"
      \/ outcome # "found"
      \/ manager = "odh-notebook-controller" /\ ~policyRead
<1>1. ASSUME Inv, [Next]_vars, pc = "up", pc' = "down", events' = events
      PROVE  Excused
  <2> USE DEF Inv
  <2>1. SyncTimeout \/ ReconcileProfile \/ ReconcileSecurityProfile
    <3>1. ~Act
      BY <1>1 DEF Act, TypeOK
    <3>2. ~UNCHANGED vars /\ ~Sync /\ ~Recover
      BY <1>1 DEF vars, Sync, Unaffected, Recover
    <3>3. ~Resolve /\ ~FetchProfile /\ ~FetchAdherence
      BY <1>1 DEF Resolve, FetchProfile, FetchAdherence
    <3> QED BY <1>1, <3>1, <3>2, <3>3 DEF Next, Process, Edit, Disturb, Crash
  <2>2. CASE SyncTimeout
    BY <2>2 DEF SyncTimeout
  <2>3. CASE ReconcileProfile /\ outcome = "found"
    <3>1. last # cluster.profile /\ manager = "notebook-controller"
      BY <1>1, <2>3 DEF ReconcileProfile, Unaffected
    <3>2. PICK s \in since : last = s.profile
      BY <1>1, <2>3, <3>1 DEF MemoryInv, Kept
    <3>3. cluster \in since /\ cluster # s
      BY <1>1, <3>1, <3>2 DEF MemoryInv
    <3> QED BY <1>1, <3>3, TwoStates DEF MemoryInv
  <2>4. CASE ReconcileSecurityProfile /\ outcome = "found" /\ policyRead
    <3>1. /\ manager = "odh-notebook-controller" /\ queue
          /\ last # GetTLSProfileSpec(copy.profile) \/ lastAdherence # copy.adherence
      BY <1>1, <2>4 DEF ReconcileSecurityProfile, Unaffected
    <3>2. PICK s \in since : last = GetTLSProfileSpec(s.profile)
      BY <1>1, <2>4, <3>1 DEF MemoryInv, Kept
    <3>3. PICK t \in since : lastAdherence = t.adherence
      BY <1>1, <2>4 DEF MemoryInv
    <3>4. copy \in since /\ (copy # s \/ copy # t)
      BY <1>1, <3>1, <3>2, <3>3 DEF MemoryInv, ProcessInv
    <3> QED BY <1>1, <3>4, TwoStates DEF MemoryInv
  <2>5. CASE ReconcileSecurityProfile /\ ~policyRead
    BY <2>5 DEF ReconcileSecurityProfile
  <2> QED BY <2>1, <2>2, <2>3, <2>4, <2>5
<1> QED BY <1>1, SpecInv, PTL DEF Spec, NoNeedlessRestart
================================================================================

-------------------------- MODULE OwnedObjectsProofs ---------------------------
(***************************************************************************)
(* Proofs about OwnedObjects, for every list of policies and of other      *)
(* objects and every bound.  The finalizers tie a reconcile to one         *)
(* incarnation of the Notebook (NotebookInv): a copy that has them, and a  *)
(* stored Notebook that is not terminating and has them, are the same one. *)
(* Hence what a reconcile writes is owned by the Notebook that is stored,  *)
(* and the loop over the policies has confirmed, for that Notebook, those  *)
(* it has left behind without an error (LoopInv), be it from a copy, which *)
(* was stored once (PolicyInv).                                            *)
(***************************************************************************)
EXTENDS OwnedObjects, TLAPS

Working == {"object", "write", "unlock"}

\* Finalizers and copies.
NotebookInv ==
    /\ nbC.phase = "active" => nb.uid = nbC.uid /\ nb.phase \in {"active", "deleting"}
    /\ nb.phase = "active" => nbC.phase \in {"new", "active"}
    /\ work.pc = "cleanup" => nb.phase # "active" /\ nbC.phase # "active"

\* A Notebook is unlocked only behind its policies, in whatever phase it is.
LockInv == nb.phase # "absent" /\ ~nb.lock => confirmed = PolicySet

\* The running reconcile: where it is in the list, and what is behind it.
LoopInv ==
    work.pc \in Working =>
        /\ work.at \in 1..Len(Steps)
        /\ ~work.failed =>
              \A i \in DOMAIN Policies : i < work.at => Policies[i] \in confirmed
        /\ work.at > Len(Policies) => ~work.failed
        /\ work.pc = "write" => work.at > Len(Policies) /\ Steps[work.at] = "config"
        /\ work.pc = "unlock" => confirmed = PolicySet

\* A policy, stored or cached: no later Notebook owns it than the one there is,
\* and what that one owns in good order has been recorded.
PolicyInv ==
    \A p \in PolicySet :
        /\ obj[p].owner <= nb.uid \/ obj[p].owner = Other
        /\ objC[p].owner <= nb.uid \/ objC[p].owner = Other
        /\ obj[p].owner = nb.uid /\ obj[p].good => p \in confirmed
        /\ objC[p].owner = nb.uid /\ objC[p].good => p \in confirmed
        /\ p \in fresh => objC[p].owner = obj[p].owner
        /\ p \in condemned => obj[p].there /\ obj[p].owner # Other

Inv == TypeOK /\ NotebookInv /\ OneIncarnation /\ LockInv /\ LoopInv /\ PolicyInv

--------------------------------------------------------------------------------
(* The list of objects, and what is stored of them.                        *)

\* The policies come first in the list, and none of the others is a policy.
LEMMA StepsFacts ==
    /\ Len(Policies) \in Nat \ {0} /\ DOMAIN Policies = 1..Len(Policies)
    /\ Len(Steps) \in Nat /\ Len(Policies) <= Len(Steps)
    /\ \A i \in 1..Len(Policies) : Steps[i] = Policies[i] /\ Policies[i] \in PolicySet
    /\ \A i \in 1..Len(Steps) : Steps[i] \in Objects
                               /\ (i > Len(Policies) => Steps[i] \notin PolicySet)
    /\ PolicySet \subseteq Objects
    /\ PolicySet \cap OtherNames = {}
<1>1. /\ Policies \in Seq(STRING \ OtherNames) /\ Others \in Seq(OtherNames)
      /\ Policies # <<>>
  BY PoliciesAssumption, OthersAssumption
<1>2. /\ Len(Policies) \in Nat \ {0} /\ DOMAIN Policies = 1..Len(Policies)
      /\ \A i \in 1..Len(Policies) : Policies[i] \in STRING \ OtherNames
  BY <1>1
<1>3. /\ Len(Others) \in Nat
      /\ \A i \in 1..Len(Others) : Others[i] \in OtherNames
  BY <1>1
<1>4. /\ Len(Steps) = Len(Policies) + Len(Others)
      /\ DOMAIN Steps = 1..Len(Steps)
      /\ \A i \in 1..Len(Steps) :
            Steps[i] = IF i <= Len(Policies) THEN Policies[i] ELSE Others[i - Len(Policies)]
  BY <1>1 DEF Steps
<1>5. /\ PolicySet \cap OtherNames = {}
      /\ \A i \in 1..Len(Policies) : Policies[i] \in PolicySet
  BY <1>2 DEF PolicySet
<1>6. \A i \in 1..Len(Steps) : Steps[i] \in Objects
  BY <1>4 DEF Objects
<1>7. ASSUME NEW i \in 1..Len(Steps), i > Len(Policies) PROVE Steps[i] \notin PolicySet
  <2>1. i - Len(Policies) \in 1..Len(Others)
    BY <1>2, <1>3, <1>4, <1>7
  <2>2. Steps[i] \in OtherNames
    BY <1>2, <1>3, <1>4, <1>7, <2>1
  <2> QED BY <1>5, <2>2
<1>8. \A i \in 1..Len(Policies) : Steps[i] = Policies[i]
  BY <1>2, <1>3, <1>4
<1>9. PolicySet \subseteq Objects
  BY <1>2, <1>3, <1>4, <1>6, <1>8 DEF PolicySet
<1> QED BY <1>2, <1>3, <1>4, <1>5, <1>6, <1>7, <1>8, <1>9

\* An object, as it is stored or cached; a Notebook; a running reconcile.
Values == Stored \cup {Absent}
Works == [pc: {"idle", "finalizers", "cleanup", "object", "write", "unlock"},
          at: 0..Len(Steps), inst: Notebooks, failed: BOOLEAN, seen: Values]

\* Constant records and what is made of a UID are of their types.
LEMMA ConstantTypes ==
    /\ Absent \in Values /\ NoNotebook \in Notebooks /\ IdleWork \in Works
    /\ Absent.owner = NoOwner /\ ~Absent.there /\ ~Absent.good
    /\ \A u \in Owners : /\ OwnedBy(u) \in Values /\ OwnedBy(u).owner = u
                         /\ OwnedBy(u).there /\ OwnedBy(u).good
    /\ NoOwner \in Owners /\ Other \in Owners /\ UIDs \subseteq Owners
    /\ \A u \in 0..MaxUID : u # Other
<1>1. /\ NoOwner \in Owners /\ Other \in Owners /\ UIDs \subseteq Owners
      /\ \A u \in 0..MaxUID : u # Other
  BY BoundAssumption DEF Owners, Other, NoOwner
<1>2. /\ Absent \in Values /\ Absent.owner = NoOwner /\ ~Absent.there /\ ~Absent.good
  BY DEF Absent, Values
<1>3. NoNotebook \in Notebooks
  BY BoundAssumption DEF NoNotebook, Notebooks
<1>4. \A u \in Owners : /\ OwnedBy(u) \in Values /\ OwnedBy(u).owner = u
                       /\ OwnedBy(u).there /\ OwnedBy(u).good
  BY DEF OwnedBy, Values, Stored
<1>5. IdleWork \in Works
  BY <1>2, <1>3, StepsFacts DEF IdleWork, Works
<1> QED BY <1>1, <1>2, <1>3, <1>4, <1>5

\* The parts of a Notebook, stored or cached.
LEMMA NotebookFacts ==
    ASSUME NEW n \in Notebooks
    PROVE  /\ n.uid \in 0..MaxUID /\ n.lock \in BOOLEAN
           /\ n.phase \in {"absent", "new", "active", "deleting"}
           /\ n.phase # "absent" =>
                 n \in [uid: UIDs, phase: {"new", "active", "deleting"},
                        lock: BOOLEAN, mlflow: BOOLEAN]
           /\ [NoNotebook EXCEPT !.uid = n.uid] \in Notebooks
<1>1. CASE n \in [uid: UIDs, phase: {"new", "active", "deleting"},
                  lock: BOOLEAN, mlflow: BOOLEAN]
  <2>1. n.uid \in 0..MaxUID
    BY <1>1, BoundAssumption DEF UIDs
  <2> QED BY <1>1, <2>1 DEF NoNotebook, Notebooks
<1>2. CASE n \in [uid: 0..MaxUID, phase: {"absent"}, lock: {FALSE}, mlflow: {FALSE}]
  BY <1>2 DEF NoNotebook, Notebooks
<1> QED BY <1>1, <1>2 DEF Notebooks

\* What the cache shows of a stored object: everything of a policy.
LEMMA CachedValue ==
    ASSUME NEW o \in Objects, NEW new \in Values
    PROVE  /\ Cached(o, new) \in Values
           /\ o \in PolicySet => Cached(o, new).owner = new.owner
                                 /\ Cached(o, new).good = new.good
<1>1. CASE o = "config"
  <2>1. o \notin PolicySet \cup Bindings /\ o \notin PolicySet \cup {"mlflow"}
    BY <1>1, StepsFacts DEF OtherNames, Bindings
  <2>2. Cached(o, new) = Absent
    BY <1>1, <2>1 DEF Cached, Absent
  <2> QED BY <2>1, <2>2, ConstantTypes
<1>2. CASE o # "config" /\ new = Absent
  <2>1. Cached(o, new) = Absent
    BY <1>2 DEF Cached, Absent
  <2> QED BY <1>2, <2>1, ConstantTypes
<1>3. CASE o # "config" /\ new \in Stored
  <2>1. new.there = TRUE /\ new.owner \in Owners /\ new.good \in BOOLEAN
    BY <1>3 DEF Stored
  <2>2. Cached(o, new).there = TRUE /\ Cached(o, new) \in Stored
    BY <1>3, <2>1, ConstantTypes DEF Cached, Stored
  <2>3. o \in PolicySet => Cached(o, new).owner = new.owner
                          /\ Cached(o, new).good = new.good
    BY <2>1 DEF Cached
  <2> QED BY <2>2, <2>3 DEF Values
<1> QED BY <1>1, <1>2, <1>3 DEF Values

\* A write of an object: the others stay, and a policy in order and in the
\* Notebook's possession is recorded.
LEMMA PutFacts ==
    ASSUME TypeOK, NEW o \in Objects, NEW new \in Values, Put(o, new)
    PROVE  /\ obj' \in [Objects -> Values] /\ obj'[o] = new
           /\ \A m \in Objects \ {o} : obj'[m] = obj[m]
           /\ fresh' \in SUBSET Objects /\ fresh' \subseteq fresh
           /\ o \in fresh' => new = obj[o]
           /\ pending' \in SUBSET Objects
           /\ condemned' \in SUBSET Objects /\ condemned' \subseteq condemned
           /\ o \in condemned' => new.there
           /\ confirmed' \in SUBSET PolicySet /\ confirmed \subseteq confirmed'
           /\ o \in PolicySet /\ new.owner = nb.uid /\ new.good => o \in confirmed'
<1>1. obj' = [obj EXCEPT ![o] = new] /\ obj \in [Objects -> Values]
  BY DEF Put, TypeOK, Values
<1>2. /\ fresh' = IF new = obj[o] THEN fresh ELSE fresh \ {o}
      /\ fresh \in SUBSET Objects
  BY DEF Put, TypeOK
<1>3. pending' \in SUBSET Objects
  BY DEF Put, TypeOK
<1>4. /\ condemned' = IF new.there THEN condemned ELSE condemned \ {o}
      /\ condemned \in SUBSET Objects
  BY DEF Put, TypeOK
<1>5. /\ confirmed' = IF o \in PolicySet /\ new.owner = nb.uid /\ new.good
                      THEN confirmed \cup {o} ELSE confirmed
      /\ confirmed \in SUBSET PolicySet
  BY DEF Put, TypeOK
<1> QED BY <1>1, <1>2, <1>3, <1>4, <1>5

\* Writes by anyone keep the record, if the owner is the Notebook there is, an
\* earlier one, something else, or nobody.
LEMMA PutInv ==
    ASSUME Inv, NEW o \in Objects, NEW new \in Values, Put(o, new),
           o \in PolicySet => new.owner <= nb.uid \/ new.owner = Other,
           o \in condemned \cap PolicySet /\ new.there
              => new.owner # Other \/ new.owner = obj[o].owner,
           UNCHANGED <<nb, objC>>
    PROVE  PolicyInv'
<1> SUFFICES ASSUME NEW p \in PolicySet
             PROVE  /\ obj'[p].owner <= nb.uid \/ obj'[p].owner = Other
                    /\ objC[p].owner <= nb.uid \/ objC[p].owner = Other
                    /\ obj'[p].owner = nb.uid /\ obj'[p].good => p \in confirmed'
                    /\ objC[p].owner = nb.uid /\ objC[p].good => p \in confirmed'
                    /\ p \in fresh' => objC[p].owner = obj'[p].owner
                    /\ p \in condemned' => obj'[p].there /\ obj'[p].owner # Other
  BY DEF PolicyInv
<1>1. /\ obj'[o] = new
      /\ \A m \in Objects \ {o} : obj'[m] = obj[m]
      /\ fresh' \subseteq fresh /\ (o \in fresh' => new = obj[o])
      /\ condemned' \subseteq condemned /\ (o \in condemned' => new.there)
      /\ confirmed \subseteq confirmed'
      /\ o \in PolicySet /\ new.owner = nb.uid /\ new.good => o \in confirmed'
  BY PutFacts DEF Inv
<1>2. /\ obj[p].owner <= nb.uid \/ obj[p].owner = Other
      /\ objC[p].owner <= nb.uid \/ objC[p].owner = Other
      /\ obj[p].owner = nb.uid /\ obj[p].good => p \in confirmed
      /\ objC[p].owner = nb.uid /\ objC[p].good => p \in confirmed
      /\ p \in fresh => objC[p].owner = obj[p].owner
      /\ p \in condemned => obj[p].there /\ obj[p].owner # Other
  BY DEF Inv, PolicyInv
<1>3. p \in Objects
  BY StepsFacts
<1>4. CASE p = o
  BY <1>1, <1>2, <1>4
<1>5. CASE p # o
  BY <1>1, <1>2, <1>3, <1>5
<1> QED BY <1>4, <1>5

\* Every initial state satisfies the invariant.
LEMMA InitInv == Init => Inv
<1> SUFFICES ASSUME Init PROVE Inv
  OBVIOUS
<1>1. TypeOK
  <2>1. /\ nb \in Notebooks /\ nbC \in Notebooks /\ work \in Works
        /\ obj \in [Objects -> Values] /\ objC \in [Objects -> Values]
    BY ConstantTypes DEF Init
  <2>2. /\ fresh \in SUBSET Objects /\ pending \in SUBSET Objects
        /\ condemned \in SUBSET Objects /\ roles \in SUBSET Bindings
        /\ confirmed \in SUBSET PolicySet /\ mine \in SUBSET Objects
        /\ strays \in SUBSET Objects
    BY DEF Init
  <2>3. queue \in BOOLEAN
    BY Zenon DEF Init
  <2>4. events \in 0..MaxEvents
    BY BoundAssumption DEF Init
  <2> QED BY <2>1, <2>2, <2>3, <2>4 DEF TypeOK, Works, Values
<1>2. NotebookInv /\ OneIncarnation /\ LockInv /\ LoopInv
  BY DEF Init, NotebookInv, OneIncarnation, LockInv, LoopInv, Working, NoNotebook, IdleWork
<1>3. PolicyInv
  <2>1. \A p \in PolicySet : obj[p] = Absent /\ objC[p] = Absent
    BY StepsFacts DEF Init
  <2>2. nb.uid = 0 /\ condemned = {}
    BY DEF Init, NoNotebook
  <2> QED BY <2>1, <2>2, ConstantTypes DEF PolicyInv, NoOwner
<1> QED BY <1>1, <1>2, <1>3 DEF Inv

--------------------------------------------------------------------------------
(* Steps beside the reconcile.                                             *)

\* What is not about objects survives a step that leaves the Notebook, its copy
\* and the reconcile alone.
LEMMA AsideInv ==
    ASSUME Inv, UNCHANGED <<nb, nbC, work>>,
           confirmed' \in SUBSET PolicySet, confirmed \subseteq confirmed'
    PROVE  NotebookInv' /\ OneIncarnation' /\ LockInv' /\ LoopInv'
<1> USE DEF Inv
<1>1. NotebookInv' /\ OneIncarnation'
  BY DEF NotebookInv, OneIncarnation
<1>2. confirmed = PolicySet => confirmed' = PolicySet
  OBVIOUS
<1>3. LockInv'
  BY <1>2 DEF LockInv
<1>4. LoopInv'
  BY <1>2 DEF LoopInv
<1> QED BY <1>1, <1>3, <1>4

\* A user writes an object, or the garbage collector deletes one.
LEMMA ObjectInv ==
    ASSUME Inv, NEW o \in Objects, Drift(o) \/ Remove(o) \/ Plant(o) \/ Collect(o)
    PROVE  Inv'
<1> USE DEF Inv
<1>1. obj[o] \in Values /\ nb.uid \in 0..MaxUID
  BY NotebookFacts DEF TypeOK, Values
<1>2. PICK new \in Values :
         /\ Put(o, new)
         /\ \/ UserPut(o, new)
            \/ UNCHANGED <<events, strays>> /\ mine' = mine \ {o}
         /\ new.owner \in {NoOwner, Other} \/ new.owner = obj[o].owner
         /\ o \in condemned \cap PolicySet /\ new.there
               => new.owner # Other \/ new.owner = obj[o].owner
  <2>1. CASE Drift(o)
    <3> DEFINE new == [obj[o] EXCEPT !.good = FALSE]
    <3>1. obj[o] \in Stored
      BY <1>1, <2>1, ConstantTypes DEF Drift, Values
    <3>2. new \in Values /\ new.owner = obj[o].owner
      BY <3>1 DEF Stored, Values
    <3>3. UserPut(o, new) /\ Put(o, new)
      BY <2>1 DEF Drift, UserPut
    <3> HIDE DEF new
    <3> QED BY <3>2, <3>3
  <2>2. CASE Remove(o)
    BY <2>2, ConstantTypes DEF Remove, UserPut
  <2>3. CASE Plant(o)
    <3>1. PICK w \in {NoOwner, Other}, g \in BOOLEAN :
             UserPut(o, [there |-> TRUE, owner |-> w, good |-> g])
      BY <2>3 DEF Plant
    <3> DEFINE new == [there |-> TRUE, owner |-> w, good |-> g]
    <3>2. new \in Values /\ new.owner = w
      BY ConstantTypes DEF Values, Stored
    <3>3. o \notin condemned \cap PolicySet
      BY <2>3 DEF Plant, PolicyInv
    <3>4. UserPut(o, new) /\ Put(o, new)
      BY <3>1 DEF UserPut
    <3> HIDE DEF new
    <3> QED BY <3>2, <3>3, <3>4
  <2>4. CASE Collect(o)
    BY <2>4, ConstantTypes DEF Collect
  <2> QED BY <2>1, <2>2, <2>3, <2>4
<1>3. /\ UNCHANGED <<nb, nbC, objC, roles, queue, work>>
      /\ mine' \in SUBSET Objects /\ strays' \in SUBSET Objects
      /\ events' \in 0..MaxEvents
  <2>1. UNCHANGED <<nb, nbC, objC, roles, queue, work>>
    BY DEF Drift, Remove, Plant, UserPut, Collect, copies
  <2>2. mine' \in SUBSET Objects /\ strays' \in SUBSET Objects /\ events' \in 0..MaxEvents
    BY <1>2, BoundAssumption DEF UserPut, Act, TypeOK
  <2> QED BY <2>1, <2>2
<1>4. /\ obj' \in [Objects -> Values] /\ fresh' \in SUBSET Objects
      /\ pending' \in SUBSET Objects /\ condemned' \in SUBSET Objects
      /\ confirmed' \in SUBSET PolicySet /\ confirmed \subseteq confirmed'
  BY <1>2, PutFacts
<1>5. TypeOK'
  BY <1>3, <1>4 DEF TypeOK, Values
<1>6. NotebookInv' /\ OneIncarnation' /\ LockInv' /\ LoopInv'
  BY <1>3, <1>4, AsideInv
<1>7. PolicyInv'
  <2>1. o \in PolicySet => new.owner <= nb.uid \/ new.owner = Other
    BY <1>1, <1>2 DEF PolicyInv, NoOwner
  <2> QED BY <1>2, <1>3, <2>1, PutInv
<1> QED BY <1>5, <1>6, <1>7

\* The collector looks at an object, a copy is brought up to date, a Role comes
\* or goes, or nothing happens.
LEMMA LookInv ==
    ASSUME Inv, \/ \E o \in Objects : Condemn(o) \/ SyncObject(o)
                \/ ChangeRole \/ UNCHANGED vars
    PROVE  Inv'
<1> USE DEF Inv
<1>1. UNCHANGED <<nb, nbC, obj, work, confirmed, mine, strays>>
  BY DEF Condemn, SyncObject, ChangeRole, copies, history, vars
<1>2. NotebookInv' /\ OneIncarnation' /\ LockInv' /\ LoopInv'
  BY <1>1, AsideInv DEF TypeOK
<1>3. ASSUME NEW o \in Objects, Condemn(o) PROVE TypeOK' /\ PolicyInv'
  <2>1. /\ condemned' = condemned \cup {o}
        /\ UNCHANGED <<objC, fresh, pending, roles, queue, events>>
    BY <1>3 DEF Condemn, copies, history
  <2>2. obj[o].there /\ obj[o].owner # Other
    <3>1. obj[o].owner \in UIDs /\ obj[o] \in Values
      BY <1>3 DEF Condemn, Dangling, TypeOK, Values
    <3>2. obj[o].owner # NoOwner /\ obj[o].owner # Other
      BY <3>1, BoundAssumption DEF UIDs, NoOwner, Other
    <3>3. obj[o] \in Stored
      BY <3>1, <3>2, ConstantTypes DEF Values
    <3> QED BY <3>2, <3>3 DEF Stored
  <2>3. TypeOK'
    BY <1>1, <2>1 DEF TypeOK
  <2>4. PolicyInv'
    BY <1>1, <2>1, <2>2 DEF PolicyInv
  <2> QED BY <2>3, <2>4
<1>4. ASSUME NEW o \in Objects, SyncObject(o) PROVE TypeOK' /\ PolicyInv'
  <2>1. /\ objC' = [objC EXCEPT ![o] = Cached(o, obj[o])]
        /\ fresh' = fresh \cup {o} /\ pending' = pending \ {o}
        /\ UNCHANGED <<condemned, roles, events>>
    BY <1>4 DEF SyncObject, history
  <2>2. /\ Cached(o, obj[o]) \in Values
        /\ o \in PolicySet => Cached(o, obj[o]).owner = obj[o].owner
                              /\ Cached(o, obj[o]).good = obj[o].good
    BY CachedValue DEF TypeOK, Values
  <2>3. TypeOK'
    <3>1. queue' \in BOOLEAN
      BY <1>4 DEF SyncObject
    <3>2. objC' \in [Objects -> Values]
      BY <2>1, <2>2 DEF TypeOK, Values
    <3> QED BY <1>1, <2>1, <3>1, <3>2 DEF TypeOK, Values
  <2>4. PolicyInv'
    <3> SUFFICES ASSUME NEW p \in PolicySet
                 PROVE  /\ objC'[p].owner <= nb.uid \/ objC'[p].owner = Other
                        /\ objC'[p].owner = nb.uid /\ objC'[p].good => p \in confirmed
                        /\ p \in fresh' => objC'[p].owner = obj[p].owner
      BY <1>1, <2>1 DEF PolicyInv
    <3>1. p \in Objects
      BY StepsFacts
    <3>2. CASE p = o
      <4>1. objC'[p].owner = obj[p].owner /\ objC'[p].good = obj[p].good
        BY <2>1, <2>2, <3>2 DEF TypeOK
      <4> QED BY <4>1 DEF PolicyInv
    <3>3. CASE p # o
      <4>1. objC'[p] = objC[p]
        BY <2>1, <3>1, <3>3 DEF TypeOK
      <4> QED BY <2>1, <3>3, <4>1 DEF PolicyInv
    <3> QED BY <3>2, <3>3
  <2> QED BY <2>3, <2>4
<1>5. ASSUME ChangeRole PROVE TypeOK' /\ PolicyInv'
  <2>1. /\ roles' \in SUBSET Bindings /\ events' \in 0..MaxEvents
        /\ UNCHANGED <<objC, fresh, pending, condemned, queue>>
    BY <1>5, BoundAssumption DEF ChangeRole, Act, TypeOK, copies
  <2> QED BY <1>1, <2>1 DEF TypeOK, PolicyInv
<1>6. ASSUME UNCHANGED vars PROVE TypeOK' /\ PolicyInv'
  BY <1>6 DEF vars, copies, history, TypeOK, PolicyInv
<1> QED BY <1>2, <1>3, <1>4, <1>5, <1>6

--------------------------------------------------------------------------------
(* The Notebook.                                                           *)

\* Users create, delete and annotate the Notebook; the cache follows.
LEMMA NotebookStepInv ==
    ASSUME Inv, CreateNotebook \/ DeleteNotebook \/ Annotate \/ SyncNotebook
    PROVE  Inv'
<1> USE DEF Inv
<1>1. /\ nb \in Notebooks /\ nbC \in Notebooks
      /\ nb.uid \in 0..MaxUID
      /\ nb.phase # "absent" =>
            nb \in [uid: UIDs, phase: {"new", "active", "deleting"},
                    lock: BOOLEAN, mlflow: BOOLEAN]
      /\ [NoNotebook EXCEPT !.uid = nb.uid] \in Notebooks
  BY NotebookFacts DEF TypeOK
<1>2. UNCHANGED <<obj, objC, fresh, pending, condemned, roles, work, mine, strays>>
  BY DEF CreateNotebook, DeleteNotebook, Annotate, SyncNotebook, copies, history
<1>3. CASE CreateNotebook
  <2>1. /\ nb.phase = "absent" /\ nb.uid < MaxUID
        /\ nb' = [uid |-> nb.uid + 1, phase |-> "new", lock |-> TRUE,
                  mlflow |-> "mlflow" \in Objects]
        /\ confirmed' = {} /\ UNCHANGED <<nbC, queue, events>>
    BY <1>3 DEF CreateNotebook, copies
  <2>2. nb' \in Notebooks
    <3>1. nb.uid + 1 \in UIDs
      BY <1>1, <2>1, BoundAssumption DEF UIDs
    <3>2. ("mlflow" \in Objects) \in BOOLEAN
      OBVIOUS
    <3> QED BY <2>1, <3>1, <3>2 DEF Notebooks
  <2>3. TypeOK'
    BY <1>2, <2>1, <2>2 DEF TypeOK
  <2>4. NotebookInv' /\ OneIncarnation' /\ LockInv' /\ LoopInv'
    BY <1>2, <2>1 DEF NotebookInv, OneIncarnation, LockInv, LoopInv, Working
  <2>5. PolicyInv'
    <3> SUFFICES ASSUME NEW p \in PolicySet
                 PROVE  /\ obj[p].owner <= nb.uid + 1 \/ obj[p].owner = Other
                        /\ objC[p].owner <= nb.uid + 1 \/ objC[p].owner = Other
                        /\ obj[p].owner # nb.uid + 1 /\ objC[p].owner # nb.uid + 1
      BY <1>2, <2>1 DEF PolicyInv
    <3>1. /\ obj[p].owner <= nb.uid \/ obj[p].owner = Other
          /\ objC[p].owner <= nb.uid \/ objC[p].owner = Other
      BY DEF PolicyInv
    <3>2. obj[p] \in Values /\ objC[p] \in Values
      BY StepsFacts DEF TypeOK, Values
    <3>3. obj[p].owner \in Owners /\ objC[p].owner \in Owners
      BY <3>2, ConstantTypes DEF Values, Stored
    <3>4. obj[p].owner \in Nat /\ objC[p].owner \in Nat
      BY <3>3, BoundAssumption DEF Owners, UIDs, NoOwner, Other
    <3> QED BY <1>1, <2>1, <3>1, <3>4, BoundAssumption DEF Other
  <2> QED BY <2>3, <2>4, <2>5
<1>4. CASE DeleteNotebook
  <2>1. /\ nb.phase \in {"new", "active"}
        /\ nb' = IF nb.phase = "new" THEN [NoNotebook EXCEPT !.uid = nb.uid]
                 ELSE [nb EXCEPT !.phase = "deleting"]
        /\ UNCHANGED <<nbC, queue, confirmed>> /\ events' \in 0..MaxEvents
    BY <1>4, BoundAssumption DEF DeleteNotebook, Act, TypeOK, copies
  <2>2. /\ nb' \in Notebooks /\ nb'.uid = nb.uid
        /\ nb.phase = "new" => nb'.phase = "absent"
        /\ nb.phase = "active" => nb'.phase = "deleting"
        /\ nb'.phase # "absent" => nb'.lock = nb.lock
    BY <1>1, <2>1 DEF NoNotebook, Notebooks
  <2>3. TypeOK'
    BY <1>2, <2>1, <2>2 DEF TypeOK
  <2>4. NotebookInv' /\ OneIncarnation' /\ LockInv' /\ LoopInv'
    BY <1>2, <2>1, <2>2 DEF NotebookInv, OneIncarnation, LockInv, LoopInv, Working
  <2>5. PolicyInv'
    BY <1>2, <2>1, <2>2 DEF PolicyInv
  <2> QED BY <2>3, <2>4, <2>5
<1>5. CASE Annotate
  <2>1. /\ nb.phase \in {"new", "active"}
        /\ nb' = [nb EXCEPT !.mlflow = ~@]
        /\ UNCHANGED <<nbC, queue, confirmed>> /\ events' \in 0..MaxEvents
    BY <1>5, BoundAssumption DEF Annotate, Act, TypeOK, copies
  <2>2. /\ nb' \in Notebooks /\ nb'.uid = nb.uid /\ nb'.phase = nb.phase
        /\ nb'.lock = nb.lock
    BY <1>1, <2>1 DEF Notebooks
  <2>3. TypeOK'
    BY <1>2, <2>1, <2>2 DEF TypeOK
  <2>4. NotebookInv' /\ OneIncarnation' /\ LockInv' /\ LoopInv'
    BY <1>2, <2>1, <2>2 DEF NotebookInv, OneIncarnation, LockInv, LoopInv, Working
  <2>5. PolicyInv'
    BY <1>2, <2>1, <2>2 DEF PolicyInv
  <2> QED BY <2>3, <2>4, <2>5
<1>6. CASE SyncNotebook
  <2>1. nbC' = nb /\ queue' = TRUE /\ UNCHANGED <<nb, events, confirmed>>
    BY <1>6 DEF SyncNotebook, history
  <2>2. queue' \in BOOLEAN
    BY <2>1, Zenon
  <2>3. TypeOK'
    BY <1>1, <1>2, <2>1, <2>2 DEF TypeOK
  <2>4. NotebookInv' /\ OneIncarnation' /\ LockInv' /\ LoopInv'
    BY <1>2, <2>1 DEF NotebookInv, OneIncarnation, LockInv, LoopInv, Working
  <2>5. PolicyInv'
    BY <1>2, <2>1 DEF PolicyInv
  <2> QED BY <2>3, <2>4, <2>5
<1> QED BY <1>3, <1>4, <1>5, <1>6

\* Finalizers are added and removed, the lock is removed: the reconcile ends.
LEMMA UpdateInv ==
    ASSUME Inv, AddFinalizers \/ RemoveFinalizers \/ RemoveLock
    PROVE  Inv'
<1> USE DEF Inv
<1>1. /\ nb \in Notebooks /\ nbC \in Notebooks
      /\ nb.phase \in {"absent", "new", "active", "deleting"}
      /\ nb.phase # "absent" =>
            nb \in [uid: UIDs, phase: {"new", "active", "deleting"},
                    lock: BOOLEAN, mlflow: BOOLEAN]
      /\ [NoNotebook EXCEPT !.uid = nb.uid] \in Notebooks
  BY NotebookFacts DEF TypeOK
<1>2. /\ UNCHANGED <<nbC, obj, objC, fresh, pending, condemned, roles, events,
                     confirmed, mine, strays>>
      /\ work' = IdleWork
  BY DEF AddFinalizers, RemoveFinalizers, RemoveLock, UpdateNotebook, Return,
         copies, history
<1>3. queue' \in BOOLEAN
  BY DEF AddFinalizers, RemoveFinalizers, RemoveLock, UpdateNotebook, Return, TypeOK
<1>4. work'.pc = "idle"
  BY <1>2 DEF IdleWork
<1>5. /\ nb' \in Notebooks /\ nb'.uid = nb.uid
      /\ nb'.phase # "absent" => nb.phase # "absent"
      /\ nb'.phase # "absent" /\ nb'.lock # nb.lock => confirmed = PolicySet
      /\ nb'.phase = nb.phase \/ (nb.phase = "new" /\ nb'.phase = "active" /\ nbC = nb)
         \/ (nb'.phase = "absent" /\ nbC.phase # "active")
  <2>1. CASE AddFinalizers
    <3>1. \/ nb' = nb
          \/ /\ nbC = nb /\ nb.phase # "absent"
             /\ nb' = [nb EXCEPT !.phase = IF @ = "new" THEN "active" ELSE @]
      BY <2>1 DEF AddFinalizers, UpdateNotebook
    <3> QED BY <1>1, <3>1 DEF Notebooks
  <2>2. CASE RemoveFinalizers
    <3>1. /\ nb.phase # "active" /\ nbC.phase # "active"
      BY <2>2 DEF RemoveFinalizers, NotebookInv
    <3>2. \/ nb' = nb
          \/ /\ nbC = nb /\ nb.phase # "absent" /\ nb.phase # "new"
             /\ nb' = IF nb.phase = "deleting" THEN [NoNotebook EXCEPT !.uid = nb.uid]
                      ELSE [nb EXCEPT !.phase = "new"]
      BY <2>2 DEF RemoveFinalizers, UpdateNotebook
    <3>3. \/ nb' = nb
          \/ nb.phase # "absent" /\ nb' = [NoNotebook EXCEPT !.uid = nb.uid]
      BY <1>1, <3>1, <3>2
    <3> QED BY <1>1, <3>1, <3>3 DEF NoNotebook
  <2>3. CASE RemoveLock
    <3>1. confirmed = PolicySet
      BY <2>3 DEF RemoveLock, LoopInv, Working
    <3>2. nb' = nb \/ (nb.phase # "absent" /\ nb' = [nb EXCEPT !.lock = FALSE])
      BY <2>3 DEF RemoveLock
    <3> QED BY <1>1, <3>1, <3>2 DEF Notebooks
  <2> QED BY <2>1, <2>2, <2>3
<1>6. TypeOK'
  BY <1>2, <1>3, <1>5, ConstantTypes DEF TypeOK, Works, Values
<1>7. NotebookInv' /\ OneIncarnation' /\ LockInv' /\ LoopInv'
  BY <1>2, <1>4, <1>5 DEF NotebookInv, OneIncarnation, LockInv, LoopInv, Working
<1>8. PolicyInv'
  BY <1>2, <1>5 DEF PolicyInv
<1> QED BY <1>6, <1>7, <1>8

--------------------------------------------------------------------------------
(* The reconcile.                                                          *)

\* A reconcile begins with the copy of the Notebook; with the finalizers on that,
\* it is the Notebook that is stored.
LEMMA StartInv ==
    ASSUME Inv, StartReconcile
    PROVE  Inv'
<1> USE DEF Inv
<1>1. /\ UNCHANGED <<nb, nbC, obj, objC, fresh, pending, condemned, roles, events,
                     confirmed, mine, strays>>
      /\ queue' = FALSE
  BY DEF StartReconcile, copies, history
<1>2. nbC \in Notebooks /\ nbC.phase \in {"absent", "new", "active", "deleting"}
  BY NotebookFacts DEF TypeOK
<1>3. \/ work' = IdleWork
      \/ \E pc \in {"finalizers", "cleanup", "object"} :
            /\ work' = [IdleWork EXCEPT !.inst = nbC,
                          !.at = IF nbC.phase = "active" THEN 1 ELSE 0, !.pc = pc]
            /\ pc = "cleanup" => nbC.phase = "deleting"
            /\ pc = "object" => nbC.phase = "active"
  <2> DEFINE start(pc) == [IdleWork EXCEPT !.inst = nbC,
                             !.at = IF nbC.phase = "active" THEN 1 ELSE 0, !.pc = pc]
  <2>1. CASE nbC.phase = "absent"
    BY <2>1 DEF StartReconcile
  <2>2. CASE nbC.phase = "deleting"
    <3>1. nbC.phase # "absent" /\ nbC.phase # "new"
      BY <2>2
    <3>2. work' = start("cleanup")
      BY <2>2, <3>1, Zenon DEF StartReconcile
    <3> QED BY <2>2, <3>2
  <2>3. CASE nbC.phase = "new"
    <3>1. nbC.phase # "absent" /\ nbC.phase # "deleting"
      BY <2>3
    <3>2. work' = start("finalizers")
      BY <2>3, <3>1, Zenon DEF StartReconcile
    <3> QED BY <2>3, <3>2
  <2>4. CASE nbC.phase = "active"
    <3>1. nbC.phase # "absent" /\ nbC.phase # "deleting" /\ nbC.phase # "new"
      BY <2>4
    <3>2. work' = start("object")
      BY <3>1, Zenon DEF StartReconcile
    <3> QED BY <2>4, <3>2
  <2> QED BY <1>2, <2>1, <2>2, <2>3, <2>4
<1>4. /\ work' \in Works
      /\ work'.pc \in {"idle", "finalizers", "cleanup", "object"}
      /\ work'.pc = "cleanup" => nbC.phase = "deleting"
      /\ work'.pc = "object" => nbC.phase = "active" /\ work'.inst = nbC /\ work'.at = 1
  <2>1. CASE work' = IdleWork
    BY <2>1, ConstantTypes DEF IdleWork
  <2>2. ASSUME NEW pc \in {"finalizers", "cleanup", "object"}, NEW n \in {0, 1},
               work' = [IdleWork EXCEPT !.inst = nbC, !.at = n, !.pc = pc]
        PROVE  /\ work' \in Works /\ work'.pc = pc
               /\ work'.inst = nbC /\ work'.at = n
    <3>1. n \in 0..Len(Steps)
      BY StepsFacts
    <3> HIDE DEF Inv
    <3>2. work' = [pc |-> pc, at |-> n, inst |-> nbC, failed |-> FALSE, seen |-> Absent]
      BY <2>2 DEF IdleWork
    <3> QED BY <1>2, <3>1, <3>2, ConstantTypes DEF Works
  <2> QED BY <1>3, <2>1, <2>2
<1>5. TypeOK'
  <2>1. queue' \in BOOLEAN
    BY <1>1, Zenon
  <2> QED BY <1>1, <1>4, <2>1 DEF TypeOK, Works, Values
<1>6. NotebookInv' /\ OneIncarnation' /\ LockInv'
  BY <1>1, <1>4 DEF NotebookInv, OneIncarnation, LockInv
<1>7. LoopInv'
  BY <1>1, <1>4, StepsFacts DEF LoopInv, Working
<1>8. PolicyInv'
  BY <1>1 DEF PolicyInv
<1> QED BY <1>5, <1>6, <1>7, <1>8

\* What a reconcile may write: a policy only in the name of the Notebook stored.
Writes ==
    \/ NoWrite
    \/ \E o \in Objects, new \in Values :
          /\ Put(o, new) /\ mine' \in SUBSET Objects
          /\ o \in PolicySet => new.owner = nb.uid

\* Such a write keeps what is said of the objects, and only adds to the record.
LEMMA WriteInv ==
    ASSUME Inv, Writes, UNCHANGED <<nb, nbC, objC, roles>>,
           events' \in 0..MaxEvents, strays' \in SUBSET Objects,
           work' \in Works, queue' \in BOOLEAN
    PROVE  /\ TypeOK' /\ PolicyInv'
           /\ confirmed' \in SUBSET PolicySet /\ confirmed \subseteq confirmed'
<1> USE DEF Inv
<1>1. CASE NoWrite
  <2>1. UNCHANGED <<obj, fresh, pending, condemned, confirmed, mine>>
    BY <1>1 DEF NoWrite
  <2> QED BY <2>1 DEF TypeOK, PolicyInv, Works, Values
<1>2. ASSUME NEW o \in Objects, NEW new \in Values,
             Put(o, new), mine' \in SUBSET Objects,
             o \in PolicySet => new.owner = nb.uid
      PROVE  /\ TypeOK' /\ PolicyInv'
             /\ confirmed' \in SUBSET PolicySet /\ confirmed \subseteq confirmed'
  <2>1. /\ obj' \in [Objects -> Values] /\ fresh' \in SUBSET Objects
        /\ pending' \in SUBSET Objects /\ condemned' \in SUBSET Objects
        /\ confirmed' \in SUBSET PolicySet /\ confirmed \subseteq confirmed'
    BY <1>2, PutFacts
  <2>2. TypeOK'
    BY <1>2, <2>1 DEF TypeOK, Works, Values
  <2>3. nb.uid <= nb.uid /\ nb.uid # Other
    <3>1. nb.uid \in 0..MaxUID
      BY NotebookFacts DEF TypeOK
    <3> QED BY <3>1, ConstantTypes
  <2>4. PolicyInv'
    BY <1>2, <2>3, PutInv
  <2> QED BY <2>1, <2>2, <2>4
<1> QED BY <1>1, <1>2 DEF Writes

\* A reconcile ends.
LEMMA EndInv ==
    ASSUME Inv, UNCHANGED <<nb, nbC>>, work' = IdleWork,
           confirmed' \in SUBSET PolicySet, confirmed \subseteq confirmed'
    PROVE  NotebookInv' /\ OneIncarnation' /\ LockInv' /\ LoopInv'
<1>1. work'.pc = "idle"
  BY DEF IdleWork
<1>2. confirmed = PolicySet => confirmed' = PolicySet
  OBVIOUS
<1> QED BY <1>1, <1>2 DEF Inv, NotebookInv, OneIncarnation, LockInv, LoopInv, Working

\* The reconcile goes on: from a policy without an error only if it has been
\* confirmed, and from the last one only without an error.
LEMMA OnwardInv ==
    ASSUME Inv, work.pc \in Working, NEW failed \in BOOLEAN, Onward(failed),
           UNCHANGED <<nb, nbC>>,
           confirmed' \in SUBSET PolicySet, confirmed \subseteq confirmed',
           work.at <= Len(Policies) /\ ~failed =>
              ~work.failed /\ Policies[work.at] \in confirmed',
           work.at >= Len(Policies) => ~failed
    PROVE  NotebookInv' /\ OneIncarnation' /\ LockInv' /\ LoopInv'
<1> USE DEF Inv
<1>1. /\ work \in Works /\ work.at \in 1..Len(Steps)
      /\ ~work.failed =>
            \A i \in DOMAIN Policies : i < work.at => Policies[i] \in confirmed
      /\ work.at > Len(Policies) => ~work.failed
  BY DEF TypeOK, Works, Values, LoopInv
<1>2. /\ work'.inst = work.inst
      /\ \/ /\ work.at < Len(Steps) /\ work'.pc = "object"
            /\ work'.at = work.at + 1 /\ work'.failed = failed
         \/ /\ work.at = Len(Steps) /\ work'.pc = "unlock"
            /\ work'.at = work.at /\ work'.failed = work.failed
  BY <1>1, StepsFacts DEF Onward, Works
<1>3. confirmed = PolicySet => confirmed' = PolicySet
  OBVIOUS
<1>4. NotebookInv' /\ OneIncarnation' /\ LockInv'
  BY <1>2, <1>3 DEF NotebookInv, OneIncarnation, LockInv, Working
<1>5. LoopInv'
  <2>1. CASE work.at < Len(Steps)
    <3>1. work'.pc = "object" /\ work'.at = work.at + 1 /\ work'.failed = failed
      BY <1>1, <1>2, <2>1
    <3>2. work'.at \in 1..Len(Steps)
      BY <1>1, <2>1, <3>1, StepsFacts
    <3>3. work'.at > Len(Policies) => ~failed
      BY <1>1, <3>1, StepsFacts
    <3>4. ASSUME ~failed, NEW i \in DOMAIN Policies, i < work'.at
          PROVE  Policies[i] \in confirmed'
      <4>1. ~work.failed
        BY <1>1, <3>4, StepsFacts
      <4>2. CASE i < work.at
        BY <1>1, <4>1, <4>2
      <4>3. CASE i = work.at
        BY <3>4, <4>3, StepsFacts
      <4> QED BY <1>1, <3>1, <3>4, <4>2, <4>3, StepsFacts
    <3> QED BY <3>1, <3>2, <3>3, <3>4 DEF LoopInv
  <2>2. CASE work.at = Len(Steps)
    <3>1. work'.pc = "unlock" /\ work'.at = work.at /\ work'.failed = work.failed
      BY <1>1, <1>2, <2>2
    <3>2. ~work.failed
      BY <1>1, <2>2, StepsFacts
    <3>3. ASSUME NEW i \in DOMAIN Policies PROVE Policies[i] \in confirmed'
      <4>1. CASE i < work.at
        BY <1>1, <3>2, <4>1
      <4>2. CASE i = work.at
        BY <2>2, <4>2, StepsFacts
      <4> QED BY <1>1, <2>2, <4>1, <4>2, StepsFacts
    <3>4. confirmed' = PolicySet
      BY <3>3 DEF PolicySet
    <3> QED BY <1>1, <3>1, <3>2, <3>3, <3>4 DEF LoopInv
  <2> QED BY <1>1, <2>1, <2>2, StepsFacts
<1> QED BY <1>4, <1>5

\* Both ways on keep the types.
LEMMA OnTypes ==
    ASSUME TypeOK, NEW b \in BOOLEAN, Return(b) \/ Onward(b)
    PROVE  work' \in Works /\ queue' \in BOOLEAN
<1>1. work \in Works /\ queue \in BOOLEAN
  BY DEF TypeOK, Works, Values
<1>2. CASE Return(b)
  BY <1>1, <1>2, ConstantTypes DEF Return
<1>3. CASE Onward(b)
  <2>1. work.at < Len(Steps) => work.at + 1 \in 0..Len(Steps)
    BY <1>1, StepsFacts DEF Works
  <2> QED BY <1>1, <1>3, <2>1, ConstantTypes DEF Onward, Works
<1> QED BY <1>2, <1>3

\* A policy has been tried; it counts as reconciled only if it is confirmed.
LEMMA AfterPolicyInv ==
    ASSUME Inv, NEW p \in PolicySet, AtObject(p), NEW ok \in BOOLEAN,
           Writes, AfterPolicy(p, ok), ok => p \in confirmed',
           UNCHANGED <<nb, nbC, objC, roles>>,
           events' \in 0..MaxEvents, strays' \in SUBSET Objects
    PROVE  Inv'
<1> USE DEF Inv
<1>1. /\ work.pc = "object" /\ work.pc \in Working
      /\ work.failed \in BOOLEAN /\ work.at \in 1..Len(Steps)
  BY DEF AtObject, TypeOK, LoopInv, Working
<1>2. work.at <= Len(Policies) /\ Policies[work.at] = p
  BY <1>1, StepsFacts DEF AtObject
<1>3. \/ Return(TRUE)
      \/ Onward(work.failed \/ ~ok) /\ ~(p = Policies[Len(Policies)] /\ (work.failed \/ ~ok))
  BY DEF AfterPolicy
<1>4. (work.failed \/ ~ok) \in BOOLEAN
  BY <1>1
<1>5. work' \in Works /\ queue' \in BOOLEAN
  BY <1>3, <1>4, OnTypes
<1>6. /\ TypeOK' /\ PolicyInv'
      /\ confirmed' \in SUBSET PolicySet /\ confirmed \subseteq confirmed'
  BY <1>5, WriteInv
<1>7. CASE Return(TRUE)
  BY <1>6, <1>7, EndInv DEF Return
<1>8. CASE Onward(work.failed \/ ~ok)
           /\ ~(p = Policies[Len(Policies)] /\ (work.failed \/ ~ok))
  <2> DEFINE failed == work.failed \/ ~ok
  <2>1. /\ failed \in BOOLEAN /\ Onward(failed)
        /\ ~failed => ~work.failed /\ Policies[work.at] \in confirmed'
    BY <1>2, <1>4, <1>8
  <2>2. work.at >= Len(Policies) => ~failed
    BY <1>1, <1>2, <1>8, StepsFacts
  <2> HIDE DEF failed
  <2>3. NotebookInv' /\ OneIncarnation' /\ LockInv' /\ LoopInv'
    BY <1>1, <1>6, <2>1, <2>2, OnwardInv
  <2> QED BY <1>6, <2>3
<1> QED BY <1>3, <1>7, <1>8

\* An object that is not a policy has been tried.
LEMMA AfterOtherInv ==
    ASSUME Inv, work.pc \in {"object", "write"}, work.at > Len(Policies),
           Writes, Return(TRUE) \/ Onward(FALSE),
           UNCHANGED <<nb, nbC, objC, roles>>,
           events' \in 0..MaxEvents, strays' \in SUBSET Objects
    PROVE  Inv'
<1> USE DEF Inv
<1>1. work.pc \in Working /\ work.at \in 1..Len(Steps)
  BY DEF LoopInv, Working
<1>2. work' \in Works /\ queue' \in BOOLEAN
  BY OnTypes
<1>3. /\ TypeOK' /\ PolicyInv'
      /\ confirmed' \in SUBSET PolicySet /\ confirmed \subseteq confirmed'
  BY <1>2, WriteInv
<1>4. CASE Return(TRUE)
  BY <1>3, <1>4, EndInv DEF Return
<1>5. CASE Onward(FALSE)
  <2>1. ~(work.at <= Len(Policies))
    BY <1>1, StepsFacts
  <2>2. NotebookInv' /\ OneIncarnation' /\ LockInv' /\ LoopInv'
    BY <1>1, <1>3, <1>5, <2>1, OnwardInv
  <2> QED BY <1>3, <2>2
<1> QED BY <1>4, <1>5

\* Where the loop stands at an object that is not a policy.
LEMMA AtOther ==
    ASSUME Inv, NEW o \in OtherNames, AtObject(o)
    PROVE  work.pc = "object" /\ work.at > Len(Policies) /\ o \in Objects \ PolicySet
<1>1. work.pc = "object" /\ work.at \in 1..Len(Steps) /\ Steps[work.at] = o
  BY DEF Inv, LoopInv, Working, AtObject
<1>2. o \notin PolicySet
  BY StepsFacts
<1> QED BY <1>1, <1>2, StepsFacts

\* What is made in the name of the Notebook of a reconcile is a write of it.
LEMMA CreateWrites ==
    ASSUME Inv, work.pc \in Working, NEW o \in Objects,
           Put(o, OwnedBy(work.inst.uid)), mine' = mine \cup {o}
    PROVE  Writes /\ (o \in PolicySet => o \in confirmed')
<1> USE DEF Inv
<1>1. nb.uid = work.inst.uid /\ nb.phase # "absent"
  BY DEF OneIncarnation, Working
<1>2. nb.uid \in Owners
  BY <1>1, NotebookFacts, ConstantTypes DEF TypeOK
<1>3. /\ OwnedBy(nb.uid) \in Values /\ OwnedBy(nb.uid).owner = nb.uid
      /\ OwnedBy(nb.uid).good
  BY <1>2, ConstantTypes
<1>4. mine' \in SUBSET Objects
  BY DEF TypeOK
<1> QED BY <1>1, <1>3, <1>4, PutFacts DEF Writes

\* One policy: what is reported as done has been written, or was found in order
\* in a copy.
LEMMA ReconcilePolicyInv ==
    ASSUME Inv, ReconcileNetworkPolicy
    PROVE  Inv'
<1> USE DEF Inv
<1>1. PICK p \in PolicySet, ok \in BOOLEAN :
         /\ AtObject(p) /\ reconcileNetworkPolicy(p, ok) /\ AfterPolicy(p, ok)
         /\ UNCHANGED <<nb, nbC, objC, roles, events, strays>>
  BY DEF ReconcileNetworkPolicy, copies
<1>2. /\ work.pc \in Working /\ nb.uid = work.inst.uid /\ p \in Objects
      /\ confirmed \in SUBSET PolicySet
  BY <1>1, StepsFacts DEF AtObject, Working, OneIncarnation, TypeOK
<1>3. \/ Put(p, OwnedBy(work.inst.uid)) /\ mine' = mine \cup {p}
      \/ NoWrite /\ (ok => objC[p].owner = work.inst.uid /\ objC[p].good)
  BY <1>1 DEF reconcileNetworkPolicy, reconcileExistingNetworkPolicy, Create,
              PolicyUpToDate
<1>4. Writes /\ (ok => p \in confirmed')
  <2>1. CASE Put(p, OwnedBy(work.inst.uid)) /\ mine' = mine \cup {p}
    BY <1>2, <2>1, CreateWrites
  <2>2. CASE NoWrite /\ (ok => objC[p].owner = work.inst.uid /\ objC[p].good)
    BY <1>2, <2>2 DEF Writes, NoWrite, PolicyInv
  <2> QED BY <1>3, <2>1, <2>2
<1>5. events' \in 0..MaxEvents /\ strays' \in SUBSET Objects
  BY <1>1 DEF TypeOK
<1> QED BY <1>1, <1>4, <1>5, AfterPolicyInv

\* The other objects.
LEMMA ReconcileOtherInv ==
    ASSUME Inv, \/ ReconcileRoleBindings \/ ReconcileCreated
                \/ WriteConfigMap \/ ReconcileMLflowIntegration
    PROVE  Inv'
<1> USE DEF Inv
<1>1. UNCHANGED <<nb, nbC, objC, roles, events>>
  BY DEF ReconcileRoleBindings, ReconcileCreated, WriteConfigMap,
         ReconcileMLflowIntegration, copies
<1>2. /\ events' \in 0..MaxEvents /\ mine \in SUBSET Objects /\ strays \in SUBSET Objects
      /\ obj \in [Objects -> Values]
  BY <1>1 DEF TypeOK, Values
<1>3. ASSUME NEW o \in Objects \ PolicySet, NEW new \in Values,
             Put(o, new), mine' = mine \/ mine' = mine \ {o}
      PROVE  Writes
  BY <1>2, <1>3 DEF Writes
<1>4. ASSUME NEW o \in Objects, Create(o), work.pc \in Working PROVE Writes
  BY <1>4, CreateWrites DEF Create
<1>5. NoWrite => Writes
  BY DEF Writes
<1>6. CASE ReconcileRoleBindings
  <2>1. work.pc = "object" /\ work.at > Len(Policies) /\ "pipeline" \in Objects \ PolicySet
    BY <1>6, AtOther DEF ReconcileRoleBindings, OtherNames
  <2>2. OwnedBy(NoOwner) \in Values
    BY ConstantTypes
  <2>3. /\ \/ NoWrite \/ Create("pipeline")
           \/ Put("pipeline", OwnedBy(NoOwner)) /\ mine' = mine
        /\ Return(TRUE) \/ Onward(FALSE)
        /\ strays' = strays \/ strays' = strays \cup {"pipeline"}
    BY <1>6 DEF ReconcileRoleBindings
  <2>4. Writes
    BY <1>3, <1>4, <1>5, <2>1, <2>2, <2>3 DEF Working
  <2> QED BY <1>1, <1>2, <2>1, <2>3, <2>4, AfterOtherInv
<1>7. CASE ReconcileCreated
  <2>1. PICK o \in {"account", "service"} :
           AtObject(o) /\ CreateIfMissing(o) /\ Onward(FALSE) /\ UNCHANGED strays
    BY <1>7 DEF ReconcileCreated
  <2>2. work.pc = "object" /\ work.at > Len(Policies) /\ o \in Objects \ PolicySet
    BY <2>1, AtOther DEF OtherNames
  <2>3. Writes
    BY <1>4, <1>5, <2>1, <2>2 DEF CreateIfMissing, Working
  <2> QED BY <1>1, <1>2, <2>1, <2>2, <2>3, AfterOtherInv
<1>8. CASE WriteConfigMap
  <2>1. /\ work.pc = "write"
        /\ Return(TRUE) \/ Onward(FALSE)
        /\ UNCHANGED strays
        /\ \/ NoWrite \/ Create("config")
           \/ /\ work.seen.there /\ obj["config"] = work.seen
              /\ Put("config", [obj["config"] EXCEPT !.good = TRUE])
              /\ mine' = mine
    BY <1>8 DEF WriteConfigMap
  <2>2. work.at > Len(Policies) /\ work.pc \in Working
    BY <2>1 DEF LoopInv, Working
  <2>3. "config" \in Objects \ PolicySet
    <3>1. work.at \in 1..Len(Steps) /\ Steps[work.at] = "config"
      BY <2>1 DEF LoopInv, Working
    <3> QED BY <3>1, StepsFacts DEF OtherNames
  <2>4. Writes
    <3>1. CASE /\ work.seen.there /\ obj["config"] = work.seen
               /\ Put("config", [obj["config"] EXCEPT !.good = TRUE])
               /\ mine' = mine
      <4> DEFINE new == [obj["config"] EXCEPT !.good = TRUE]
      <4>1. obj["config"] \in Stored
        BY <1>2, <2>3, <3>1, ConstantTypes DEF Values
      <4>2. new \in Values
        BY <4>1 DEF Values, Stored
      <4>3. Put("config", new)
        BY <3>1
      <4> HIDE DEF new
      <4> QED BY <1>3, <2>3, <3>1, <4>2, <4>3
    <3> QED BY <1>4, <1>5, <2>1, <2>2, <2>3, <3>1
  <2> QED BY <1>1, <1>2, <2>1, <2>2, <2>4, AfterOtherInv
<1>9. CASE ReconcileMLflowIntegration
  <2>1. work.pc = "object" /\ work.at > Len(Policies) /\ "mlflow" \in Objects \ PolicySet
    BY <1>9, AtOther DEF ReconcileMLflowIntegration, OtherNames
  <2>2. Absent \in Values
    BY ConstantTypes
  <2>3. /\ \/ NoWrite \/ Create("mlflow")
           \/ Put("mlflow", Absent) /\ mine' = mine \ {"mlflow"}
        /\ Return(TRUE) \/ Onward(FALSE)
        /\ UNCHANGED strays
    BY <1>9 DEF ReconcileMLflowIntegration, RequeueAfter, Create
  <2>4. Writes
    BY <1>3, <1>4, <1>5, <2>1, <2>2, <2>3 DEF Working
  <2> QED BY <1>1, <1>2, <2>1, <2>3, <2>4, AfterOtherInv
<1> QED BY <1>6, <1>7, <1>8, <1>9

\* The ConfigMap is read.
LEMMA ReadInv ==
    ASSUME Inv, ReadConfigMap
    PROVE  Inv'
<1> USE DEF Inv
<1>1. /\ work' = [work EXCEPT !.pc = "write", !.seen = obj["config"]]
      /\ UNCHANGED <<nb, nbC, obj, objC, fresh, pending, condemned, roles, queue,
                     events, confirmed, mine, strays>>
  BY DEF ReadConfigMap, copies, history
<1>2. /\ work.pc = "object" /\ work.at > Len(Policies) /\ "config" \in Objects \ PolicySet
      /\ Steps[work.at] = "config"
  BY AtOther DEF ReadConfigMap, AtObject, OtherNames
<1>3. work \in Works /\ obj["config"] \in Values
  BY <1>2 DEF TypeOK, Works, Values
<1>4. /\ work' \in Works /\ work'.pc = "write" /\ work'.at = work.at
      /\ work'.inst = work.inst /\ work'.failed = work.failed
  BY <1>1, <1>3 DEF Works
<1>5. TypeOK'
  BY <1>1, <1>4 DEF TypeOK, Works, Values
<1>6. NotebookInv' /\ OneIncarnation' /\ LockInv'
  BY <1>1, <1>2, <1>4 DEF NotebookInv, OneIncarnation, LockInv
<1>7. LoopInv'
  BY <1>1, <1>2, <1>4 DEF LoopInv, Working
<1>8. PolicyInv'
  BY <1>1 DEF PolicyInv
<1> QED BY <1>5, <1>6, <1>7, <1>8

\* A call fails.
LEMMA CallFailsInv ==
    ASSUME Inv, CallFails
    PROVE  Inv'
<1> USE DEF Inv
<1>1. /\ UNCHANGED <<nb, nbC, obj, objC, fresh, pending, condemned, roles, confirmed,
                     mine, strays>>
      /\ events' \in 0..MaxEvents /\ strays' \in SUBSET Objects
  BY BoundAssumption DEF CallFails, Act, copies, TypeOK
<1>2. Writes
  BY <1>1 DEF Writes, NoWrite
<1>3. CASE work.pc = "object" /\ Steps[work.at] \in PolicySet
  <2>1. AfterPolicy(Steps[work.at], FALSE) /\ AtObject(Steps[work.at])
    BY <1>3 DEF CallFails, AtObject
  <2> QED BY <1>1, <1>2, <1>3, <2>1, AfterPolicyInv
<1>4. CASE Return(TRUE)
  <2>1. work' \in Works /\ queue' \in BOOLEAN
    BY <1>4, OnTypes
  <2>2. /\ TypeOK' /\ PolicyInv'
        /\ confirmed' \in SUBSET PolicySet /\ confirmed \subseteq confirmed'
    BY <1>1, <1>2, <2>1, WriteInv
  <2> QED BY <1>1, <1>4, <2>2, EndInv DEF Return
<1> QED BY <1>3, <1>4 DEF CallFails

\* The process is restarted.
LEMMA RestartInv ==
    ASSUME Inv, Restart
    PROVE  Inv'
<1> USE DEF Inv
<1>1. /\ nbC' = nb /\ objC' = [o \in Objects |-> Cached(o, obj[o])]
      /\ fresh' = Objects /\ pending' = {} /\ queue' = TRUE /\ work' = IdleWork
      /\ UNCHANGED <<nb, obj, condemned, roles, confirmed, mine, strays>>
      /\ events' \in 0..MaxEvents
  BY BoundAssumption DEF Restart, Act, TypeOK
<1>2. \A o \in Objects :
         /\ Cached(o, obj[o]) \in Values
         /\ o \in PolicySet => Cached(o, obj[o]).owner = obj[o].owner
                               /\ Cached(o, obj[o]).good = obj[o].good
  BY CachedValue DEF TypeOK, Values
<1>3. TypeOK'
  <2>1. queue' \in BOOLEAN
    BY <1>1, Zenon
  <2>2. objC' \in [Objects -> Values]
    BY <1>1, <1>2
  <2> QED BY <1>1, <2>1, <2>2, ConstantTypes DEF TypeOK, Works, Values
<1>4. NotebookInv' /\ OneIncarnation' /\ LockInv' /\ LoopInv'
  <2>1. work'.pc = "idle"
    BY <1>1 DEF IdleWork
  <2> QED BY <1>1, <2>1 DEF NotebookInv, OneIncarnation, LockInv, LoopInv, Working
<1>5. PolicyInv'
  <2>1. \A p \in PolicySet : objC'[p].owner = obj[p].owner /\ objC'[p].good = obj[p].good
    BY <1>1, <1>2, StepsFacts
  <2> QED BY <1>1, <2>1 DEF PolicyInv
<1> QED BY <1>3, <1>4, <1>5

--------------------------------------------------------------------------------
(* Theorems.                                                               *)

\* Every step preserves the invariant.
LEMMA NextInv ==
    ASSUME Inv, [Next]_vars
    PROVE  Inv'
<1>1. CASE \E o \in Objects : Drift(o) \/ Remove(o) \/ Plant(o) \/ Collect(o)
  BY <1>1, ObjectInv
<1>2. CASE \/ \E o \in Objects : Condemn(o) \/ SyncObject(o)
           \/ ChangeRole \/ UNCHANGED vars
  BY <1>2, LookInv
<1>3. CASE CreateNotebook \/ DeleteNotebook \/ Annotate \/ SyncNotebook
  BY <1>3, NotebookStepInv
<1>4. CASE AddFinalizers \/ RemoveFinalizers \/ RemoveLock
  BY <1>4, UpdateInv
<1>5. CASE StartReconcile
  BY <1>5, StartInv
<1>6. CASE ReconcileNetworkPolicy
  BY <1>6, ReconcilePolicyInv
<1>7. CASE \/ ReconcileRoleBindings \/ ReconcileCreated
           \/ WriteConfigMap \/ ReconcileMLflowIntegration
  BY <1>7, ReconcileOtherInv
<1>8. CASE ReadConfigMap
  BY <1>8, ReadInv
<1>9. CASE CallFails \/ Restart
  BY <1>9, CallFailsInv, RestartInv
<1> QED
  BY <1>1, <1>2, <1>3, <1>4, <1>5, <1>6, <1>7, <1>8, <1>9 DEF Next, Controller

\* The invariant holds in every reachable state.
LEMMA SpecInv == Spec => []Inv
  BY InitInv, NextInv, PTL DEF Spec

\* Types: every variable keeps its range, whatever users do, whichever calls fail
\* and whenever the process is restarted.
THEOREM TypeTheorem == Spec => []TypeOK
<1>1. Inv => TypeOK
  BY DEF Inv
<1> QED BY <1>1, SpecInv, PTL

\* The Notebook that a reconcile provides objects for is the one that is stored:
\* the finalizers of OpenshiftNotebookReconciler.Reconcile keep it until its own
\* reconcile is over, for any number of Notebooks of the name.
THEOREM IncarnationTheorem == Spec => []OneIncarnation
<1>1. Inv => OneIncarnation
  BY DEF Inv
<1> QED BY <1>1, SpecInv, PTL

\* RemoveReconciliationLock is reached only behind ReconcileAllNetworkPolicies:
\* an active Notebook without the lock has had every one of its policies.
THEOREM PoliciesTheorem == Spec => []UnlockedBehindPolicies
<1>1. Inv => UnlockedBehindPolicies
  BY DEF Inv, LockInv, UnlockedBehindPolicies
<1> QED BY <1>1, SpecInv, PTL

\* Without a user's act, a failing call or a crash no step touches a policy that
\* something else controls.
LEMMA ForeignStep ==
    ASSUME Inv, Next, events' = events,
           NEW p \in PolicySet, obj[p].owner = Other
    PROVE  obj'[p] = obj[p]
<1> USE DEF Inv
<1>1. p \in Objects /\ p \notin OtherNames
  BY StepsFacts
<1>2. obj[p] \in Stored /\ obj[p].there
  <2>1. obj[p] \in Values
    BY <1>1 DEF TypeOK, Values
  <2>2. Other # NoOwner
    BY BoundAssumption DEF Other, NoOwner
  <2>3. obj[p] \in Stored
    BY <2>1, <2>2, ConstantTypes DEF Values
  <2> QED BY <2>3 DEF Stored
<1>3. ASSUME NEW o \in Objects, NEW new, Put(o, new), o # p
      PROVE  obj'[p] = obj[p]
  BY <1>1, <1>3 DEF Put, TypeOK
<1>4. CASE obj' = obj
  BY <1>4
<1>5. ~Act
  BY DEF Act, TypeOK
<1>6. CASE \E o \in Objects : Drift(o) \/ Remove(o) \/ Plant(o)
  BY <1>5, <1>6 DEF Drift, Remove, Plant, UserPut
<1>7. ASSUME NEW o \in Objects, Collect(o) PROVE obj'[p] = obj[p]
  <2>1. o # p
    BY <1>1, <1>7 DEF Collect, PolicyInv, OtherNames
  <2> QED BY <1>3, <1>7, <2>1 DEF Collect
<1>8. CASE ReconcileNetworkPolicy
  <2>1. PICK q \in PolicySet, ok \in BOOLEAN :
           AtObject(q) /\ reconcileNetworkPolicy(q, ok)
    BY <1>8 DEF ReconcileNetworkPolicy
  <2>2. CASE q = p
    <3>1. reconcileExistingNetworkPolicy(p, ok)
      BY <1>2, <2>1, <2>2 DEF reconcileNetworkPolicy
    <3>2. p \in fresh => objC[p].owner = Other
      BY DEF PolicyInv
    <3> QED BY <3>1, <3>2 DEF reconcileExistingNetworkPolicy, OwnershipConflict,
                              UpdateAccepted, NoWrite
  <2>3. CASE q # p
    <3>1. q \in Objects
      BY StepsFacts
    <3>2. NoWrite \/ Put(q, OwnedBy(work.inst.uid))
      BY <2>1 DEF reconcileNetworkPolicy, reconcileExistingNetworkPolicy, Create
    <3> QED BY <1>3, <2>3, <3>1, <3>2 DEF NoWrite
  <2> QED BY <2>2, <2>3
<1>9. ASSUME NEW o \in OtherNames, NEW new, Put(o, new), o \in Objects
      PROVE  obj'[p] = obj[p]
  BY <1>1, <1>3, <1>9
<1>10. CASE ReconcileRoleBindings
  <2>1. "pipeline" \in Objects \cap OtherNames
    BY <1>10, AtOther DEF ReconcileRoleBindings, OtherNames
  <2>2. NoWrite \/ \E new : Put("pipeline", new)
    BY <1>10 DEF ReconcileRoleBindings, Create
  <2> QED BY <1>4, <1>9, <2>1, <2>2 DEF NoWrite
<1>11. CASE ReconcileCreated
  <2>1. PICK o \in {"account", "service"} : AtObject(o) /\ CreateIfMissing(o)
    BY <1>11 DEF ReconcileCreated
  <2>2. o \in Objects \cap OtherNames
    BY <2>1, AtOther DEF OtherNames
  <2> QED BY <1>4, <1>9, <2>1, <2>2 DEF NoWrite, CreateIfMissing, Create
<1>12. CASE WriteConfigMap
  <2>1. work.at \in 1..Len(Steps) /\ Steps[work.at] = "config"
    BY <1>12 DEF WriteConfigMap, LoopInv, Working
  <2>2. "config" \in Objects \cap OtherNames
    BY <2>1, StepsFacts DEF OtherNames
  <2>3. NoWrite \/ \E new : Put("config", new)
    BY <1>12 DEF WriteConfigMap, Create
  <2> QED BY <1>4, <1>9, <2>2, <2>3 DEF NoWrite
<1>13. CASE ReconcileMLflowIntegration
  <2>1. "mlflow" \in Objects \cap OtherNames
    BY <1>13, AtOther DEF ReconcileMLflowIntegration, OtherNames
  <2>2. NoWrite \/ \E new : Put("mlflow", new)
    BY <1>13 DEF ReconcileMLflowIntegration, Create
  <2> QED BY <1>4, <1>9, <2>1, <2>2 DEF NoWrite
<1>14. CASE \/ CreateNotebook \/ DeleteNotebook \/ Annotate \/ ChangeRole
            \/ \E o \in Objects : Condemn(o) \/ SyncObject(o)
            \/ SyncNotebook \/ CallFails \/ Restart
  BY <1>4, <1>14 DEF CreateNotebook, DeleteNotebook, Annotate, ChangeRole, Condemn,
                     SyncObject, SyncNotebook, CallFails, Restart
<1>15. CASE \/ StartReconcile \/ AddFinalizers \/ RemoveFinalizers
            \/ ReadConfigMap \/ RemoveLock
  BY <1>4, <1>15 DEF StartReconcile, AddFinalizers, RemoveFinalizers, UpdateNotebook,
                     ReadConfigMap, RemoveLock
<1> QED
  BY <1>6, <1>7, <1>8, <1>10, <1>11, <1>12, <1>13, <1>14, <1>15 DEF Next, Controller

\* networkPolicyOwnershipConflict protects what it is for, stale cache or not: an
\* update is only accepted from an up-to-date copy, and the collector is never
\* after a policy that something else controls.
THEOREM ForeignPolicyTheorem == Spec => ForeignPolicyUntouched
<1>1. Inv /\ [Next]_vars =>
         [events' = events =>
            \A p \in PolicySet : obj[p].owner = Other => obj'[p] = obj[p]]_vars
  BY ForeignStep
<1> QED BY <1>1, SpecInv, PTL DEF Spec, ForeignPolicyUntouched
================================================================================

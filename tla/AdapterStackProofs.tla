-------------------------- MODULE AdapterStackProofs --------------------------
(***************************************************************************)
(* For every number of resources and every value of the bounds: the        *)
(* adapter stack stands only under the finalizer of a HubConfig, a running *)
(* adapter is equipped, and a reconciler at rest has nothing left to do.   *)
(***************************************************************************)
EXTENDS AdapterStack, TLAPS

Finalized(v) == v # None /\ v.finalizer

Managing(v) == v # None /\ v.finalizer /\ ~v.deleting

Doomed(v) == v # None /\ v.deleting

\* What a version of the HubConfig, however old, says of the live one.
Sound(v) == /\ Managing(v) => Finalized(hc)
            /\ Doomed(v) => ~Managing(hc)

VersionsSound ==
    /\ Sound(hcCache)
    /\ \A i \in 1..Len(hcPend) : Sound(hcPend[i])

\* Each watch ends with the live object.
HubWatch == IF hcPend = <<>> THEN hcCache = hc ELSE hcPend[Len(hcPend)] = hc

StackWatch ==
    \A r \in Resources :
        IF pend[r] = <<>> THEN cached[r] = stack[r]
        ELSE pend[r][Len(pend[r])] = stack[r]

CurrentIsTeardown ==
    current => pc \in {"teardown", "release"} /\ hcPend = <<>> /\ Doomed(hcCache)

\* How far the run at hand has got.
Progress ==
    /\ pc = "ensure" => /\ Finalized(hc)
                        /\ \A r \in Resources : r < at => Standing(r)
    /\ pc = "teardown" => /\ ~Managing(hc)
                          /\ ~failed => \A r \in Resources : r > at => ~Standing(r)
    /\ pc = "release" => \A r \in Resources : ~Standing(r)

StackInv ==
    /\ VersionsSound
    /\ HubWatch
    /\ StackWatch
    /\ CurrentIsTeardown
    /\ Progress
    /\ StackUnderFinalizer
    /\ AdapterIsEquipped

-----------------------------------------------------------------------------
(* Type correctness.                                                        *)

\* The bounds are numbers, so counters and resource positions are integers.
LEMMA Numbers ==
    /\ Deployment \in Nat /\ Deployment > 1
    /\ Resources = 1..Deployment
    /\ MaxRelease \in Nat /\ MaxUid \in Nat /\ MaxEdit \in Nat
    /\ MaxRestarts \in Nat /\ MaxFaults \in Nat
BY StackAssumption DEF Deployment, Resources

\* The initial positions and counts lie within the bounds.
LEMMA Members ==
    /\ 0 \in 0..Deployment /\ 1 \in 0..Deployment /\ Deployment \in 0..Deployment
    /\ 1 \in Resources /\ Deployment \in Resources
    /\ 0 \in 0..MaxUid /\ 0 \in 0..MaxEdit /\ 0 \in 0..MaxRestarts
    /\ 0 \in 0..MaxFaults /\ 1 \in 1..MaxRelease /\ 0 \in Versions
BY StackAssumption DEF Deployment, Resources, Versions

\* The fields of a HubConfig have their types.
LEMMA HubConfigFields ==
    ASSUME NEW v \in MaybeHC, v # None
    PROVE  /\ v \in HubConfigs /\ v.deleting \in BOOLEAN /\ v.finalizer \in BOOLEAN
           /\ v.edit \in 0..MaxEdit
BY DEF MaybeHC, HubConfigs

\* Adding the finalizer (hubconfig_controller.go, AddFinalizer) keeps a
\* HubConfig one.
LEMMA PutFinalizer ==
    ASSUME NEW v \in HubConfigs
    PROVE  LET w == [v EXCEPT !.finalizer = TRUE] IN
           w \in MaybeHC /\ w # None /\ w.finalizer /\ w.deleting = v.deleting
BY NoHubConfigAssumption DEF HubConfigs, MaybeHC

\* Marking a HubConfig as deleted keeps it a HubConfig.
LEMMA PutDeleting ==
    ASSUME NEW v \in HubConfigs
    PROVE  LET w == [v EXCEPT !.deleting = TRUE] IN
           w \in MaybeHC /\ w # None /\ w.finalizer = v.finalizer /\ w.deleting
BY NoHubConfigAssumption DEF HubConfigs, MaybeHC

\* A spec edit within the bound keeps a HubConfig one.
LEMMA PutEdit ==
    ASSUME NEW v \in HubConfigs, v.edit < MaxEdit
    PROVE  LET w == [v EXCEPT !.edit = @ + 1] IN
           /\ w \in MaybeHC /\ w # None
           /\ w.finalizer = v.finalizer /\ w.deleting = v.deleting
BY NoHubConfigAssumption, Numbers DEF HubConfigs, MaybeHC

\* What the administrator creates is a HubConfig.
LEMMA NewHubConfig ==
    ASSUME NEW u \in 1..MaxUid
    PROVE  LET w == [uid |-> u, edit |-> 0, deleting |-> FALSE, finalizer |-> FALSE]
           IN  w \in MaybeHC /\ w # None /\ ~w.finalizer /\ ~w.deleting
<1> DEFINE w == [uid |-> u, edit |-> 0, deleting |-> FALSE, finalizer |-> FALSE]
<1>1. w \in HubConfigs
    BY Members DEF HubConfigs
<1>2. ~w.finalizer /\ ~w.deleting
    OBVIOUS
<1> HIDE DEF w
<1>3. w \in MaybeHC /\ w # None
    BY <1>1, NoHubConfigAssumption DEF MaybeHC
<1> QED
    BY <1>2, <1>3 DEF w

\* A write of the HubConfig keeps the types of the object and its watch.
LEMMA PutHubConfigType ==
    ASSUME TypeOK, NEW w \in MaybeHC, PutHubConfig(w)
    PROVE  hc' \in MaybeHC /\ hcPend' \in Seq(MaybeHC)
BY DEF TypeOK, PutHubConfig

\* A write of an adapter resource keeps the types of the stack and its
\* watches.
LEMMA PutType ==
    ASSUME TypeOK, NEW r \in Resources, NEW v \in Versions, Put(r, v)
    PROVE  /\ stack' \in [Resources -> Versions]
           /\ pend' \in [Resources -> Seq(Versions)]
BY DEF TypeOK, Put

\* The count of faults stays within its bound.
LEMMA FaultType ==
    ASSUME TypeOK, Fault \/ NoFault
    PROVE  faults' \in 0..MaxFaults
BY Numbers DEF TypeOK, Fault, NoFault

\* The initial state is well typed.
LEMMA InitType == Init => TypeOK
<1> SUFFICES ASSUME Init PROVE TypeOK
    OBVIOUS
<1>1. stack \in [Resources -> Versions] /\ pend \in [Resources -> Seq(Versions)]
    BY Members DEF Init
<1>2. cached \in [Resources -> Versions]
    BY <1>1 DEF Init
<1>3. hc \in MaybeHC /\ hcCache \in MaybeHC /\ hcPend \in Seq(MaybeHC)
    BY DEF Init, MaybeHC
<1> QED
    BY Members, <1>1, <1>2, <1>3 DEF Init, TypeOK

\* The end of a Reconcile run leaves a well-typed idle reconciler.
LEMMA ReturnType ==
    ASSUME TypeOK, NEW b \in BOOLEAN, Return(b)
    PROVE  pc' = "idle" /\ at' = 0 /\ ~current' /\ failed' = FALSE /\ current' \in BOOLEAN
           /\ queued' \in BOOLEAN
BY DEF Return, TypeOK

\* The first steps of Reconcile keep TypeOK.
LEMMA StartType ==
    ASSUME TypeOK, ReconcileNothing \/ AddFinalizer \/ StartEnsure \/ StartTeardown
    PROVE  TypeOK'
<1> USE DEF hcVars, stackVars, runVars
<1>1. CASE ReconcileNothing
    BY <1>1 DEF ReconcileNothing, TypeOK
<1>2. CASE StartEnsure
    BY <1>2, Members DEF StartEnsure, Begin, TypeOK
<1>3. CASE StartTeardown
    <2>1. /\ pc' = "teardown" /\ at' = Deployment /\ current' \in BOOLEAN
          /\ failed' = FALSE /\ queued' = FALSE
        BY <1>3 DEF StartTeardown, Begin
    <2>2. UNCHANGED <<hcVars, stackVars, release, uids, restarts, faults>>
        BY <1>3 DEF StartTeardown
    <2> QED
        BY <2>1, <2>2, Members DEF TypeOK
<1>4. CASE AddFinalizer
    <2> DEFINE w == [hcCache EXCEPT !.finalizer = TRUE]
    <2>1. w \in MaybeHC
        BY <1>4, HubConfigFields, PutFinalizer DEF AddFinalizer, TypeOK
    <2>2. faults' \in 0..MaxFaults
        BY <1>4, FaultType DEF AddFinalizer
    <2>3. \/ PutHubConfig(w) /\ Begin("ensure", 1, FALSE)
          \/ UNCHANGED <<hc, hcPend, runVars, queued>>
        BY <1>4 DEF AddFinalizer
    <2>4. UNCHANGED <<hcCache, stackVars, release, uids, restarts>>
        BY <1>4 DEF AddFinalizer
    <2> HIDE DEF w
    <2>5. CASE PutHubConfig(w) /\ Begin("ensure", 1, FALSE)
        <3>1. hc' \in MaybeHC /\ hcPend' \in Seq(MaybeHC)
            BY <2>1, <2>5, PutHubConfigType
        <3> QED
            BY <2>2, <2>4, <2>5, <3>1, Members DEF Begin, TypeOK
    <2>6. CASE UNCHANGED <<hc, hcPend, runVars, queued>>
        BY <2>2, <2>4, <2>6 DEF TypeOK
    <2> QED
        BY <2>3, <2>5, <2>6
<1> QED
    BY <1>1, <1>2, <1>3, <1>4

\* What an ensuring step does to the resource it is at, and to the run.
LEMMA EnsureEffect ==
    ASSUME TypeOK, EnsureResource \/ EnsureDeployment
    PROVE  /\ pc = "ensure" /\ at \in Resources
           /\ Put(at, release) \/ (UNCHANGED <<stack, pend>> /\ (Return(TRUE) \/ stack[at] # 0))
           /\ Return(TRUE) \/ Return(FALSE) \/ (NextPart /\ at # Deployment)
           /\ UNCHANGED <<hcVars, cached, release, uids, restarts>>
           /\ Fault \/ NoFault
BY DEF EnsureResource, EnsureDeployment, TypeOK

\* The steps of ensureAdapterStack keep TypeOK.
LEMMA EnsureType ==
    ASSUME TypeOK, EnsureResource \/ EnsureDeployment
    PROVE  TypeOK'
<1> USE DEF hcVars, stackVars, runVars
<1>1. stack' \in [Resources -> Versions] /\ pend' \in [Resources -> Seq(Versions)]
    <2>0. at \in Resources
        BY EnsureEffect
    <2>1. release \in Versions
        BY StackAssumption DEF TypeOK, Versions
    <2>2. CASE Put(at, release)
        BY <2>0, <2>1, <2>2, PutType
    <2>3. CASE UNCHANGED <<stack, pend>>
        BY <2>3 DEF TypeOK
    <2> QED
        BY <2>2, <2>3, EnsureEffect
<1>2. faults' \in 0..MaxFaults
    BY EnsureEffect, FaultType
<1>3. UNCHANGED <<hcVars, cached, release, uids, restarts>>
    BY EnsureEffect
<1>4. CASE Return(TRUE) \/ Return(FALSE)
    <2>1. pc' = "idle" /\ at' = 0 /\ failed' = FALSE /\ current' \in BOOLEAN
          /\ queued' \in BOOLEAN
        BY <1>4, ReturnType
    <2> QED
        BY <1>1, <1>2, <1>3, <2>1, Members DEF TypeOK
<1>5. CASE NextPart /\ at # Deployment
    <2>1. at \in Resources
        BY EnsureEffect
    <2>2. at' \in Resources /\ at' \in 0..Deployment
        BY <1>5, <2>1, Numbers DEF NextPart
    <2> QED
        BY <1>1, <1>2, <1>3, <1>5, <2>2 DEF TypeOK, NextPart
<1> QED
    BY <1>4, <1>5, EnsureEffect

\* What a teardown step does.
LEMMA TeardownEffect ==
    ASSUME TypeOK, TeardownResource
    PROVE  /\ pc = "teardown" /\ at \in Resources
           /\ \/ Put(at, 0) /\ NoFault
              \/ UNCHANGED <<stack, pend>> /\ stack[at] = 0 /\ NoFault
              \/ UNCHANGED <<stack, pend>> /\ Fault
           /\ UNCHANGED <<hcVars, cached, release, uids, restarts>>
           /\ \/ /\ at > 1 /\ at' = at - 1 /\ UNCHANGED <<pc, current, queued>>
                 /\ failed' = failed \/ failed' = TRUE
                 /\ NoFault \/ failed'
              \/ at = 1 /\ Return(TRUE)
              \/ /\ at = 1 /\ NoFault /\ ~failed
                 /\ pc' = "release" /\ at' = 0 /\ UNCHANGED <<current, failed, queued>>
BY DEF TeardownResource, EndTeardown, TypeOK

\* The steps of teardownAdapterStack keep TypeOK.
LEMMA TeardownType ==
    ASSUME TypeOK, TeardownResource
    PROVE  TypeOK'
<1> USE DEF hcVars, stackVars, runVars
<1>1. /\ stack' \in [Resources -> Versions] /\ pend' \in [Resources -> Seq(Versions)]
      /\ faults' \in 0..MaxFaults
    BY TeardownEffect, PutType, FaultType, Members DEF TypeOK
<1>2. UNCHANGED <<hcVars, cached, release, uids, restarts>> /\ at \in Resources
    BY TeardownEffect
<1>3. CASE Return(TRUE)
    BY <1>1, <1>2, <1>3, ReturnType, Members DEF TypeOK
<1>4. CASE at > 1 /\ at' = at - 1 /\ UNCHANGED <<pc, current, queued>>
           /\ (failed' = failed \/ failed' = TRUE)
    <2>1. at' \in Resources /\ at' \in 0..Deployment
        BY <1>2, <1>4, Numbers
    <2> QED
        BY <1>1, <1>2, <1>4, <2>1 DEF TypeOK
<1>5. CASE pc' = "release" /\ at' = 0 /\ UNCHANGED <<current, failed, queued>>
    BY <1>1, <1>2, <1>5, Members DEF TypeOK
<1> QED
    BY <1>3, <1>4, <1>5, TeardownEffect

\* The removal of the finalizer, informers and the surroundings keep TypeOK.
LEMMA OtherType ==
    ASSUME TypeOK, RemoveFinalizer \/ Informers \/ Surroundings
    PROVE  TypeOK'
<1> USE DEF hcVars, stackVars, runVars
<1>0. None \in MaybeHC
    BY DEF MaybeHC
<1>1. CASE RemoveFinalizer
    <2>1. /\ PutHubConfig(None) \/ UNCHANGED <<hc, hcPend>>
          /\ Return(FALSE) \/ Return(TRUE)
          /\ Fault \/ NoFault
          /\ UNCHANGED <<hcCache, stackVars, release, uids, restarts>>
        BY <1>1 DEF RemoveFinalizer
    <2>2. hc' \in MaybeHC /\ hcPend' \in Seq(MaybeHC)
        BY <1>0, <2>1, PutHubConfigType DEF TypeOK
    <2> QED
        BY <2>1, <2>2, ReturnType, FaultType, Members DEF TypeOK
<1>2. CASE SyncHubConfig
    BY <1>2 DEF SyncHubConfig, TypeOK
<1>3. ASSUME NEW r \in Resources, Sync(r)
      PROVE  TypeOK'
    <2>1. Head(pend[r]) \in Versions /\ Tail(pend[r]) \in Seq(Versions)
        BY <1>3 DEF Sync, TypeOK
    <2>2. cached' \in [Resources -> Versions] /\ pend' \in [Resources -> Seq(Versions)]
        BY <1>3, <2>1 DEF Sync, TypeOK
    <2> QED
        BY <1>3, <2>2 DEF Sync, TypeOK
<1>4. CASE RestartAdapterDeployment
    <2>1. cached[Deployment] \in Versions
        BY Members DEF TypeOK
    <2>2. stack' \in [Resources -> Versions] /\ pend' \in [Resources -> Seq(Versions)]
        BY <1>4, <2>1, PutType, Members DEF RestartAdapterDeployment
    <2>3. restarts' \in 0..MaxRestarts
        BY <1>4, Numbers DEF RestartAdapterDeployment, TypeOK
    <2> QED
        BY <1>4, <2>2, <2>3 DEF RestartAdapterDeployment, TypeOK
<1>5. CASE AdminCreate
    <2> DEFINE w == [uid |-> uids + 1, edit |-> 0, deleting |-> FALSE,
                     finalizer |-> FALSE]
    <2>1. uids + 1 \in 1..MaxUid /\ uids' \in 0..MaxUid
        BY <1>5, Numbers DEF AdminCreate, TypeOK
    <2>2. w \in MaybeHC
        BY <2>1, NewHubConfig
    <2>3. PutHubConfig(w)
        BY <1>5 DEF AdminCreate
    <2> HIDE DEF w
    <2>4. hc' \in MaybeHC /\ hcPend' \in Seq(MaybeHC)
        BY <2>2, <2>3, PutHubConfigType
    <2> QED
        BY <1>5, <2>1, <2>4 DEF AdminCreate, Outdate, TypeOK
<1>6. CASE AdminEdit
    <2>1. hc' \in MaybeHC /\ hcPend' \in Seq(MaybeHC)
        BY <1>6, HubConfigFields, PutEdit, PutHubConfigType DEF AdminEdit, TypeOK
    <2> QED
        BY <1>6, <2>1 DEF AdminEdit, Outdate, TypeOK
<1>7. CASE AdminDelete
    <2>1. hc' \in MaybeHC /\ hcPend' \in Seq(MaybeHC)
        BY <1>0, <1>7, HubConfigFields, PutDeleting, PutHubConfigType
           DEF AdminDelete, TypeOK
    <2> QED
        BY <1>7, <2>1 DEF AdminDelete, Outdate, TypeOK
<1>8. CASE Crash \/ Upgrade
    <2>1. faults' \in 0..MaxFaults
        BY <1>8, FaultType DEF Crash, Upgrade
    <2>2. release' \in 1..MaxRelease
        <3>1. release \in 1..MaxRelease /\ MaxRelease \in Nat
            BY StackAssumption DEF TypeOK
        <3>2. \/ release' = release
              \/ release < MaxRelease /\ release' = release + 1
            BY <1>8 DEF Crash, Upgrade, StartOver
        <3> QED
            BY <3>1, <3>2
    <2>3. PICK n : StartOver(n)
        BY <1>8 DEF Crash, Upgrade
    <2>4. hcPend' \in Seq(MaybeHC) /\ pend' \in [Resources -> Seq(Versions)]
        BY <2>3 DEF StartOver
    <2>5. queued' \in BOOLEAN
        BY <2>3 DEF StartOver
    <2> QED
        BY <2>1, <2>2, <2>3, <2>4, <2>5, Members DEF StartOver, TypeOK
<1> QED
    BY <1>1, <1>2, <1>3, <1>4, <1>5, <1>6, <1>7, <1>8 DEF Informers, Surroundings

\* TypeOK holds in every reachable state: the loops over the stack never leave it.
THEOREM StackTypeCorrect == Spec => []TypeOK
<1>1. TypeOK /\ [Next]_vars => TypeOK'
    <2> SUFFICES ASSUME TypeOK, [Next]_vars PROVE TypeOK'
        OBVIOUS
    <2>1. CASE UNCHANGED vars
        BY <2>1 DEF vars, hcVars, stackVars, runVars, TypeOK
    <2>2. CASE Next
        BY <2>2, StartType, EnsureType, TeardownType, OtherType DEF Next, Reconciler
    <2> QED
        BY <2>1, <2>2
<1> QED
    BY InitType, <1>1, PTL DEF Spec

-----------------------------------------------------------------------------
(* Writes, and what they leave true of the versions in circulation.         *)

\* A write of the HubConfig at the end of its watch keeps the versions
\* sound.
LEMMA HubWrite ==
    ASSUME TypeOK, VersionsSound, HubWatch, NEW w \in MaybeHC, PutHubConfig(w),
           hcCache' = hcCache,
           Finalized(hc) => Finalized(w),
           Managing(w) => Managing(hc) \/ (hcPend = <<>> /\ ~Doomed(hcCache))
    PROVE  VersionsSound' /\ HubWatch' /\ hc' = w
<1>1. hc' = w /\ hcPend' = Append(hcPend, w) /\ hcPend \in Seq(MaybeHC)
    BY DEF PutHubConfig, TypeOK
<1>2. /\ Len(hcPend') = Len(hcPend) + 1 /\ Len(hcPend) \in Nat
      /\ hcPend'[Len(hcPend) + 1] = w
      /\ \A i \in 1..Len(hcPend) : hcPend'[i] = hcPend[i]
    BY <1>1
<1>3. HubWatch'
    BY <1>1, <1>2 DEF HubWatch
<1>4. Sound(hcCache)'
    <2>1. Sound(hcCache)
        BY DEF VersionsSound
    <2> QED
        BY <1>1, <2>1 DEF Sound, Managing, Doomed, Finalized
<1>5. ASSUME NEW i \in 1..Len(hcPend')
      PROVE  Sound(hcPend[i])'
    <2>1. CASE i = Len(hcPend) + 1
        <3>1. hcPend'[i] = w
            BY <1>2, <2>1
        <3> QED
            BY <1>1, <3>1 DEF Sound, Managing, Doomed, Finalized
    <2>2. CASE i # Len(hcPend) + 1
        <3>1. i \in 1..Len(hcPend) /\ hcPend'[i] = hcPend[i] /\ hcPend # <<>>
            BY <1>1, <1>2, <2>2
        <3>2. Sound(hcPend[i])
            BY <3>1 DEF VersionsSound
        <3>3. Managing(w) => Managing(hc)
            BY <3>1
        <3> QED
            BY <1>1, <3>1, <3>2, <3>3 DEF Sound, Managing, Doomed, Finalized
    <2> QED
        BY <2>1, <2>2
<1> QED
    BY <1>1, <1>3, <1>4, <1>5 DEF VersionsSound

\* What is said of the HubConfig and its versions survives a step that
\* writes none.
LEMMA SameHub ==
    ASSUME StackInv, UNCHANGED hcVars
    PROVE  VersionsSound' /\ HubWatch'
BY DEF StackInv, hcVars, VersionsSound, HubWatch, Sound, Managing, Doomed, Finalized

\* After a write of an adapter resource its watch still ends with the live
\* object.
LEMMA PutWatch ==
    ASSUME TypeOK, StackWatch, NEW r \in Resources, NEW v \in Versions, Put(r, v),
           cached' = cached
    PROVE  /\ StackWatch'
           /\ \A q \in Resources : stack'[q] = IF q = r THEN v ELSE stack[q]
<1>1. \A q \in Resources : stack'[q] = IF q = r THEN v ELSE stack[q]
    BY DEF Put, TypeOK
<1>2. \A q \in Resources : pend'[q] = IF q = r THEN Append(pend[q], v) ELSE pend[q]
    BY DEF Put, TypeOK
<1>3. ASSUME NEW q \in Resources
      PROVE  IF pend'[q] = <<>> THEN cached'[q] = stack'[q]
             ELSE pend'[q][Len(pend'[q])] = stack'[q]
    <2>1. CASE q = r
        <3>1. pend[q] \in Seq(Versions) /\ pend'[q] = Append(pend[q], v) /\ stack'[q] = v
            BY <1>1, <1>2, <2>1 DEF TypeOK
        <3> QED
            BY <3>1
    <2>2. CASE q # r
        BY <1>1, <1>2, <2>2 DEF StackWatch
    <2> QED
        BY <2>1, <2>2
<1> QED
    BY <1>1, <1>3 DEF StackWatch

\* What is said of the stack survives a step that leaves it alone.
LEMMA SameStack ==
    ASSUME StackInv, UNCHANGED stackVars
    PROVE  StackWatch'
BY DEF StackInv, StackWatch, stackVars

-----------------------------------------------------------------------------
(* One lemma per group of actions.                                          *)

\* The first steps of Reconcile keep the inductive invariant.
LEMMA StartInv ==
    ASSUME TypeOK, StackInv,
           ReconcileNothing \/ AddFinalizer \/ StartEnsure \/ StartTeardown
    PROVE  StackInv'
<1>a. ~current /\ pc = "idle"
    BY DEF StackInv, CurrentIsTeardown, ReconcileNothing, AddFinalizer, StartEnsure,
       StartTeardown
<1>b. UNCHANGED stackVars
    BY DEF ReconcileNothing, AddFinalizer, StartEnsure, StartTeardown
<1>c. StackWatch'
    BY <1>b, SameStack
<1>d. \A r \in Resources : Standing(r)' = Standing(r)
    BY <1>b DEF stackVars, Standing
<1>1. CASE ReconcileNothing \/ UNCHANGED <<hcVars, runVars>>
    <2>1. UNCHANGED <<hcVars, runVars>>
        BY <1>1 DEF ReconcileNothing
    <2>2. CurrentIsTeardown' /\ Progress'
        BY <1>a, <2>1 DEF CurrentIsTeardown, Progress, runVars
    <2>3. StackUnderFinalizer' /\ AdapterIsEquipped'
        BY <1>d, <2>1, Members
           DEF StackInv, StackUnderFinalizer, AdapterIsEquipped, hcVars
    <2> QED
        BY <1>c, <2>1, <2>2, <2>3, SameHub DEF StackInv
<1>2. CASE StartEnsure
    <2>1. /\ UNCHANGED hcVars /\ pc' = "ensure" /\ at' = 1 /\ ~current'
          /\ Managing(hcCache)
        BY <1>2 DEF StartEnsure, Begin, Managing
    <2>2. Finalized(hc)
        BY <2>1 DEF StackInv, VersionsSound, Sound
    <2>3. ~(\E r \in Resources : r < 1)
        BY Numbers
    <2>4. CurrentIsTeardown' /\ Progress'
        BY <2>1, <2>2, <2>3 DEF CurrentIsTeardown, Progress, hcVars, Finalized
    <2>5. StackUnderFinalizer' /\ AdapterIsEquipped'
        BY <1>d, <2>1, Members
           DEF StackInv, StackUnderFinalizer, AdapterIsEquipped, hcVars
    <2> QED
        BY <1>c, <2>1, <2>4, <2>5, SameHub DEF StackInv
<1>3. CASE StartTeardown
    <2>1. /\ UNCHANGED hcVars /\ pc' = "teardown" /\ at' = Deployment
          /\ current' = (hcPend = <<>>) /\ Doomed(hcCache)
        BY <1>3 DEF StartTeardown, Begin, Doomed
    <2>2. ~Managing(hc)
        BY <2>1 DEF StackInv, VersionsSound, Sound
    <2>3. ~(\E r \in Resources : r > Deployment)
        BY Numbers
    <2>4. Progress'
        BY <2>1, <2>2, <2>3 DEF Progress, hcVars, Managing
    <2>5. CurrentIsTeardown'
        BY <2>1 DEF CurrentIsTeardown, hcVars, Doomed
    <2>6. StackUnderFinalizer' /\ AdapterIsEquipped'
        BY <1>d, <2>1, Members
           DEF StackInv, StackUnderFinalizer, AdapterIsEquipped, hcVars
    <2> QED
        BY <1>c, <2>1, <2>4, <2>5, <2>6, SameHub DEF StackInv
<1>4. CASE AddFinalizer /\ ~UNCHANGED <<hcVars, runVars>>
    <2> DEFINE w == [hcCache EXCEPT !.finalizer = TRUE]
    <2>1. /\ hcPend = <<>> /\ PutHubConfig(w) /\ pc' = "ensure" /\ at' = 1 /\ ~current'
          /\ hcCache # None /\ ~hcCache.deleting /\ hcCache' = hcCache
        BY <1>4 DEF AddFinalizer, Begin, hcVars, runVars
    <2>2. hcCache = hc /\ hcCache \in HubConfigs
        BY <2>1, HubConfigFields DEF StackInv, HubWatch, TypeOK
    <2>3. w \in MaybeHC /\ w # None /\ w.finalizer /\ w.deleting = hc.deleting
        BY <2>2, PutFinalizer
    <2> HIDE DEF w
    <2>4. VersionsSound' /\ HubWatch' /\ hc' = w
        BY <2>1, <2>3, HubWrite DEF StackInv, Finalized, Doomed
    <2>5. ~(\E r \in Resources : r < 1)
        BY Numbers
    <2>6. CurrentIsTeardown' /\ Progress'
        BY <2>1, <2>3, <2>4, <2>5 DEF CurrentIsTeardown, Progress, Finalized
    <2>7. StackUnderFinalizer'
        BY <2>3, <2>4 DEF StackUnderFinalizer
    <2>8. AdapterIsEquipped'
        BY <1>d, <2>1, <2>2, <2>3, <2>4, Members DEF StackInv, AdapterIsEquipped
    <2> QED
        BY <1>c, <2>4, <2>6, <2>7, <2>8 DEF StackInv
<1> QED
    BY <1>1, <1>2, <1>3, <1>4

\* ensureAdapterStack keeps it: what it has passed stands, under the
\* finalizer.
LEMMA EnsureInv ==
    ASSUME TypeOK, StackInv, EnsureResource \/ EnsureDeployment
    PROVE  StackInv'
<1>1. pc = "ensure" /\ at \in Resources /\ UNCHANGED hcVars /\ cached' = cached
    BY EnsureEffect
<1>2. Finalized(hc) /\ ~current
    BY <1>1 DEF StackInv, Progress, CurrentIsTeardown
<1>3. release \in Versions /\ release # 0
    BY StackAssumption DEF TypeOK, Versions
<1>4. /\ StackWatch'
      /\ \A q \in Resources : Standing(q) => Standing(q)'
      /\ \A q \in Resources : q # at => Standing(q)' = Standing(q)
      /\ Return(TRUE) \/ stack'[at] # 0
    <2>1. CASE Put(at, release)
        <3>1. StackWatch' /\ \A q \in Resources :
                  stack'[q] = IF q = at THEN release ELSE stack[q]
            BY <1>1, <1>3, <2>1, PutWatch DEF StackInv
        <3> QED
            BY <1>1, <1>3, <3>1 DEF Standing
    <2>2. CASE UNCHANGED <<stack, pend>> /\ (Return(TRUE) \/ stack[at] # 0)
        <3>1. StackWatch'
            BY <1>1, <2>2, SameStack DEF stackVars
        <3> QED
            BY <2>2, <3>1 DEF Standing
    <2> QED
        BY <2>1, <2>2, EnsureEffect
<1>5. StackUnderFinalizer'
    BY <1>1, <1>2 DEF StackUnderFinalizer, Finalized, hcVars
<1>6. AdapterIsEquipped'
    <2> SUFFICES ASSUME hc # None, ~hc.deleting, Standing(Deployment)'
                 PROVE  \A r \in Resources : Standing(r)'
        BY <1>1 DEF AdapterIsEquipped, hcVars
    <2>1. CASE Standing(Deployment)
        BY <1>4, <2>1 DEF StackInv, AdapterIsEquipped
    <2>2. CASE ~Standing(Deployment)
        <3>1. at = Deployment
            BY <1>4, <2>2, Members
        <3>2. \A r \in Resources : r < Deployment => Standing(r)
            BY <1>1, <3>1 DEF StackInv, Progress
        <3>3. \A r \in Resources : r < Deployment \/ r = Deployment
            BY Numbers
        <3> QED
            BY <1>4, <3>2, <3>3
    <2> QED
        BY <2>1, <2>2
<1>7. CASE Return(TRUE) \/ Return(FALSE)
    <2>1. pc' = "idle" /\ ~current'
        BY <1>7 DEF Return
    <2>2. CurrentIsTeardown' /\ Progress'
        BY <2>1 DEF CurrentIsTeardown, Progress
    <2> QED
        BY <1>1, <1>4, <1>5, <1>6, <2>2, SameHub DEF StackInv
<1>8. CASE NextPart /\ ~Return(TRUE)
    <2>1. pc' = "ensure" /\ at' = at + 1 /\ ~current'
        BY <1>1, <1>2, <1>8 DEF NextPart
    <2>2. ASSUME NEW r \in Resources, r < at'
          PROVE  Standing(r)'
        <3>1. r = at \/ r < at
            BY <1>1, <2>1, <2>2, Numbers
        <3>2. r < at => Standing(r)
            BY <1>1 DEF StackInv, Progress
        <3> QED
            BY <1>4, <1>8, <3>1, <3>2 DEF Standing
    <2>3. CurrentIsTeardown' /\ Progress'
        BY <1>1, <1>2, <2>1, <2>2 DEF CurrentIsTeardown, Progress, Finalized, hcVars
    <2> QED
        BY <1>1, <1>4, <1>5, <1>6, <2>3, SameHub DEF StackInv
<1> QED
    BY <1>7, <1>8, EnsureEffect

\* teardownAdapterStack keeps it: what a teardown without errors has passed is
\* gone.
LEMMA TeardownInv ==
    ASSUME TypeOK, StackInv, TeardownResource
    PROVE  StackInv'
<1>1. pc = "teardown" /\ at \in Resources /\ UNCHANGED hcVars /\ cached' = cached
    BY TeardownEffect
<1>2. ~Managing(hc)
    BY <1>1 DEF StackInv, Progress
<1>3. /\ StackWatch'
      /\ \A q \in Resources : Standing(q)' => Standing(q)
      /\ NoFault /\ ~Fault => stack'[at] = 0
    <2>1. CASE Put(at, 0)
        <3>1. StackWatch' /\ \A q \in Resources :
                  stack'[q] = IF q = at THEN 0 ELSE stack[q]
            BY <1>1, <2>1, PutWatch, Members DEF StackInv
        <3> QED
            BY <1>1, <3>1 DEF Standing
    <2>2. CASE UNCHANGED <<stack, pend>> /\ (stack[at] = 0 \/ Fault)
        <3>1. StackWatch'
            BY <1>1, <2>2, SameStack DEF stackVars
        <3> QED
            BY <2>2, <3>1 DEF Standing
    <2> QED
        BY <2>1, <2>2, TeardownEffect
<1>4. StackUnderFinalizer'
    BY <1>1, <1>3 DEF StackInv, StackUnderFinalizer, hcVars
<1>5. AdapterIsEquipped'
    <2> SUFFICES ASSUME hc # None, ~hc.deleting, Standing(Deployment)'
                 PROVE  FALSE
        BY <1>1 DEF AdapterIsEquipped, hcVars
    <2>1. Standing(Deployment)
        BY <1>3, Members
    <2>2. hc.finalizer
        BY <2>1, Members DEF StackInv, StackUnderFinalizer
    <2> QED
        BY <1>2, <2>2 DEF Managing
<1>6. ~(Fault /\ NoFault)
    BY Numbers DEF Fault, NoFault, TypeOK
<1>7. ASSUME ~failed, NoFault, NEW r \in Resources, r >= at
      PROVE  ~Standing(r)'
    <2>1. CASE r = at
        BY <1>3, <1>6, <1>7, <2>1 DEF Standing
    <2>2. CASE r # at
        <3>1. r > at
            BY <1>1, <1>7, <2>2, Numbers
        <3>2. ~Standing(r)
            BY <1>1, <1>7, <3>1 DEF StackInv, Progress
        <3> QED
            BY <1>3, <3>2
    <2> QED
        BY <2>1, <2>2
<1>8. CASE Return(TRUE)
    <2>1. pc' = "idle" /\ ~current'
        BY <1>8 DEF Return
    <2>2. CurrentIsTeardown' /\ Progress'
        BY <2>1 DEF CurrentIsTeardown, Progress
    <2> QED
        BY <1>1, <1>3, <1>4, <1>5, <2>2, SameHub DEF StackInv
<1>9. CASE /\ at > 1 /\ at' = at - 1 /\ UNCHANGED <<pc, current, queued>>
           /\ failed' = failed \/ failed' = TRUE
           /\ NoFault \/ failed'
    <2>1. ASSUME ~failed', NEW r \in Resources, r > at'
          PROVE  ~Standing(r)'
        <3>1. r >= at
            BY <1>1, <1>9, <2>1, Numbers
        <3>2. ~failed /\ NoFault
            BY <1>9, <2>1
        <3> QED
            BY <1>7, <3>1, <3>2
    <2>2. Progress'
        BY <1>1, <1>2, <1>9, <2>1 DEF Progress, Managing, hcVars
    <2>3. CurrentIsTeardown'
        BY <1>1, <1>9 DEF StackInv, CurrentIsTeardown, Doomed, hcVars
    <2> QED
        BY <1>1, <1>3, <1>4, <1>5, <2>2, <2>3, SameHub DEF StackInv
<1>10. CASE /\ at = 1 /\ NoFault /\ ~failed
            /\ pc' = "release" /\ at' = 0 /\ UNCHANGED <<current, failed, queued>>
    <2>1. \A r \in Resources : r >= at
        BY <1>10, Numbers
    <2>2. \A r \in Resources : ~Standing(r)'
        BY <1>7, <1>10, <2>1
    <2>3. CurrentIsTeardown' /\ Progress'
        BY <1>1, <1>10, <2>2
           DEF StackInv, CurrentIsTeardown, Progress, Doomed, hcVars
    <2> QED
        BY <1>1, <1>3, <1>4, <1>5, <2>3, SameHub DEF StackInv
<1> QED
    BY <1>8, <1>9, <1>10, TeardownEffect

\* When the finalizer goes, nothing is left that it protects.
LEMMA RemoveInv ==
    ASSUME TypeOK, StackInv, RemoveFinalizer
    PROVE  StackInv'
<1>1. /\ pc = "release" /\ pc' = "idle" /\ ~current' /\ UNCHANGED stackVars
      /\ hcCache' = hcCache
    BY DEF RemoveFinalizer, Return
<1>2. \A r \in Resources : ~Standing(r)'
    BY <1>1 DEF StackInv, Progress, Standing, stackVars
<1>3. /\ StackWatch' /\ CurrentIsTeardown' /\ Progress'
      /\ StackUnderFinalizer' /\ AdapterIsEquipped'
    BY <1>1, <1>2, SameStack, Members
       DEF CurrentIsTeardown, Progress, StackUnderFinalizer, AdapterIsEquipped
<1>4. CASE UNCHANGED <<hc, hcPend>>
    BY <1>1, <1>3, <1>4, SameHub DEF StackInv, hcVars
<1>5. CASE current /\ PutHubConfig(None)
    <2>1. hcPend = <<>> /\ Doomed(hcCache)
        BY <1>5 DEF StackInv, CurrentIsTeardown
    <2>2. hc' = None /\ hcPend' = <<None>>
        BY <1>5, <2>1 DEF PutHubConfig
    <2>3. VersionsSound' /\ HubWatch'
        BY <1>1, <2>1, <2>2
           DEF VersionsSound, HubWatch, Sound, Managing, Doomed, Finalized
    <2> QED
        BY <1>3, <2>3 DEF StackInv
<1> QED
    BY <1>4, <1>5 DEF RemoveFinalizer

\* Deliveries to the caches keep it.
LEMMA InformersInv ==
    ASSUME TypeOK, StackInv, Informers
    PROVE  StackInv'
<1>1. CASE SyncHubConfig
    <2>1. /\ hcPend # <<>> /\ hcPend \in Seq(MaybeHC)
          /\ hcCache' = Head(hcPend) /\ hcPend' = Tail(hcPend)
          /\ UNCHANGED <<hc, stackVars, runVars>>
        BY <1>1 DEF SyncHubConfig, TypeOK
    <2>2. /\ Len(hcPend) \in Nat /\ Len(hcPend) >= 1
          /\ hcCache' = hcPend[1]
          /\ Len(hcPend') = Len(hcPend) - 1
          /\ \A i \in 1..Len(hcPend') : hcPend'[i] = hcPend[i + 1]
        BY <2>1
    <2>3. Sound(hcCache)'
        BY <2>1, <2>2 DEF StackInv, VersionsSound, Sound, Finalized, Managing, Doomed
    <2>4. ASSUME NEW i \in 1..Len(hcPend')
          PROVE  Sound(hcPend[i])'
        <3>1. i + 1 \in 1..Len(hcPend) /\ hcPend'[i] = hcPend[i + 1]
            BY <2>2
        <3>2. Sound(hcPend[i + 1])
            BY <3>1 DEF StackInv, VersionsSound
        <3> QED
            BY <2>1, <3>1, <3>2 DEF Sound, Finalized, Managing, Doomed
    <2>5. hcPend[Len(hcPend)] = hc
        BY <2>1 DEF StackInv, HubWatch
    <2>6. HubWatch'
        <3>1. CASE hcPend' = <<>>
            <4>a. Len(hcPend') = 0
                BY <3>1
            <4>1. Len(hcPend) = 1
                BY <2>2, <4>a
            <4>2. hcCache' = hc /\ hc' = hc
                BY <2>1, <2>2, <2>5, <4>1
            <4> QED
                BY <3>1, <4>2 DEF HubWatch
        <3>2. CASE hcPend' # <<>>
            <4>1. Len(hcPend') >= 1
                BY <2>1, <3>2
            <4>a. Len(hcPend') \in 1..Len(hcPend') /\ Len(hcPend') + 1 = Len(hcPend)
                BY <2>2, <4>1
            <4>2. hcPend'[Len(hcPend')] = hcPend[Len(hcPend)]
                BY <2>2, <4>a
            <4> QED
                BY <2>1, <2>5, <3>2, <4>2 DEF HubWatch
        <3> QED
            BY <3>1, <3>2
    <2>7. ~current
        BY <2>1 DEF StackInv, CurrentIsTeardown
    <2>8. CurrentIsTeardown'
        BY <2>1, <2>7 DEF CurrentIsTeardown, runVars
    <2>9. Progress'
        BY <2>1 DEF StackInv, Progress, Standing, Finalized, Managing, runVars, stackVars
    <2>10. StackUnderFinalizer' /\ AdapterIsEquipped'
        BY <2>1 DEF StackInv, StackUnderFinalizer, AdapterIsEquipped, Standing, stackVars
    <2> QED
        BY <2>1, <2>3, <2>4, <2>6, <2>8, <2>9, <2>10, SameStack
           DEF StackInv, VersionsSound
<1>2. ASSUME NEW r \in Resources, Sync(r)
      PROVE  StackInv'
    <2>1. UNCHANGED <<hcVars, stack, runVars>>
        BY <1>2 DEF Sync
    <2>2. ASSUME NEW q \in Resources
          PROVE  IF pend'[q] = <<>> THEN cached'[q] = stack'[q]
                 ELSE pend'[q][Len(pend'[q])] = stack'[q]
        <3>1. CASE q # r
            <4>1. pend'[q] = pend[q] /\ cached'[q] = cached[q]
                BY <1>2, <3>1 DEF Sync, TypeOK
            <4> QED
                BY <2>1, <4>1 DEF StackInv, StackWatch
        <3>2. CASE q = r
            <4> DEFINE s == pend[q]
            <4>1. /\ s # <<>> /\ s \in Seq(Versions) /\ s[Len(s)] = stack[q]
                  /\ pend'[q] = Tail(s) /\ cached'[q] = Head(s)
                BY <1>2, <3>2 DEF Sync, TypeOK, StackInv, StackWatch
            <4> HIDE DEF s
            <4>2. CASE Tail(s) = <<>>
                <5>1. Head(s) = s[Len(s)]
                    BY <4>1, <4>2
                <5> QED
                    BY <2>1, <4>1, <4>2, <5>1
            <4>3. CASE Tail(s) # <<>>
                <5>1. Tail(s)[Len(Tail(s))] = s[Len(s)]
                    BY <4>1, <4>3
                <5> QED
                    BY <2>1, <4>1, <4>3, <5>1
            <4> QED
                BY <4>2, <4>3
        <3> QED
            BY <3>1, <3>2
    <2>3. StackWatch'
        BY <2>2 DEF StackWatch
    <2>4. CurrentIsTeardown' /\ Progress'
        BY <2>1 DEF StackInv, CurrentIsTeardown, Progress, Standing, Finalized,
           Managing, Doomed, runVars, hcVars
    <2>5. StackUnderFinalizer' /\ AdapterIsEquipped'
        BY <2>1 DEF StackInv, StackUnderFinalizer, AdapterIsEquipped, Standing, hcVars
    <2> QED
        BY <2>1, <2>3, <2>4, <2>5, SameHub DEF StackInv
<1> QED
    BY <1>1, <1>2 DEF Informers

\* The administrator never takes a finalizer away, nor brings back what is
\* being deleted.
LEMMA AdminInv ==
    ASSUME TypeOK, StackInv, AdminCreate \/ AdminEdit \/ AdminDelete
    PROVE  StackInv'
<1>1. UNCHANGED <<hcCache, stackVars, pc, at, failed>> /\ ~current'
    BY DEF AdminCreate, AdminEdit, AdminDelete, Outdate
<1>2. \E w \in MaybeHC : /\ PutHubConfig(w)
                         /\ Finalized(hc) => Finalized(w)
                         /\ Managing(w) => Managing(hc)
    <2>1. CASE AdminCreate
        <3> DEFINE w == [uid |-> uids + 1, edit |-> 0, deleting |-> FALSE,
                         finalizer |-> FALSE]
        <3>1. uids + 1 \in 1..MaxUid
            BY <2>1, Numbers DEF AdminCreate, TypeOK
        <3>2. w \in MaybeHC /\ ~w.finalizer
            BY <3>1, NewHubConfig
        <3>3. PutHubConfig(w) /\ hc = None
            BY <2>1 DEF AdminCreate
        <3> HIDE DEF w
        <3> QED
            BY <3>2, <3>3 DEF Finalized, Managing
    <2>2. CASE AdminEdit
        <3> DEFINE w == [hc EXCEPT !.edit = @ + 1]
        <3>1. hc \in HubConfigs /\ hc # None /\ hc.edit < MaxEdit /\ PutHubConfig(w)
            BY <2>2, HubConfigFields DEF AdminEdit, TypeOK
        <3>2. w \in MaybeHC /\ w # None /\ w.finalizer = hc.finalizer
              /\ w.deleting = hc.deleting
            BY <3>1, PutEdit
        <3> HIDE DEF w
        <3> QED
            BY <3>1, <3>2 DEF Finalized, Managing
    <2>3. CASE AdminDelete
        <3> DEFINE w == [hc EXCEPT !.deleting = TRUE]
        <3>1. hc \in HubConfigs /\ PutHubConfig(IF hc.finalizer THEN w ELSE None)
            BY <2>3, HubConfigFields DEF AdminDelete, TypeOK
        <3>2. w \in MaybeHC /\ w # None /\ w.finalizer = hc.finalizer /\ w.deleting
            BY <3>1, PutDeleting
        <3>3. None \in MaybeHC
            BY DEF MaybeHC
        <3> HIDE DEF w
        <3> QED
            BY <3>1, <3>2, <3>3 DEF Finalized, Managing
    <2> QED
        BY <2>1, <2>2, <2>3
<1>3. PICK w \in MaybeHC : /\ PutHubConfig(w)
                           /\ Finalized(hc) => Finalized(w)
                           /\ Managing(w) => Managing(hc)
    BY <1>2
<1>4. VersionsSound' /\ HubWatch' /\ hc' = w
    BY <1>1, <1>3, HubWrite DEF StackInv
<1>5. \A r \in Resources : Standing(r)' = Standing(r)
    BY <1>1 DEF Standing, stackVars
<1>6. StackUnderFinalizer'
    BY <1>3, <1>4, <1>5 DEF StackInv, StackUnderFinalizer, Finalized
<1>7. AdapterIsEquipped'
    <2> SUFFICES ASSUME w # None, ~w.deleting, Standing(Deployment)
                 PROVE  \A r \in Resources : Standing(r)
        BY <1>4, <1>5, Members DEF AdapterIsEquipped
    <2>1. Finalized(hc)
        BY Members DEF StackInv, StackUnderFinalizer, Finalized
    <2>2. Managing(hc)
        BY <1>3, <2>1 DEF Finalized, Managing
    <2> QED
        BY <2>2 DEF StackInv, AdapterIsEquipped, Managing
<1>8. CurrentIsTeardown'
    BY <1>1 DEF CurrentIsTeardown
<1>9. Progress'
    <2>1. Finalized(hc) => Finalized(hc)'
        BY <1>3, <1>4 DEF Finalized
    <2>2. Managing(hc)' => Managing(hc)
        BY <1>3, <1>4 DEF Managing
    <2> QED
        BY <1>1, <1>5, <2>1, <2>2 DEF StackInv, Progress
<1> QED
    BY <1>1, <1>4, <1>6, <1>7, <1>8, <1>9, SameStack DEF StackInv

\* restartAdapterDeployment keeps it, its Update never brings a deleted
\* Deployment back; so do crashes and upgrades.
LEMMA RestartInv ==
    ASSUME TypeOK, StackInv, RestartAdapterDeployment \/ Crash \/ Upgrade
    PROVE  StackInv'
<1>1. CASE RestartAdapterDeployment
    <2> DEFINE v == cached[Deployment]
    <2>1. /\ pend[Deployment] = <<>> /\ Put(Deployment, v)
          /\ UNCHANGED <<hcVars, cached, runVars>>
        BY <1>1 DEF RestartAdapterDeployment
    <2>2. v = stack[Deployment] /\ v \in Versions
        BY <2>1, Members DEF StackInv, StackWatch, TypeOK
    <2> HIDE DEF v
    <2>3. StackWatch' /\ \A q \in Resources : stack'[q] = stack[q]
        BY <2>1, <2>2, PutWatch, Members DEF StackInv
    <2>4. \A q \in Resources : Standing(q)' = Standing(q)
        BY <2>3 DEF Standing
    <2>5. CurrentIsTeardown'
        BY <2>1 DEF StackInv, CurrentIsTeardown, Doomed, runVars, hcVars
    <2>6. Progress'
        BY <2>1, <2>4 DEF StackInv, Progress, Finalized, Managing, runVars, hcVars
    <2>7. StackUnderFinalizer' /\ AdapterIsEquipped'
        BY <2>1, <2>4, Members
           DEF StackInv, StackUnderFinalizer, AdapterIsEquipped, hcVars
    <2> QED
        BY <2>1, <2>3, <2>5, <2>6, <2>7, SameHub DEF StackInv
<1>2. CASE Crash \/ Upgrade
    <2>1. /\ pc' = "idle" /\ ~current' /\ hcCache' = hc /\ hcPend' = <<>>
          /\ cached' = stack /\ pend' = [r \in Resources |-> <<>>]
          /\ UNCHANGED <<hc, stack>>
        BY <1>2 DEF Crash, Upgrade, StartOver
    <2>2. VersionsSound' /\ HubWatch'
        BY <2>1 DEF VersionsSound, HubWatch, Sound, Finalized, Managing, Doomed
    <2>3. StackWatch'
        BY <2>1 DEF StackWatch
    <2>4. CurrentIsTeardown' /\ Progress'
        BY <2>1 DEF CurrentIsTeardown, Progress
    <2>5. StackUnderFinalizer' /\ AdapterIsEquipped'
        BY <2>1 DEF StackInv, StackUnderFinalizer, AdapterIsEquipped, Standing
    <2> QED
        BY <2>2, <2>3, <2>4, <2>5 DEF StackInv
<1> QED
    BY <1>1, <1>2

-----------------------------------------------------------------------------
(* The theorems.                                                            *)

\* The inductive invariant holds initially.
LEMMA InitInv == Init => StackInv
BY Members DEF Init, StackInv, VersionsSound, HubWatch, StackWatch, CurrentIsTeardown,
   Progress, StackUnderFinalizer, AdapterIsEquipped, Standing, Sound, Managing,
   Doomed, Finalized

\* StackInv holds in every reachable state.
THEOREM StackInvariant == Spec => []StackInv
<1>1. TypeOK /\ StackInv /\ [Next]_vars => StackInv'
    <2> SUFFICES ASSUME TypeOK, StackInv, [Next]_vars PROVE StackInv'
        OBVIOUS
    <2>1. CASE UNCHANGED vars
        <3>1. UNCHANGED <<hcVars, stackVars, runVars>>
            BY <2>1 DEF vars
        <3>2. CurrentIsTeardown' /\ Progress' /\ StackUnderFinalizer' /\ AdapterIsEquipped'
            BY <3>1 DEF StackInv, CurrentIsTeardown, Progress, StackUnderFinalizer,
               AdapterIsEquipped, Standing, Finalized, Managing, Doomed, hcVars,
               stackVars, runVars
        <3> QED
            BY <3>1, <3>2, SameHub, SameStack DEF StackInv
    <2>2. CASE Next
        BY <2>2, StartInv, EnsureInv, TeardownInv, RemoveInv, InformersInv, AdminInv,
           RestartInv DEF Next, Reconciler, Surroundings
    <2> QED
        BY <2>1, <2>2
<1> QED
    BY InitInv, StackTypeCorrect, <1>1, PTL DEF Spec

\* No resource of the adapter stack stands without a HubConfig that carries
\* the adapter-cleanup finalizer.
THEOREM StackAlwaysUnderFinalizer == Spec => []StackUnderFinalizer
<1>1. StackInv => StackUnderFinalizer
    BY DEF StackInv
<1> QED
    BY StackInvariant, <1>1, PTL

\* The adapter of a HubConfig that is not being deleted is always equipped.
THEOREM AdapterAlwaysEquipped == Spec => []AdapterIsEquipped
<1>1. StackInv => AdapterIsEquipped
    BY DEF StackInv
<1> QED
    BY StackInvariant, <1>1, PTL

-----------------------------------------------------------------------------
(* Rest.                                                                    *)

\* A version the present release wrote is cached or on its way to the cache.
Shown(r) == cached[r] = release \/ \E n \in 1..Len(pend[r]) : pend[r][n] = release

\* Nothing was written by a release to come, and what shows the image of the
\* present one, however old, is not followed by that of an older one.
ReleaseInv ==
    \A r \in Resources : /\ stack[r] <= release
                         /\ Shown(r) => stack[r] \in {0, release}

\* A HubConfig that is being deleted carries the finalizer.
LeavingIsHeld == Doomed(hc) => Finalized(hc)

\* A run that ensures the stack of a HubConfig that changed under it is
\* followed by another.
EnsureIsFollowed == pc = "ensure" => queued \/ hcPend # <<>> \/ Managing(hc)

\* What is updated and lies behind the run is up to date.
PassedUpToDate == pc = "ensure" => \A r \in Updated : r < at => UpToDate(r)

RestInv ==
    ReleaseInv /\ LeavingIsHeld /\ EnsureIsFollowed /\ PassedUpToDate /\ RestIsSettled

\* A write of zero, of the present release or of what is there already keeps
\* ReleaseInv.
LEMMA WriteRelease ==
    ASSUME TypeOK, StackWatch, ReleaseInv, release' = release, cached' = cached,
           NEW r \in Resources, NEW v \in Versions, Put(r, v),
           v \in {0, release} \/ (pend[r] = <<>> /\ v = stack[r])
    PROVE  ReleaseInv'
<1>1. /\ \A q \in Resources : stack'[q] = IF q = r THEN v ELSE stack[q]
      /\ \A q \in Resources : pend'[q] = IF q = r THEN Append(pend[q], v) ELSE pend[q]
    BY DEF Put, TypeOK
<1>2. release \in Nat /\ release >= 1
    BY Numbers DEF TypeOK
<1>3. ASSUME NEW q \in Resources, q # r
      PROVE  stack'[q] <= release' /\ (Shown(q)' => stack'[q] \in {0, release'})
    <2>1. stack'[q] = stack[q] /\ pend'[q] = pend[q]
        BY <1>1, <1>3
    <2>2. Shown(q)' => Shown(q)
        BY <2>1 DEF Shown
    <2> QED
        BY <2>1, <2>2 DEF ReleaseInv
<1>4. stack'[r] <= release'
    BY <1>1, <1>2 DEF ReleaseInv
<1>5. ASSUME Shown(r)'
      PROVE  stack'[r] \in {0, release'}
    <2>1. CASE v \in {0, release}
        BY <1>1, <2>1
    <2>2. CASE pend[r] = <<>> /\ v = stack[r]
        <3>1. /\ Len(pend'[r]) = 1 /\ pend'[r][1] = v
              /\ cached'[r] = cached[r] /\ stack'[r] = stack[r]
            <4>1. pend'[r] = Append(pend[r], v) /\ stack'[r] = v
                BY <1>1
            <4>2. pend[r] \in Seq(Versions) /\ Len(pend[r]) = 0
                BY <2>2 DEF TypeOK
            <4> QED
                BY <2>2, <4>1, <4>2
        <3>2. cached[r] = stack[r]
            BY <2>2 DEF StackWatch
        <3>3. cached[r] = release
            BY <1>5, <2>2, <3>1, <3>2 DEF Shown
        <3> QED
            BY <3>1, <3>2, <3>3
    <2> QED
        BY <2>1, <2>2
<1> QED
    BY <1>3, <1>4, <1>5 DEF ReleaseInv

\* Every step keeps ReleaseInv: a cache is never ahead, and no release writes
\* after a later one.
LEMMA NextReleases ==
    ASSUME TypeOK, StackInv, ReleaseInv, [Next]_vars
    PROVE  ReleaseInv'
<1>0. release \in Nat /\ release >= 1 /\ release \in Versions /\ 0 \in Versions
    BY Numbers, Members DEF TypeOK, Versions
<1>1. CASE UNCHANGED <<stackVars, release>>
    BY <1>1 DEF ReleaseInv, Shown, stackVars
<1>2. CASE EnsureResource \/ EnsureDeployment
    <2>1. /\ Put(at, release) \/ UNCHANGED <<stack, pend>>
          /\ UNCHANGED <<cached, release>> /\ at \in Resources
        BY <1>2, EnsureEffect
    <2>2. CASE Put(at, release)
        BY <1>0, <2>1, <2>2, WriteRelease DEF StackInv
    <2> QED
        BY <1>1, <2>1, <2>2 DEF stackVars
<1>3. CASE TeardownResource
    <2>1. /\ Put(at, 0) \/ UNCHANGED <<stack, pend>>
          /\ UNCHANGED <<cached, release>> /\ at \in Resources
        BY <1>3, TeardownEffect
    <2>2. CASE Put(at, 0)
        BY <1>0, <2>1, <2>2, WriteRelease DEF StackInv
    <2> QED
        BY <1>1, <2>1, <2>2 DEF stackVars
<1>4. CASE RestartAdapterDeployment
    <2>1. /\ pend[Deployment] = <<>> /\ Put(Deployment, cached[Deployment])
          /\ UNCHANGED <<cached, release>>
        BY <1>4 DEF RestartAdapterDeployment
    <2>2. /\ Deployment \in Resources /\ cached[Deployment] \in Versions
          /\ cached[Deployment] = stack[Deployment]
        BY <2>1, Members DEF StackInv, StackWatch, TypeOK
    <2> QED
        BY <2>1, <2>2, WriteRelease DEF StackInv
<1>5. ASSUME NEW r \in Resources, Sync(r)
      PROVE  ReleaseInv'
    <2>1. UNCHANGED <<stack, release>>
        BY <1>5 DEF Sync
    <2>2. ASSUME NEW q \in Resources, Shown(q)'
          PROVE  Shown(q)
        <3>1. CASE q # r
            <4>1. pend'[q] = pend[q] /\ cached'[q] = cached[q]
                BY <1>5, <3>1 DEF Sync, TypeOK
            <4> QED
                BY <2>1, <2>2, <4>1 DEF Shown
        <3>2. CASE q = r
            <4> DEFINE s == pend[q]
            <4>1. /\ s # <<>> /\ s \in Seq(Versions)
                  /\ pend'[q] = Tail(s) /\ cached'[q] = Head(s)
                BY <1>5, <3>2 DEF Sync, TypeOK
            <4> HIDE DEF s
            <4>2. /\ 1 \in 1..Len(s) /\ Head(s) = s[1]
                  /\ \A n \in 1..Len(Tail(s)) :
                         n + 1 \in 1..Len(s) /\ Tail(s)[n] = s[n + 1]
                BY <4>1
            <4>3. \E n \in 1..Len(s) : s[n] = release
                BY <2>1, <2>2, <4>1, <4>2 DEF Shown
            <4> QED
                BY <4>3 DEF Shown, s
        <3> QED
            BY <3>1, <3>2
    <2> QED
        BY <2>1, <2>2 DEF ReleaseInv
<1>6. CASE Crash \/ Upgrade
    <2>1. /\ cached' = stack /\ pend' = [r \in Resources |-> <<>>] /\ stack' = stack
          /\ release' = release \/ release' = release + 1
        BY <1>6 DEF Crash, Upgrade, StartOver
    <2>2. ASSUME NEW r \in Resources
          PROVE  stack'[r] <= release' /\ (Shown(r)' => stack'[r] \in {0, release'})
        <3>1. stack[r] \in Nat /\ stack[r] <= release
            BY Numbers DEF TypeOK, Versions, ReleaseInv
        <3>2. Shown(r)' => stack[r] = release'
            BY <2>1 DEF Shown
        <3> QED
            BY <1>0, <2>1, <3>1, <3>2
    <2> QED
        BY <2>2 DEF ReleaseInv
<1>7. CASE \/ ReconcileNothing \/ AddFinalizer \/ StartEnsure \/ StartTeardown
           \/ RemoveFinalizer \/ SyncHubConfig
           \/ AdminCreate \/ AdminEdit \/ AdminDelete
    <2>1. UNCHANGED <<stackVars, release>>
        BY <1>7 DEF ReconcileNothing, AddFinalizer, StartEnsure, StartTeardown,
           RemoveFinalizer, SyncHubConfig, AdminCreate, AdminEdit, AdminDelete
    <2> QED
        BY <1>1, <2>1
<1>8. CASE UNCHANGED vars
    BY <1>1, <1>8 DEF vars
<1> QED
    BY <1>2, <1>3, <1>4, <1>5, <1>6, <1>7, <1>8
       DEF Next, Reconciler, Informers, Surroundings

\* What an ensuring step that does not fail leaves of the resource it is at,
\* also where only the cache said that the Deployment has the image.
LEMMA EnsurePasses ==
    ASSUME TypeOK, ReleaseInv, EnsureResource \/ EnsureDeployment, ~Return(TRUE)
    PROVE  /\ \A q \in Resources : q # at => stack'[q] = stack[q]
           /\ stack'[at] # 0
           /\ at \in Updated \cup {Deployment} => stack'[at] = release
           /\ (NextPart /\ at # Deployment) \/ (Return(FALSE) /\ at = Deployment)
<1>1. at \in Resources /\ release # 0 /\ release \in Versions
    <2>1. at \in Resources
        BY EnsureEffect
    <2>2. release # 0 /\ release \in Versions
        BY Numbers DEF TypeOK, Versions
    <2> QED
        BY <2>1, <2>2
<1>2. Put(at, release) => /\ \A q \in Resources : q # at => stack'[q] = stack[q]
                          /\ stack'[at] = release
    BY <1>1 DEF Put, TypeOK
<1>3. CASE EnsureResource
    BY <1>1, <1>2, <1>3 DEF EnsureResource
<1>4. CASE EnsureDeployment
    <2>1. cached[at] = release /\ stack[at] # 0 => stack[at] = release
        BY <1>1 DEF ReleaseInv, Shown
    <2> QED
        BY <1>1, <1>2, <1>4, <2>1 DEF EnsureDeployment
<1> QED
    BY <1>3, <1>4

\* Every step keeps a HubConfig that is being deleted under its finalizer.
LEMMA NextLeaving ==
    ASSUME TypeOK, StackInv, LeavingIsHeld, [Next]_vars
    PROVE  LeavingIsHeld'
<1> USE DEF LeavingIsHeld, Doomed, Finalized
<1>1. CASE UNCHANGED hc
    BY <1>1
<1>2. CASE AddFinalizer /\ hc' # hc
    <2>1. hcCache # None /\ ~hcCache.deleting /\ hc' = [hcCache EXCEPT !.finalizer = TRUE]
        BY <1>2 DEF AddFinalizer, PutHubConfig
    <2>2. hcCache \in HubConfigs
        BY <2>1, HubConfigFields DEF TypeOK
    <2> QED
        BY <2>1, <2>2, PutFinalizer
<1>3. CASE RemoveFinalizer
    BY <1>3 DEF RemoveFinalizer, PutHubConfig
<1>4. CASE AdminCreate
    BY <1>4 DEF AdminCreate, PutHubConfig
<1>5. CASE AdminEdit
    <2>1. /\ hc \in HubConfigs /\ hc # None /\ hc.edit < MaxEdit
          /\ hc' = [hc EXCEPT !.edit = @ + 1]
        BY <1>5, HubConfigFields DEF AdminEdit, PutHubConfig, TypeOK
    <2> QED
        BY <2>1, PutEdit
<1>6. CASE AdminDelete
    <2>1. /\ hc \in HubConfigs /\ hc # None
          /\ hc' = IF hc.finalizer THEN [hc EXCEPT !.deleting = TRUE] ELSE None
        BY <1>6, HubConfigFields DEF AdminDelete, PutHubConfig, TypeOK
    <2> QED
        BY <2>1, PutDeleting
<1>7. CASE \/ ReconcileNothing \/ StartEnsure \/ StartTeardown
           \/ EnsureResource \/ EnsureDeployment \/ TeardownResource
           \/ Informers \/ RestartAdapterDeployment \/ Crash \/ Upgrade
           \/ UNCHANGED vars
    BY <1>1, <1>7
       DEF ReconcileNothing, StartEnsure, StartTeardown, EnsureResource,
           EnsureDeployment, TeardownResource, Informers, SyncHubConfig, Sync,
           RestartAdapterDeployment, Crash, Upgrade, StartOver, vars, hcVars
<1> QED
    BY <1>1, <1>2, <1>3, <1>4, <1>5, <1>6, <1>7 DEF Next, Reconciler, Surroundings

\* A write of the HubConfig leaves an event on its way.
LEMMA PutLeavesEvent ==
    ASSUME TypeOK, NEW w, PutHubConfig(w)
    PROVE  hcPend' # <<>>
<1> DEFINE S == MaybeHC \cup {w}
<1>1. hcPend \in Seq(S) /\ w \in S /\ hcPend' = Append(hcPend, w)
    BY DEF TypeOK, PutHubConfig
<1> HIDE DEF S
<1>2. Len(hcPend') = Len(hcPend) + 1 /\ Len(hcPend) \in Nat
    BY <1>1
<1>3. CASE hcPend' = <<>>
    BY <1>2, <1>3
<1> QED
    BY <1>3

\* A step that leaves the run, the HubConfig, the release and what stands
\* alone, and forgets no work, keeps what is said of a run and of rest.
LEMMA RestAside ==
    ASSUME RestInv, UNCHANGED <<pc, at, hc, release>>,
           \A r \in Resources : stack'[r] = stack[r],
           queued' \/ (queued' = queued /\ hcPend' = hcPend)
    PROVE  EnsureIsFollowed' /\ PassedUpToDate' /\ RestIsSettled'
<1>1. Updated \subseteq Resources /\ Deployment \in Resources
    BY StackAssumption DEF Resources, Deployment
<1>2. EnsureIsFollowed'
    BY DEF RestInv, EnsureIsFollowed, Managing
<1>3. PassedUpToDate'
    BY <1>1 DEF RestInv, PassedUpToDate, UpToDate
<1>4. RestIsSettled'
    BY <1>1 DEF RestInv, RestIsSettled, UpToDate, Standing
<1> QED
    BY <1>2, <1>3, <1>4

\* A run starts with nothing behind it, and one that finds nothing to do is
\* right, unless an event is on its way.
LEMMA StartRest ==
    ASSUME TypeOK, StackInv, RestInv,
           ReconcileNothing \/ AddFinalizer \/ StartEnsure \/ StartTeardown
    PROVE  EnsureIsFollowed' /\ PassedUpToDate' /\ RestIsSettled'
<1> USE DEF EnsureIsFollowed, PassedUpToDate, RestIsSettled
<1>0. ~(\E r \in Updated : r < 1)
    BY StackAssumption
<1>1. CASE ReconcileNothing
    <2>1. /\ pc' = "idle" /\ UNCHANGED hcVars /\ UNCHANGED stackVars
          /\ hcCache = None \/ (Doomed(hcCache) /\ ~hcCache.finalizer)
        BY <1>1 DEF ReconcileNothing, Doomed, runVars
    <2>2. hcPend = <<>> => hcCache = hc
        BY DEF StackInv, HubWatch
    <2>3. hcPend = <<>> => hc = None
        BY <2>1, <2>2 DEF RestInv, LeavingIsHeld, Finalized
    <2>4. hc = None => \A r \in Resources : ~Standing(r)
        BY DEF StackInv, StackUnderFinalizer
    <2> QED
        BY <2>1, <2>3, <2>4 DEF hcVars, stackVars, Standing
<1>2. CASE StartEnsure
    <2>1. pc' = "ensure" /\ at' = 1 /\ UNCHANGED hcVars /\ Managing(hcCache)
        BY <1>2 DEF StartEnsure, Begin, Managing
    <2>2. hcPend = <<>> => hcCache = hc
        BY DEF StackInv, HubWatch
    <2> QED
        BY <1>0, <2>1, <2>2 DEF hcVars, Managing
<1>3. CASE StartTeardown
    BY <1>3 DEF StartTeardown, Begin
<1>4. CASE AddFinalizer
    <2>1. CASE pc' = "ensure" /\ at' = 1 /\ PutHubConfig([hcCache EXCEPT !.finalizer = TRUE])
        <3>1. hcPend' # <<>>
            BY <2>1, PutLeavesEvent
        <3> QED
            BY <1>0, <2>1, <3>1
    <2>2. CASE UNCHANGED <<runVars, queued>>
        BY <1>4, <2>2 DEF AddFinalizer, runVars
    <2> QED
        BY <1>4, <2>1, <2>2 DEF AddFinalizer, Begin
<1> QED
    BY <1>1, <1>2, <1>3, <1>4

\* ensureAdapterStack leaves everything up to date behind it, and at its end
\* the whole stack.
LEMMA EnsureRest ==
    ASSUME TypeOK, StackInv, RestInv, EnsureResource \/ EnsureDeployment
    PROVE  EnsureIsFollowed' /\ PassedUpToDate' /\ RestIsSettled'
<1>1. /\ pc = "ensure" /\ at \in Resources /\ UNCHANGED <<hc, hcPend, release>>
      /\ Updated \subseteq Resources
    <2>1. Updated \subseteq Resources
        BY StackAssumption DEF Resources, Deployment
    <2> QED
        BY <2>1, EnsureEffect DEF hcVars
<1>2. CASE Return(TRUE)
    BY <1>2 DEF Return, EnsureIsFollowed, PassedUpToDate, RestIsSettled
<1>3. CASE ~Return(TRUE) /\ NextPart
    <2>1. pc' = "ensure" /\ at' = at + 1 /\ queued' = queued
        BY <1>1, <1>3 DEF NextPart
    <2>2. EnsureIsFollowed' /\ RestIsSettled'
        BY <1>1, <2>1 DEF RestInv, EnsureIsFollowed, RestIsSettled, Managing
    <2>3. ASSUME NEW r \in Updated, r < at'
          PROVE  stack'[r] = release
        <3>1. r = at \/ (r < at /\ r # at)
            BY <1>1, <2>1, <2>3, Numbers
        <3>2. r < at => stack[r] = release
            BY <1>1 DEF RestInv, PassedUpToDate, UpToDate
        <3> QED
            BY <1>1, <1>3, <3>1, <3>2, EnsurePasses DEF RestInv
    <2> QED
        BY <1>1, <2>2, <2>3 DEF PassedUpToDate, UpToDate
<1>4. CASE ~Return(TRUE) /\ Return(FALSE) /\ at = Deployment
    <2>1. pc' = "idle" /\ queued' = queued
        BY <1>4 DEF Return, TypeOK
    <2>2. SUFFICES ASSUME ~queued, hcPend = <<>>
                   PROVE  /\ hc # None /\ ~hc.deleting
                          /\ \A r \in Resources : stack'[r] # 0
                          /\ \A r \in Updated \cup {Deployment} : stack'[r] = release
        BY <1>1, <2>1
           DEF EnsureIsFollowed, PassedUpToDate, RestIsSettled, Standing, UpToDate
    <2>3. Managing(hc)
        BY <1>1, <2>2 DEF RestInv, EnsureIsFollowed
    <2>4. /\ \A q \in Resources : q # at => stack'[q] = stack[q]
          /\ stack'[at] # 0 /\ stack'[at] = release
        BY <1>4, EnsurePasses DEF RestInv
    <2>5. \A r \in Resources : r = at \/ r < at
        BY <1>4, Numbers
    <2>6. \A r \in Resources : r < at => stack[r] # 0
        BY <1>1 DEF StackInv, Progress, Standing
    <2>7. \A r \in Updated : r < at => stack[r] = release
        BY <1>1 DEF RestInv, PassedUpToDate, UpToDate
    <2>8. \A r \in Resources : stack'[r] # 0
        BY <2>4, <2>5, <2>6
    <2>9. \A r \in Updated \cup {Deployment} : stack'[r] = release
        BY <1>1, <1>4, <2>4, <2>5, <2>7
    <2> QED
        BY <2>3, <2>8, <2>9 DEF Managing
<1> QED
    BY <1>2, <1>3, <1>4, EnsurePasses DEF RestInv

\* A teardown that is not through is followed by another run, and one that is
\* through leaves an event.
LEMMA TeardownRest ==
    ASSUME TypeOK, TeardownResource \/ RemoveFinalizer
    PROVE  EnsureIsFollowed' /\ PassedUpToDate' /\ RestIsSettled'
<1> USE DEF EnsureIsFollowed, PassedUpToDate, RestIsSettled
<1>1. CASE TeardownResource
    BY <1>1, TeardownEffect DEF Return
<1>2. CASE RemoveFinalizer
    <2>1. pc' = "idle" /\ (queued' \/ PutHubConfig(None))
        BY <1>2 DEF RemoveFinalizer, Return
    <2>2. PutHubConfig(None) => hcPend' # <<>>
        BY PutLeavesEvent
    <2> QED
        BY <2>1, <2>2
<1> QED
    BY <1>1, <1>2

\* Informers, restarts of the Deployment, the administrator and a new process
\* leave work behind wherever there is some.
LEMMA OtherRest ==
    ASSUME TypeOK, StackInv, RestInv, Informers \/ Surroundings \/ UNCHANGED vars
    PROVE  EnsureIsFollowed' /\ PassedUpToDate' /\ RestIsSettled'
<1>1. CASE SyncHubConfig \/ (\E r \in Resources : Sync(r)) \/ UNCHANGED vars
    BY <1>1, RestAside DEF SyncHubConfig, Sync, vars, hcVars, stackVars, runVars
<1>2. CASE RestartAdapterDeployment
    <2>1. /\ Put(Deployment, cached[Deployment]) /\ pend[Deployment] = <<>>
          /\ UNCHANGED <<pc, at, hc, release, queued, hcPend>>
        BY <1>2 DEF RestartAdapterDeployment, hcVars, runVars
    <2>2. cached[Deployment] = stack[Deployment]
        BY <2>1, Members DEF StackInv, StackWatch
    <2>3. \A r \in Resources : stack'[r] = stack[r]
        BY <2>1, <2>2, Members DEF Put, TypeOK
    <2> QED
        BY <2>1, <2>3, RestAside
<1>3. CASE AdminCreate \/ AdminEdit \/ AdminDelete
    <2>1. PICK w : PutHubConfig(w)
        BY <1>3 DEF AdminCreate, AdminEdit, AdminDelete
    <2>2. hcPend' # <<>>
        BY <2>1, PutLeavesEvent
    <2>3. UNCHANGED <<pc, at, stack, release>>
        BY <1>3 DEF AdminCreate, AdminEdit, AdminDelete, Outdate, stackVars
    <2> QED
        BY <2>2, <2>3
           DEF RestInv, EnsureIsFollowed, PassedUpToDate, RestIsSettled, UpToDate
<1>4. CASE Crash \/ Upgrade
    <2>1. /\ pc' = "idle" /\ queued' = (hc # None) /\ UNCHANGED <<hc, stack>>
        BY <1>4 DEF Crash, Upgrade, StartOver
    <2>2. hc = None => \A r \in Resources : ~Standing(r)
        BY DEF StackInv, StackUnderFinalizer
    <2> QED
        BY <2>1, <2>2 DEF EnsureIsFollowed, PassedUpToDate, RestIsSettled, Standing
<1> QED
    BY <1>1, <1>2, <1>3, <1>4 DEF Informers, Surroundings

\* Whenever the reconciler is idle, with no run queued and no event of the
\* HubConfig on its way, the stack is what the HubConfig asks for: whole and
\* up to date, or gone with it.  The safety half of DeletionCompletes and
\* StackSettles, for any number of resources, incarnations, releases and
\* faults: a reconciler that runs whenever it has to can stop only there.
THEOREM RestIsAlwaysSettled == Spec => []RestIsSettled
<1>1. Init => RestInv
    <2> SUFFICES ASSUME Init PROVE RestInv
        OBVIOUS
    <2>1. ReleaseInv
        <3>1. /\ release = 1 /\ \A r \in Resources : stack[r] = 0
            BY DEF Init
        <3> QED
            BY <3>1 DEF ReleaseInv
    <2>2. hc = None /\ pc = "idle" /\ \A r \in Resources : ~Standing(r)
        BY DEF Init, Standing
    <2> QED
        BY <2>1, <2>2 DEF RestInv, LeavingIsHeld, EnsureIsFollowed, PassedUpToDate,
           RestIsSettled, Doomed
<1>2. TypeOK /\ StackInv /\ RestInv /\ [Next]_vars => RestInv'
    <2> SUFFICES ASSUME TypeOK, StackInv, RestInv, [Next]_vars PROVE RestInv'
        OBVIOUS
    <2>1. ReleaseInv' /\ LeavingIsHeld'
        BY NextReleases, NextLeaving DEF RestInv
    <2>2. EnsureIsFollowed' /\ PassedUpToDate' /\ RestIsSettled'
        BY StartRest, EnsureRest, TeardownRest, OtherRest DEF Next, Reconciler
    <2> QED
        BY <2>1, <2>2 DEF RestInv
<1>3. RestInv => RestIsSettled
    BY DEF RestInv
<1> QED
    BY <1>1, <1>2, <1>3, StackTypeCorrect, StackInvariant, PTL DEF Spec

=============================================================================

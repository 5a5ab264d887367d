--------------------------- MODULE SpokeReadyProofs ---------------------------
(***************************************************************************)
(* For every value of the constants: Ready=True is earned.  Two writers    *)
(* replace the whole condition list of the live object from copies of      *)
(* unknown age, so the property cannot be shown of the live object alone:  *)
(* every list that is stored, cached, on its way or held by a goroutine    *)
(* has to have it.                                                         *)
(***************************************************************************)
EXTENDS SpokeControllerProofs

Earned(c) ==
    StatusOf(c["Ready"]) = "True" => /\ StatusOf(c["Provisioned"]) = "True"
                                     /\ StatusOf(c["AdaptersReady"]) = "True"

EarnedSC(v) == v # None => Earned(v.conditions)

AllEarned ==
    /\ EarnedSC(sc) /\ EarnedSC(scCache) /\ EarnedSC(loc)
    /\ \A i \in 1..Len(scPend) : EarnedSC(scPend[i])
    /\ Earned(hsnap.conditions)

PastProvision == {"adapters", "credential", "label", "restart"}

ProvisionedFirst ==
    pc \in PastProvision => StatusOf(loc.conditions["Provisioned"]) = "True"

ReadyInv == AllEarned /\ ProvisionedFirst

-----------------------------------------------------------------------------
(* What the edits of a condition list preserve.                             *)

\* A list stays earned when Connected is replaced, as checkSpoke does.
LEMMA EarnedOther ==
    ASSUME NEW c \in Lists, Earned(c), NEW r, NEW g
    PROVE  Earned(SetCondition(c, "Connected", r, g))
BY DEF Earned, SetCondition, Lists, CondTypes, StatusOf

\* A list whose Ready is set to False, as failWithCondition does, is
\* earned.
LEMMA EarnedFailed ==
    ASSUME NEW c \in Lists, NEW r \in FalseReasons, NEW g
    PROVE  Earned(SetCondition(c, "Ready", r, g))
BY DEF Earned, SetCondition, Lists, CondTypes, StatusOf, TrueReasons, FalseReasons

\* A list stays earned when Provisioned is set to True.
LEMMA EarnedProvisioned ==
    ASSUME NEW c \in Lists, Earned(c), NEW g
    PROVE  LET d == SetCondition(c, "Provisioned", "ProvisioningSucceeded", g)
           IN  Earned(d) /\ StatusOf(d["Provisioned"]) = "True"
BY DEF Earned, SetCondition, Lists, CondTypes, StatusOf, TrueReasons

\* The list of a successful run is earned if Provisioned was set before.
LEMMA EarnedManaged ==
    ASSUME NEW c \in Lists, StatusOf(c["Provisioned"]) = "True", NEW g
    PROVE  Earned(SetCondition(SetCondition(c, "AdaptersReady", "AdaptersReady", g),
                               "Ready", "Managed", g))
BY DEF Earned, SetCondition, Lists, CondTypes, StatusOf, TrueReasons

-----------------------------------------------------------------------------
(* Writes to the SpokeCluster.                                              *)

\* A write of an earned list leaves all versions earned.
LEMMA PutSCEarned ==
    ASSUME TypeOK, AllEarned, NEW w \in MaybeSC, PutSC(w), EarnedSC(w)
    PROVE  /\ EarnedSC(sc')
           /\ \A i \in 1..Len(scPend') : EarnedSC(scPend'[i])
<1>1. CASE w = sc
    BY <1>1 DEF PutSC, AllEarned
<1>2. CASE w # sc
    <2>1. sc' = w /\ scPend' = Append(scPend, w) /\ scPend \in Seq(MaybeSC)
        BY <1>2 DEF PutSC, TypeOK
    <2>2. /\ Len(scPend') = Len(scPend) + 1
          /\ scPend'[Len(scPend) + 1] = w
          /\ \A i \in 1..Len(scPend) : scPend'[i] = scPend[i]
          /\ Len(scPend) \in Nat
        BY <2>1
    <2>3. ASSUME NEW i \in 1..Len(scPend')
          PROVE  EarnedSC(scPend'[i])
        <3>1. i = Len(scPend) + 1 \/ i \in 1..Len(scPend)
            BY <2>2
        <3> QED
            BY <2>2, <3>1 DEF AllEarned
    <2> QED
        BY <2>1, <2>3
<1> QED
    BY <1>1, <1>2

\* A write that goes with a run step, and none of the two undoes the invariant.
LEMMA EarnedFrame ==
    ASSUME TypeOK, ReadyInv, NEW w \in MaybeSC, PutSC(w), EarnedSC(w),
           scCache' = scCache, EarnedSC(loc'), Earned(hsnap'.conditions),
           ProvisionedFirst'
    PROVE  ReadyInv'
<1>1. EarnedSC(sc') /\ \A i \in 1..Len(scPend') : EarnedSC(scPend'[i])
    BY PutSCEarned DEF ReadyInv
<1>2. EarnedSC(scCache')
    BY DEF ReadyInv, AllEarned
<1> QED
    BY <1>1, <1>2 DEF ReadyInv, AllEarned

\* Writing nothing is a write of an earned list, the live one.
LEMMA NoWriteEarned ==
    ASSUME TypeOK, ReadyInv, UNCHANGED <<sc, scPend>>
    PROVE  sc \in MaybeSC /\ PutSC(sc) /\ EarnedSC(sc)
BY DEF TypeOK, PutSC, ReadyInv, AllEarned

\* The local copy of a run has a condition list and it is earned.
LEMMA LocEarned ==
    ASSUME TypeOK, ReadyInv, pc # "idle"
    PROVE  /\ loc \in SpokeClusters /\ loc # None
           /\ loc.conditions \in Lists
           /\ Earned(loc.conditions)
BY LocType, SpokeClusterFields DEF ReadyInv, AllEarned, EarnedSC

\* Replacing the conditions of a SpokeCluster by an earned list.
LEMMA EarnedPut ==
    ASSUME NEW v \in SpokeClusters, NEW c \in Lists, Earned(c)
    PROVE  LET w == [v EXCEPT !.conditions = c]
           IN  w \in SpokeClusters /\ EarnedSC(w) /\ w.conditions = c
BY PutConditions DEF EarnedSC

-----------------------------------------------------------------------------
(* One lemma per group of actions.                                          *)

\* The first steps of Reconcile keep the invariant.
LEMMA StartReady ==
    ASSUME TypeOK, ReadyInv,
           ReconcileNothing \/ AddFinalizer \/ StartDelete \/ StartUnmanage \/ StartManage
    PROVE  ReadyInv'
<1> USE DEF scVars, kcVars, spokeVars, remoteVars, runVars, healthVars, bounds
<1>1. scCache' = scCache /\ Earned(hsnap'.conditions)
    BY DEF ReconcileNothing, AddFinalizer, StartDelete, StartUnmanage, StartManage,
       ReadyInv, AllEarned
<1>2. \/ loc' = loc /\ pc' = pc
      \/ loc' = scCache /\ pc' \in {"deprovision", "kubeconfig"}
    <2>1. CASE ReconcileNothing \/ AddFinalizer
        <3>1. UNCHANGED <<loc, pc>>
            BY <2>1 DEF ReconcileNothing, AddFinalizer
        <3> QED
            BY <3>1
    <2>2. CASE StartDelete \/ StartUnmanage \/ StartManage
        <3>1. loc' = scCache
            BY <2>2 DEF StartDelete, StartUnmanage, StartManage, Begin
        <3>2. pc' = "deprovision" \/ pc' = "kubeconfig"
            BY <2>2 DEF StartDelete, StartUnmanage, StartManage, Begin
        <3> QED
            BY <3>1, <3>2
    <2> QED
        BY <2>1, <2>2
<1>3. EarnedSC(loc')
    BY <1>2 DEF ReadyInv, AllEarned
<1>4. ProvisionedFirst'
    BY <1>2 DEF ReadyInv, ProvisionedFirst, PastProvision
<1>5. CASE UNCHANGED <<sc, scPend>>
    BY <1>1, <1>3, <1>4, <1>5, NoWriteEarned, EarnedFrame
<1>6. CASE AddFinalizer /\ ~UNCHANGED <<sc, scPend>>
    <2> DEFINE w == [scCache EXCEPT !.finalizer = TRUE]
    <2>1. PutSC(w) /\ scCache # None /\ scCache \in SpokeClusters
        BY <1>6 DEF AddFinalizer, TypeOK, MaybeSC
    <2>2. w \in SpokeClusters /\ w.conditions = scCache.conditions
        BY <2>1, PutFinalizer
    <2>3. EarnedSC(scCache)
        BY DEF ReadyInv, AllEarned
    <2> HIDE DEF w
    <2>4. w \in MaybeSC /\ EarnedSC(w)
        BY <2>1, <2>2, <2>3 DEF EarnedSC, MaybeSC
    <2> QED
        BY <1>1, <1>3, <1>4, <2>1, <2>4, EarnedFrame
<1> QED
    BY <1>5, <1>6 DEF ReconcileNothing, StartDelete, StartUnmanage, StartManage

\* failWithCondition and handleConnectivityFailure keep it.
LEMMA FailWithReady ==
    ASSUME TypeOK, ReadyInv, pc # "idle",
           NEW t \in CondTypes, NEW r \in FalseReasons, NEW result, FailWith(t, r, result)
    PROVE  EarnedSC(loc') /\ ProvisionedFirst'
<1>1. loc \in SpokeClusters /\ loc.conditions \in Lists /\ loc.gen \in 0..MaxGen
    BY LocEarned, SpokeClusterFields
<1> DEFINE d == SetCondition(loc.conditions, t, r, loc.gen)
           c == SetCondition(d, "Ready", r, loc.gen)
<1>2. r \in Reasons /\ "Ready" \in CondTypes
    BY DEF Reasons, CondTypes
<1>3. d \in Lists
    BY <1>1, <1>2, SetConditionType
<1>4. loc' = [loc EXCEPT !.conditions = c]
    BY DEF FailWith
<1> HIDE DEF d
<1>5. c \in Lists /\ Earned(c)
    BY <1>1, <1>2, <1>3, SetConditionType, EarnedFailed
<1> HIDE DEF c
<1>6. EarnedSC(loc')
    BY <1>1, <1>4, <1>5, EarnedPut
<1>7. pc' = "patch"
    BY DEF FailWith
<1> QED
    BY <1>6, <1>7 DEF ProvisionedFirst, PastProvision

\* The successful end of the managed path keeps it.
LEMMA SucceedReady ==
    ASSUME TypeOK, ReadyInv, pc \in PastProvision, Succeed
    PROVE  EarnedSC(loc') /\ ProvisionedFirst'
<1>1. loc \in SpokeClusters /\ loc.conditions \in Lists /\ loc.gen \in 0..MaxGen
    BY LocEarned, SpokeClusterFields DEF PastProvision
<1>2. StatusOf(loc.conditions["Provisioned"]) = "True"
    BY DEF ReadyInv, ProvisionedFirst
<1> DEFINE d == SetCondition(loc.conditions, "AdaptersReady", "AdaptersReady", loc.gen)
           c == SetCondition(d, "Ready", "Managed", loc.gen)
<1>3. d \in Lists
    BY <1>1, SetConditionType DEF Reasons, TrueReasons, CondTypes
<1>4. Earned(c) /\ loc' = [loc EXCEPT !.conditions = c]
    BY <1>1, <1>2, EarnedManaged DEF Succeed
<1> HIDE DEF d
<1>5. c \in Lists
    BY <1>1, <1>3, SetConditionType DEF Reasons, TrueReasons, CondTypes
<1> HIDE DEF c
<1>6. EarnedSC(loc')
    BY <1>1, <1>4, <1>5, EarnedPut
<1>7. pc' = "patch"
    BY DEF Succeed
<1> QED
    BY <1>6, <1>7 DEF ProvisionedFirst, PastProvision

\* Steps that only move on from a step where Provisioned is already True.
LEMMA ProceedReady ==
    ASSUME TypeOK, ReadyInv, NEW step, Proceed(step),
           step \in PastProvision => pc \in PastProvision
    PROVE  EarnedSC(loc') /\ ProvisionedFirst'
BY DEF Proceed, ReadyInv, AllEarned, ProvisionedFirst

\* What the managed path does to the local copy.
LEMMA ManageLoc ==
    ASSUME TypeOK, ReadyInv,
           \/ EnsureStandingKubeconfig \/ CheckConnectivity \/ Provision
           \/ ProvisionAdapter \/ EnsureAdapterCredentialSecret
           \/ EnsureAdapterLabel \/ RestartAdapter
    PROVE  EarnedSC(loc') /\ ProvisionedFirst'
<1>a. /\ {"CredentialError", "ConnectionFailed", "ProvisioningFailed",
          "AdaptersFailed"} \subseteq FalseReasons
      /\ {"Connected", "Provisioned", "AdaptersReady"} \subseteq CondTypes
    BY DEF FalseReasons, CondTypes
<1>1. CASE EnsureStandingKubeconfig
    <2>1. pc = "kubeconfig"
          /\ (Proceed("probe") \/ FailWith("Connected", "CredentialError", "error"))
        BY <1>1 DEF EnsureStandingKubeconfig
    <2> QED
        BY <1>a, <2>1, FailWithReady, ProceedReady DEF PastProvision
<1>2. CASE CheckConnectivity
    <2> DEFINE c == SetCondition(loc.conditions, "Connected", "ConnectionSucceeded",
                                 loc.gen)
    <2>1. /\ pc = "probe"
          /\ \/ FailWith("Connected", "CredentialError", "error")
             \/ FailWith("Connected", "ConnectionFailed", "ok")
             \/ loc' = [loc EXCEPT !.conditions = c] /\ pc' = "provision"
        BY <1>2 DEF CheckConnectivity
    <2>2. loc \in SpokeClusters /\ loc.gen \in 0..MaxGen /\ loc.conditions \in Lists
          /\ Earned(loc.conditions)
        BY <2>1, LocEarned, SpokeClusterFields
    <2>3. c \in Lists /\ Earned(c)
        BY <2>2, SetConditionType, EarnedOther DEF Reasons, TrueReasons, CondTypes
    <2> HIDE DEF c
    <2>4. CASE loc' = [loc EXCEPT !.conditions = c] /\ pc' = "provision"
        BY <2>2, <2>3, <2>4, EarnedPut DEF ProvisionedFirst, PastProvision
    <2> QED
        BY <1>a, <2>1, <2>4, FailWithReady
<1>3. CASE Provision
    <2> DEFINE c == SetCondition(loc.conditions, "Provisioned", "ProvisioningSucceeded",
                                 loc.gen)
    <2>1. /\ pc = "provision"
          /\ \/ FailWith("Provisioned", "ProvisioningFailed", "error")
             \/ loc' = [loc EXCEPT !.conditions = c]
        BY <1>3 DEF Provision
    <2>2. loc \in SpokeClusters /\ loc.gen \in 0..MaxGen /\ loc.conditions \in Lists
          /\ Earned(loc.conditions)
        BY <2>1, LocEarned, SpokeClusterFields
    <2>3. c \in Lists /\ Earned(c) /\ StatusOf(c["Provisioned"]) = "True"
        BY <2>2, SetConditionType, EarnedProvisioned DEF Reasons, TrueReasons, CondTypes
    <2> HIDE DEF c
    <2>4. CASE loc' = [loc EXCEPT !.conditions = c]
        BY <2>2, <2>3, <2>4, EarnedPut DEF ProvisionedFirst
    <2> QED
        BY <1>a, <2>1, <2>4, FailWithReady
<1>4. CASE ProvisionAdapter \/ EnsureAdapterCredentialSecret \/ RestartAdapter
    <2>1. /\ pc \in PastProvision /\ pc # "idle"
          /\ \/ Proceed("credential") \/ Proceed("label") \/ Succeed
             \/ FailWith("AdaptersReady", "AdaptersFailed", "error")
        BY <1>4 DEF ProvisionAdapter, EnsureAdapterCredentialSecret, RestartAdapter,
           PastProvision
    <2> QED
        BY <1>a, <2>1, FailWithReady, ProceedReady, SucceedReady
<1>5. CASE EnsureAdapterLabel
    <2>1. /\ pc \in PastProvision /\ pc # "idle"
          /\ \/ Succeed
             \/ FailWith("AdaptersReady", "AdaptersFailed", "error")
             \/ loc' = [loc EXCEPT !.label = TRUE]
        BY <1>5 DEF EnsureAdapterLabel, PastProvision
    <2>2. loc \in SpokeClusters /\ Earned(loc.conditions)
        BY <2>1, LocEarned
    <2>3. CASE loc' = [loc EXCEPT !.label = TRUE]
        <3>1. loc'.conditions = loc.conditions
            BY <2>2, <2>3, PutLabel
        <3> QED
            BY <2>1, <2>2, <3>1 DEF EarnedSC, ReadyInv, ProvisionedFirst
    <2> QED
        BY <1>a, <2>1, <2>3, FailWithReady, SucceedReady
<1> QED
    BY <1>1, <1>2, <1>3, <1>4, <1>5

\* The steps of the managed path keep it.
LEMMA ManageReady ==
    ASSUME TypeOK, ReadyInv,
           \/ EnsureStandingKubeconfig \/ CheckConnectivity \/ Provision
           \/ ProvisionAdapter \/ EnsureAdapterCredentialSecret
           \/ EnsureAdapterLabel \/ RestartAdapter
    PROVE  ReadyInv'
<1> USE DEF scVars, kcVars, spokeVars, remoteVars, runVars, healthVars, bounds
<1>1. EarnedSC(loc') /\ ProvisionedFirst'
    BY ManageLoc
<1>2. scCache' = scCache /\ Earned(hsnap'.conditions)
    BY DEF EnsureStandingKubeconfig, CheckConnectivity, Provision, ProvisionAdapter,
       EnsureAdapterCredentialSecret, EnsureAdapterLabel, RestartAdapter,
       ReadyInv, AllEarned
<1>3. CASE UNCHANGED <<sc, scPend>>
    BY <1>1, <1>2, <1>3, NoWriteEarned, EarnedFrame
<1>4. CASE EnsureAdapterLabel /\ ~UNCHANGED <<sc, scPend>>
    <2> DEFINE w == [scCache EXCEPT !.label = TRUE]
    <2>1. PutSC(w) /\ scCache # None /\ scCache \in SpokeClusters
        BY <1>4 DEF EnsureAdapterLabel, TypeOK, MaybeSC
    <2>2. w \in SpokeClusters /\ w.conditions = scCache.conditions
        BY <2>1, PutLabel
    <2>3. EarnedSC(scCache)
        BY DEF ReadyInv, AllEarned
    <2> HIDE DEF w
    <2>4. w \in MaybeSC /\ EarnedSC(w)
        BY <2>1, <2>2, <2>3 DEF EarnedSC, MaybeSC
    <2> QED
        BY <1>1, <1>2, <2>1, <2>4, EarnedFrame
<1> QED
    BY <1>3, <1>4 DEF EnsureStandingKubeconfig, CheckConnectivity, Provision,
       ProvisionAdapter, EnsureAdapterCredentialSecret, RestartAdapter

\* cleanupSpokeResources and unmanageSpoke keep it.
LEMMA CleanupReady ==
    ASSUME TypeOK, ReadyInv,
           \/ DeprovisionSpoke \/ DeleteStandingKubeconfig
           \/ DeleteAdapterCredential \/ RestartAfterCleanup
    PROVE  ReadyInv'
<1> USE DEF scVars, kcVars, spokeVars, remoteVars, runVars, healthVars, bounds
<1>1. UNCHANGED <<sc, scPend, scCache>> /\ Earned(hsnap'.conditions)
    BY DEF DeprovisionSpoke, DeleteStandingKubeconfig, DeleteAdapterCredential,
       RestartAfterCleanup, ReadyInv, AllEarned
<1>2. pc' \notin PastProvision
    BY DEF DeprovisionSpoke, DeleteStandingKubeconfig, DeleteAdapterCredential,
       RestartAfterCleanup, CleanupStep, PastProvision
<1>3. EarnedSC(loc')
    <2>1. CASE loc' = loc
        BY <2>1 DEF ReadyInv, AllEarned
    <2>2. CASE RestartAfterCleanup /\ after # "delete"
        <3> DEFINE c == SetCondition(NoConditions, "Ready", after, loc.gen)
        <3>1. loc' = [loc EXCEPT !.conditions = c] /\ pc = "restartAfterCleanup"
            BY <2>2 DEF RestartAfterCleanup
        <3>2. after \in FalseReasons
            BY <2>2, <3>1 DEF TypeOK, CleanupPcs, FalseReasons
        <3>3. loc \in SpokeClusters /\ loc.gen \in 0..MaxGen
            BY <3>1, LocEarned, SpokeClusterFields
        <3>4. c \in Lists /\ Earned(c)
            BY <3>2, <3>3, NoConditionsType, SetConditionType, EarnedFailed
               DEF Reasons, CondTypes
        <3> HIDE DEF c
        <3> QED
            BY <3>1, <3>3, <3>4, EarnedPut
    <2> QED
        BY <2>1, <2>2 DEF DeprovisionSpoke, DeleteStandingKubeconfig,
           DeleteAdapterCredential, RestartAfterCleanup, CleanupStep
<1>4. ProvisionedFirst'
    BY <1>2 DEF ProvisionedFirst
<1> QED
    BY <1>1, <1>3, <1>4, NoWriteEarned, EarnedFrame

\* patchStatus keeps it: the list it sends is earned.
LEMMA StatusWriteReady ==
    ASSUME TypeOK, ReadyInv, PatchStatus \/ RemoveFinalizer
    PROVE  ReadyInv'
<1> USE DEF scVars, kcVars, spokeVars, remoteVars, runVars, healthVars, bounds
<1>1. scCache' = scCache /\ Earned(hsnap'.conditions)
    BY DEF PatchStatus, RemoveFinalizer, ReadyInv, AllEarned
<1>2. pc' = "idle" /\ loc' = None
    BY DEF PatchStatus, RemoveFinalizer, Return
<1>3. EarnedSC(loc') /\ ProvisionedFirst'
    BY <1>2 DEF EarnedSC, ProvisionedFirst, PastProvision
<1>4. CASE UNCHANGED <<sc, scPend>>
    BY <1>1, <1>3, <1>4, NoWriteEarned, EarnedFrame
<1>5. CASE PatchStatus /\ ~UNCHANGED <<sc, scPend>>
    <2> DEFINE w == [sc EXCEPT !.conditions = loc.conditions]
    <2>1. PutSC(w) /\ sc # None /\ pc # "idle"
        BY <1>5 DEF PatchStatus
    <2>2. sc \in SpokeClusters /\ loc.conditions \in Lists /\ Earned(loc.conditions)
        BY <2>1, LocEarned DEF TypeOK, MaybeSC
    <2>3. w \in MaybeSC /\ EarnedSC(w)
        BY <2>2, EarnedPut DEF MaybeSC
    <2> HIDE DEF w
    <2> QED
        BY <1>1, <1>3, <2>1, <2>3, EarnedFrame
<1>6. CASE RemoveFinalizer /\ ~UNCHANGED <<sc, scPend>>
    <2>1. PutSC(None) /\ None \in MaybeSC /\ EarnedSC(None)
        BY <1>6 DEF RemoveFinalizer, MaybeSC, EarnedSC
    <2> QED
        BY <1>1, <1>3, <2>1, EarnedFrame
<1> QED
    BY <1>4, <1>5, <1>6

\* A delivery to the cache keeps it.
LEMMA InformerReady ==
    ASSUME TypeOK, ReadyInv, SyncSpokeCluster \/ SyncKubeconfig
    PROVE  ReadyInv'
<1> USE DEF scVars, kcVars, spokeVars, remoteVars, runVars, healthVars, bounds
<1>1. CASE SyncKubeconfig
    BY <1>1 DEF SyncKubeconfig, ReadyInv, AllEarned, ProvisionedFirst
<1>2. CASE SyncSpokeCluster
    <2>1. /\ scPend # <<>> /\ scPend \in Seq(MaybeSC)
          /\ scCache' = Head(scPend) /\ scPend' = Tail(scPend)
          /\ UNCHANGED <<sc, pc, loc, hsnap>>
        BY <1>2 DEF SyncSpokeCluster, TypeOK
    <2>2. /\ 1 \in 1..Len(scPend) /\ scCache' = scPend[1]
          /\ \A i \in 1..Len(scPend') :
                 i + 1 \in 1..Len(scPend) /\ scPend'[i] = scPend[i + 1]
        BY <2>1
    <2>3. EarnedSC(scCache') /\ \A i \in 1..Len(scPend') : EarnedSC(scPend'[i])
        BY <2>2 DEF ReadyInv, AllEarned
    <2> QED
        BY <2>1, <2>3 DEF ReadyInv, AllEarned, ProvisionedFirst
<1> QED
    BY <1>1, <1>2

\* The health handler keeps it: it sends back a list it read, with
\* Connected replaced.
LEMMA HealthReady ==
    ASSUME TypeOK, ReadyInv, HealthHandler
    PROVE  ReadyInv'
<1> USE DEF scVars, kcVars, spokeVars, remoteVars, runVars, healthVars, bounds
<1>0. Earned(NoSnapshot.conditions)
    BY DEF NoSnapshot, NoConditions, Earned, StatusOf, Absent, CondTypes
<1>1. /\ scCache' = scCache /\ EarnedSC(loc') /\ ProvisionedFirst'
      /\ Earned(hsnap'.conditions)
    <2>1. UNCHANGED <<scCache, pc, loc>>
        BY DEF HealthHandler, CheckAll, CheckSpoke, PatchConnected
    <2>2. hsnap' = hsnap \/ hsnap' = NoSnapshot
          \/ (scCache # None /\ hsnap'.conditions = scCache.conditions)
        BY DEF HealthHandler, CheckAll, CheckSpoke, PatchConnected, HealthIdle
    <2> QED
        BY <1>0, <2>1, <2>2 DEF ReadyInv, AllEarned, EarnedSC, ProvisionedFirst
<1>2. CASE UNCHANGED <<sc, scPend>>
    BY <1>1, <1>2, NoWriteEarned, EarnedFrame
<1>3. CASE PatchConnected /\ ~UNCHANGED <<sc, scPend>>
    <2> DEFINE w == [sc EXCEPT !.conditions = HealthConditions]
    <2>1. PutSC(w) /\ sc # None /\ hnew # "-"
        BY <1>3 DEF PatchConnected, TypeOK
    <2>2. sc \in SpokeClusters /\ HealthConditions \in Lists
        BY <2>1, HealthConditionsType DEF TypeOK, MaybeSC
    <2>3. hsnap.conditions \in Lists /\ Earned(hsnap.conditions)
        BY DEF TypeOK, Snapshots, Lists, ReadyInv, AllEarned
    <2>4. Earned(HealthConditions)
        BY <2>3, EarnedOther DEF HealthConditions
    <2>5. w \in MaybeSC /\ EarnedSC(w)
        BY <2>2, <2>4, EarnedPut DEF MaybeSC
    <2> HIDE DEF w
    <2> QED
        BY <1>1, <2>1, <2>5, EarnedFrame
<1> QED
    BY <1>2, <1>3 DEF HealthHandler, CheckAll, CheckSpoke

\* The surroundings keep it.
LEMMA EnvironmentReady ==
    ASSUME TypeOK, ReadyInv, Environment \/ CollectGarbage \/ StartAdapter
    PROVE  ReadyInv'
<1> USE DEF scVars, kcVars, spokeVars, remoteVars, runVars, healthVars, bounds
<1>1. CASE ChangeHubConfig \/ Resync \/ StartAdapter \/ SpokeSide \/ CollectGarbage
    <2>1. UNCHANGED <<sc, scCache, scPend, pc, loc, hsnap>>
        BY <1>1 DEF ChangeHubConfig, Resync, StartAdapter, SpokeSide, CollectGarbage
    <2> QED
        BY <2>1 DEF ReadyInv, AllEarned, ProvisionedFirst
<1>2. CASE Crash
    <2>1. /\ sc' = sc /\ scCache' = sc /\ scPend' = <<>> /\ pc' = "idle" /\ loc' = None
          /\ hsnap' = NoSnapshot
        BY <1>2 DEF Crash, HealthIdle
    <2>2. Earned(hsnap'.conditions)
        BY <2>1 DEF NoSnapshot, NoConditions, Earned, StatusOf, Absent, CondTypes
    <2> QED
        BY <2>1, <2>2 DEF ReadyInv, AllEarned, EarnedSC, ProvisionedFirst, PastProvision
<1>3. CASE AdminCreate \/ AdminEdit \/ AdminDelete
    <2>1. /\ scCache' = scCache /\ EarnedSC(loc') /\ Earned(hsnap'.conditions)
          /\ ProvisionedFirst'
        BY <1>3 DEF AdminCreate, AdminEdit, AdminDelete, ReadyInv, AllEarned,
           ProvisionedFirst
    <2>2. CASE AdminCreate
        <3> DEFINE w == [uid |-> uids + 1, gen |-> 1, deleting |-> FALSE,
                         finalizer |-> FALSE, label |-> FALSE,
                         conditions |-> NoConditions]
        <3>1. PutSC(w) /\ uids + 1 \in Uids /\ 1 \in Gens
            BY <2>2, CreateType DEF AdminCreate
        <3>2. w \in MaybeSC
            BY <3>1, NoConditionsType DEF SpokeClusters, Lists, MaybeSC
        <3>3. EarnedSC(w)
            BY DEF EarnedSC, Earned, NoConditions, StatusOf, Absent, CondTypes
        <3> HIDE DEF w
        <3> QED
            BY <2>1, <3>1, <3>2, <3>3, EarnedFrame
    <2>3. CASE AdminEdit
        <3> DEFINE w == [sc EXCEPT !.gen = @ + 1]
        <3>1. PutSC(w) /\ sc \in SpokeClusters /\ sc # None /\ sc.gen < MaxGen
            BY <2>3 DEF AdminEdit, TypeOK, MaybeSC
        <3>2. w \in SpokeClusters /\ w.conditions = sc.conditions
            BY <3>1, PutGeneration
        <3> HIDE DEF w
        <3>3. w \in MaybeSC /\ EarnedSC(w)
            BY <3>1, <3>2 DEF ReadyInv, AllEarned, EarnedSC, MaybeSC
        <3> QED
            BY <2>1, <3>1, <3>3, EarnedFrame
    <2>4. CASE AdminDelete
        <3> DEFINE w == [sc EXCEPT !.deleting = TRUE]
        <3>1. /\ PutSC(w) \/ PutSC(None)
              /\ sc \in SpokeClusters /\ sc # None
            BY <2>4 DEF AdminDelete, TypeOK, MaybeSC
        <3>2. w \in SpokeClusters /\ w.conditions = sc.conditions
            BY <3>1, PutDeleting
        <3> HIDE DEF w
        <3>3. w \in MaybeSC /\ EarnedSC(w)
            BY <3>1, <3>2 DEF ReadyInv, AllEarned, EarnedSC, MaybeSC
        <3>4. None \in MaybeSC /\ EarnedSC(None)
            BY DEF EarnedSC, MaybeSC
        <3> QED
            BY <2>1, <3>1, <3>3, <3>4, EarnedFrame
    <2> QED
        BY <1>3, <2>2, <2>3, <2>4
<1> QED
    BY <1>1, <1>2, <1>3 DEF Environment

-----------------------------------------------------------------------------
(* The theorem.                                                             *)

\* The inductive invariant holds initially.
LEMMA InitReady == Init => ReadyInv
<1> SUFFICES ASSUME Init PROVE ReadyInv
    OBVIOUS
<1>1. Earned(hsnap.conditions)
    BY DEF Init, NoSnapshot, NoConditions, Earned, StatusOf, Absent, CondTypes
<1> QED
    BY <1>1 DEF Init, ReadyInv, AllEarned, EarnedSC, ProvisionedFirst, PastProvision

\* Ready=True of the live object always comes with Provisioned=True and
\* AdaptersReady=True, whichever of the two status writers wrote last.
THEOREM ReadyAlwaysEarned == Spec => []ReadyIsEarned
<1>1. TypeOK /\ ReadyInv /\ [Next]_vars => ReadyInv'
    <2> SUFFICES ASSUME TypeOK, ReadyInv, [Next]_vars PROVE ReadyInv'
        OBVIOUS
    <2>1. CASE UNCHANGED vars
        BY <2>1 DEF vars, scVars, runVars, healthVars, ReadyInv, AllEarned,
           ProvisionedFirst
    <2>2. CASE Reconciler
        BY <2>2, StartReady, ManageReady, CleanupReady, StatusWriteReady
           DEF Reconciler
    <2>3. CASE Next /\ ~Reconciler
        BY <2>3, HealthReady, InformerReady, EnvironmentReady DEF Next
    <2> QED
        BY <2>1, <2>2, <2>3
<1>2. ReadyInv => ReadyIsEarned
    BY DEF ReadyInv, AllEarned, EarnedSC, Earned, ReadyIsEarned, Status
<1> QED
    BY InitReady, TypeCorrect, <1>1, <1>2, PTL DEF Spec

=============================================================================

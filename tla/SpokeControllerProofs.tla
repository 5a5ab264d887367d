------------------------ MODULE SpokeControllerProofs ------------------------
(***************************************************************************)
(* Proofs about SpokeController for every value of its constants.          *)
(***************************************************************************)
EXTENDS SpokeController, TLAPS

Lists == [CondTypes -> Conditions]

Reasons == TrueReasons \cup FalseReasons \cup {"Absent"}

-----------------------------------------------------------------------------
(* Types of the objects and of the updates the actions make to them.        *)

\* setCondition yields a condition list.
LEMMA SetConditionType ==
    ASSUME NEW list \in Lists, NEW type \in CondTypes,
           NEW reason \in Reasons, NEW gen \in 0..MaxGen
    PROVE  SetCondition(list, type, reason, gen) \in Lists
BY DEF SetCondition, Lists, Conditions, Reasons

\* The empty condition list is one.
LEMMA NoConditionsType == NoConditions \in Lists
BY ConstantsAssumption DEF NoConditions, Absent, Lists, Conditions

\* The fields of a SpokeCluster have their types.
LEMMA SpokeClusterFields ==
    ASSUME NEW v \in SpokeClusters
    PROVE  /\ v.uid \in Uids /\ v.gen \in Gens /\ v.gen \in 0..MaxGen
           /\ v.deleting \in BOOLEAN /\ v.finalizer \in BOOLEAN
           /\ v.label \in BOOLEAN /\ v.conditions \in Lists
           /\ v # None
BY ConstantsAssumption, NoneAssumption DEF SpokeClusters, Lists, Gens

\* Replacing the conditions keeps a SpokeCluster one.
LEMMA PutConditions ==
    ASSUME NEW v \in SpokeClusters, NEW c \in Lists
    PROVE  LET w == [v EXCEPT !.conditions = c] IN
           /\ w \in SpokeClusters
           /\ w.uid = v.uid /\ w.gen = v.gen /\ w.deleting = v.deleting
           /\ w.finalizer = v.finalizer /\ w.label = v.label
           /\ w.conditions = c
BY DEF SpokeClusters, Lists

\* Adding the finalizer keeps a SpokeCluster one.
LEMMA PutFinalizer ==
    ASSUME NEW v \in SpokeClusters
    PROVE  LET w == [v EXCEPT !.finalizer = TRUE] IN
           /\ w \in SpokeClusters
           /\ w.uid = v.uid /\ w.deleting = v.deleting
           /\ w.finalizer /\ w.conditions = v.conditions
BY DEF SpokeClusters

\* Setting the adapter label keeps a SpokeCluster one.
LEMMA PutLabel ==
    ASSUME NEW v \in SpokeClusters
    PROVE  LET w == [v EXCEPT !.label = TRUE] IN
           /\ w \in SpokeClusters
           /\ w.uid = v.uid /\ w.gen = v.gen /\ w.deleting = v.deleting
           /\ w.finalizer = v.finalizer /\ w.conditions = v.conditions
BY DEF SpokeClusters

\* A spec edit within the bound keeps a SpokeCluster one.
LEMMA PutGeneration ==
    ASSUME NEW v \in SpokeClusters, v.gen < MaxGen
    PROVE  LET w == [v EXCEPT !.gen = @ + 1] IN
           /\ w \in SpokeClusters
           /\ w.uid = v.uid /\ w.deleting = v.deleting
           /\ w.finalizer = v.finalizer /\ w.conditions = v.conditions
<1>1. v.gen \in Gens
    BY DEF SpokeClusters
<1>2. MaxGen \in Nat
    BY ConstantsAssumption
<1>3. v.gen + 1 \in Gens
    BY <1>1, <1>2 DEF Gens
<1> QED
    BY <1>3 DEF SpokeClusters

\* Marking a SpokeCluster as deleted keeps it one.
LEMMA PutDeleting ==
    ASSUME NEW v \in SpokeClusters
    PROVE  LET w == [v EXCEPT !.deleting = TRUE] IN
           /\ w \in SpokeClusters
           /\ w.uid = v.uid /\ w.deleting
           /\ w.finalizer = v.finalizer /\ w.conditions = v.conditions
BY DEF SpokeClusters

-----------------------------------------------------------------------------
(* Type correctness, one action at a time.                                  *)

\* A write of the SpokeCluster keeps the types of the object and its watch.
LEMMA PutSCType ==
    ASSUME TypeOK, NEW v \in MaybeSC, PutSC(v)
    PROVE  sc' \in MaybeSC /\ scPend' \in Seq(MaybeSC)
<1>1. CASE v = sc
    BY <1>1 DEF TypeOK, PutSC
<1>2. CASE v # sc
    <2>1. sc' = v /\ scPend' = Append(scPend, v)
        BY <1>2 DEF PutSC
    <2> QED
        BY <2>1 DEF TypeOK
<1> QED
    BY <1>1, <1>2

\* A write of the standing Secret keeps the types of the Secret and its
\* watch.
LEMMA PutKubeconfigType ==
    ASSUME TypeOK, NEW v \in MaybeKC, PutKubeconfig(v)
    PROVE  kc' \in MaybeKC /\ kcPend' \in Seq(MaybeKC)
<1>1. CASE v = kc
    BY <1>1 DEF TypeOK, PutKubeconfig
<1>2. CASE v # kc
    <2>1. kc' = v /\ kcPend' = Append(kcPend, v)
        BY <1>2 DEF PutKubeconfig
    <2> QED
        BY <2>1 DEF TypeOK
<1> QED
    BY <1>1, <1>2

\* The count of faults stays within its bound.
LEMMA FaultType ==
    ASSUME TypeOK, NoFault \/ Fault
    PROVE  faults' \in 0..MaxFaults
BY ConstantsAssumption DEF TypeOK, NoFault, Fault

\* The initial state is well typed.
LEMMA InitType == Init => TypeOK
<1> SUFFICES ASSUME Init PROVE TypeOK
    OBVIOUS
<1>1. NoSnapshot \in Snapshots
    BY NoConditionsType, ConstantsAssumption DEF NoSnapshot, Snapshots, Lists
<1>2. None \in MaybeSC /\ None \in MaybeKC
    BY DEF MaybeSC, MaybeKC
<1>3. MaxUid >= 0 /\ MaxEnv >= 0 /\ MaxFaults >= 0 /\ MaxSource >= 1
    BY ConstantsAssumption
<1>4. uids \in 0..MaxUid /\ env \in 0..MaxEnv /\ faults \in 0..MaxFaults
    BY <1>3, ConstantsAssumption DEF Init
<1>5. src \in 0..MaxSource /\ good \in 1..MaxSource /\ ac \in 0..MaxUid
    BY <1>3, ConstantsAssumption DEF Init
<1>6. scPend \in Seq(MaybeSC) /\ kcPend \in Seq(MaybeKC)
    BY DEF Init
<1>7. /\ sc \in MaybeSC /\ scCache \in MaybeSC /\ loc \in MaybeSC
      /\ kc \in MaybeKC /\ kcCache \in MaybeKC /\ cfg \in MaybeKC
    BY <1>2 DEF Init
<1> QED
    BY <1>1, <1>4, <1>5, <1>6, <1>7 DEF Init, TypeOK, Extent, CleanupPcs

\* Deliveries to the caches keep TypeOK.
LEMMA InformerType ==
    ASSUME TypeOK, SyncSpokeCluster \/ SyncKubeconfig
    PROVE  TypeOK'
<1>1. CASE SyncSpokeCluster
    <2>1. scCache' \in MaybeSC /\ scPend' \in Seq(MaybeSC)
        BY <1>1 DEF TypeOK, SyncSpokeCluster
    <2> QED
        BY <1>1, <2>1 DEF TypeOK, SyncSpokeCluster, kcVars, spokeVars,
           remoteVars, runVars, healthVars, bounds, CleanupPcs
<1>2. CASE SyncKubeconfig
    <2>1. kcCache' \in MaybeKC /\ kcPend' \in Seq(MaybeKC)
        BY <1>2 DEF TypeOK, SyncKubeconfig
    <2> QED
        BY <1>2, <2>1 DEF TypeOK, SyncKubeconfig, scVars, spokeVars,
           remoteVars, runVars, healthVars, bounds, CleanupPcs
<1> QED
    BY <1>1, <1>2

\* A run that is under way has a local copy.
LEMMA LocType ==
    ASSUME TypeOK, pc # "idle"
    PROVE  loc \in SpokeClusters
BY DEF TypeOK, MaybeSC

\* What failWithCondition does to the local copy.
LEMMA FailWithType ==
    ASSUME TypeOK, pc # "idle",
           NEW type \in CondTypes, NEW reason \in FalseReasons,
           NEW result \in {"ok", "error"},
           FailWith(type, reason, result)
    PROVE  /\ loc' \in SpokeClusters
           /\ loc'.uid = loc.uid
           /\ pc' = "patch" /\ after' = result
           /\ UNCHANGED <<cfg, cleanup, queued, current>>
           /\ loc'.conditions = SetCondition(SetCondition(loc.conditions, type, reason, loc.gen),
                                             "Ready", reason, loc.gen)
<1> DEFINE c1 == SetCondition(loc.conditions, type, reason, loc.gen)
           c2 == SetCondition(c1, "Ready", reason, loc.gen)
<1>1. loc \in SpokeClusters
    BY LocType
<1>2. loc.conditions \in Lists /\ loc.gen \in 0..MaxGen
    BY <1>1, SpokeClusterFields
<1>3. reason \in Reasons /\ "Ready" \in CondTypes
    BY DEF Reasons, CondTypes
<1>4. c1 \in Lists
    BY <1>2, <1>3, SetConditionType
<1>5. c2 \in Lists
    BY <1>2, <1>3, <1>4, SetConditionType
<1>6. loc' = [loc EXCEPT !.conditions = c2]
    BY DEF FailWith
<1> HIDE DEF c1, c2
<1>7. loc' \in SpokeClusters /\ loc'.uid = loc.uid /\ loc'.conditions = c2
    BY <1>1, <1>5, <1>6, PutConditions
<1> QED
    BY <1>7 DEF FailWith, c1, c2

\* What setCondition of one type does to the local copy.
LEMMA SetOneType ==
    ASSUME TypeOK, pc # "idle", NEW type \in CondTypes, NEW reason \in Reasons,
           loc' = [loc EXCEPT !.conditions = SetCondition(@, type, reason, loc.gen)]
    PROVE  /\ loc' \in SpokeClusters
           /\ loc'.uid = loc.uid
           /\ loc'.conditions = SetCondition(loc.conditions, type, reason, loc.gen)
<1> DEFINE c == SetCondition(loc.conditions, type, reason, loc.gen)
<1>1. loc \in SpokeClusters
    BY LocType
<1>2. loc.conditions \in Lists /\ loc.gen \in 0..MaxGen
    BY <1>1, SpokeClusterFields
<1>3. c \in Lists
    BY <1>2, SetConditionType
<1>4. loc' = [loc EXCEPT !.conditions = c]
    OBVIOUS
<1> HIDE DEF c
<1> QED
    BY <1>1, <1>3, <1>4, PutConditions DEF c

\* The successful end of the managed path keeps the type of the local copy.
LEMMA SucceedType ==
    ASSUME TypeOK, pc # "idle", Succeed
    PROVE  /\ loc' \in SpokeClusters
           /\ loc'.uid = loc.uid
           /\ pc' = "patch" /\ after' = "ok"
           /\ UNCHANGED <<cfg, cleanup, queued, current>>
           /\ loc'.conditions =
                SetCondition(SetCondition(loc.conditions, "AdaptersReady",
                                          "AdaptersReady", loc.gen),
                             "Ready", "Managed", loc.gen)
<1> DEFINE c1 == SetCondition(loc.conditions, "AdaptersReady", "AdaptersReady", loc.gen)
           c2 == SetCondition(c1, "Ready", "Managed", loc.gen)
<1>1. loc \in SpokeClusters
    BY LocType
<1>2. loc.conditions \in Lists /\ loc.gen \in 0..MaxGen
    BY <1>1, SpokeClusterFields
<1>3. /\ {"Managed", "AdaptersReady"} \subseteq Reasons
      /\ {"Ready", "AdaptersReady"} \subseteq CondTypes
    BY DEF Reasons, TrueReasons, CondTypes
<1>4. c1 \in Lists
    BY <1>2, <1>3, SetConditionType
<1>5. c2 \in Lists
    BY <1>2, <1>3, <1>4, SetConditionType
<1>6. loc' = [loc EXCEPT !.conditions = c2]
    BY DEF Succeed
<1> HIDE DEF c1, c2
<1>7. loc' \in SpokeClusters /\ loc'.uid = loc.uid /\ loc'.conditions = c2
    BY <1>1, <1>5, <1>6, PutConditions
<1> QED
    BY <1>7 DEF Succeed, c1, c2

\* The first steps of Reconcile keep TypeOK.
LEMMA StartType ==
    ASSUME TypeOK,
           \/ ReconcileNothing \/ AddFinalizer
           \/ StartDelete \/ StartUnmanage \/ StartManage
    PROVE  TypeOK'
<1> USE DEF scVars, kcVars, spokeVars, remoteVars, runVars, healthVars, bounds,
            CleanupPcs
<1>1. CASE ReconcileNothing
    <2>1. queued' \in BOOLEAN
        BY <1>1 DEF ReconcileNothing
    <2>2. UNCHANGED <<scVars, kcVars, ac, hub, spokeVars, remoteVars, polling,
                      runVars, current, healthVars, bounds>>
        BY <1>1 DEF ReconcileNothing
    <2> QED
        BY <2>1, <2>2 DEF TypeOK
<1>2. CASE AddFinalizer
    <2>1. scCache \in SpokeClusters
        BY <1>2 DEF TypeOK, AddFinalizer, MaybeSC
    <2>2. [scCache EXCEPT !.finalizer = TRUE] \in MaybeSC
        BY <2>1, PutFinalizer DEF MaybeSC
    <2>3. sc' \in MaybeSC /\ scPend' \in Seq(MaybeSC)
        BY <1>2, <2>2, PutSCType DEF TypeOK, AddFinalizer
    <2>4. faults' \in 0..MaxFaults
        BY <1>2, FaultType DEF AddFinalizer
    <2> QED
        BY <1>2, <2>3, <2>4 DEF TypeOK, AddFinalizer
<1>3. CASE StartDelete
    <2>1. scCache \in MaybeSC /\ scCache # None
        BY <1>3 DEF TypeOK, StartDelete
    <2>2. /\ pc' = "deprovision" /\ loc' = scCache
          /\ after' \in {"delete"}
        BY <1>3 DEF StartDelete, Begin
    <2>3. /\ current' \in BOOLEAN /\ queued' \in BOOLEAN
          /\ UNCHANGED <<cfg, cleanup>>
        BY <1>3 DEF StartDelete, Begin
    <2>4. UNCHANGED <<scVars, kcVars, ac, hub, spokeVars, remoteVars, polling,
                      healthVars, bounds>>
        BY <1>3 DEF StartDelete
    <2>5. /\ sc' = sc /\ scCache' = scCache /\ scPend' = scPend
          /\ kc' = kc /\ kcCache' = kcCache /\ kcPend' = kcPend
          /\ ac' = ac /\ hub' = hub /\ src' = src /\ good' = good /\ up' = up
          /\ base' = base /\ adp' = adp /\ warned' = warned
          /\ polling' = polling /\ hpc' = hpc /\ hsnap' = hsnap /\ hnew' = hnew
          /\ uids' = uids /\ env' = env /\ faults' = faults
        BY <2>4 DEF scVars, kcVars, spokeVars, remoteVars, healthVars, bounds
    <2>6. /\ pc' \in {"idle", "patch", "removeFinalizer"} \cup CleanupPcs \cup ManagePcs
          /\ loc' \in MaybeSC
          /\ pc' # "idle" => loc' # None
          /\ pc' \in CleanupPcs =>
                 after' \in {"delete", "HubConfigMissing", "CredentialSourceMismatch"}
          /\ after' \in {"-", "ok", "error", "delete", "HubConfigMissing",
                         "CredentialSourceMismatch"}
        BY <2>1, <2>2 DEF CleanupPcs, ManagePcs
    <2> QED
        BY <2>3, <2>5, <2>6 DEF TypeOK
<1>4. CASE StartUnmanage
    <2>1. scCache \in MaybeSC /\ scCache # None
        BY <1>4 DEF TypeOK, StartUnmanage
    <2>2. /\ pc' = "deprovision" /\ loc' = scCache
          /\ after' \in {"HubConfigMissing", "CredentialSourceMismatch"}
        BY <1>4 DEF StartUnmanage, Begin
    <2>3. /\ current' \in BOOLEAN /\ queued' \in BOOLEAN
          /\ UNCHANGED <<cfg, cleanup>>
        BY <1>4 DEF StartUnmanage, Begin
    <2>4. UNCHANGED <<scVars, kcVars, ac, hub, spokeVars, remoteVars, polling,
                      healthVars, bounds>>
        BY <1>4 DEF StartUnmanage
    <2>5. /\ sc' = sc /\ scCache' = scCache /\ scPend' = scPend
          /\ kc' = kc /\ kcCache' = kcCache /\ kcPend' = kcPend
          /\ ac' = ac /\ hub' = hub /\ src' = src /\ good' = good /\ up' = up
          /\ base' = base /\ adp' = adp /\ warned' = warned
          /\ polling' = polling /\ hpc' = hpc /\ hsnap' = hsnap /\ hnew' = hnew
          /\ uids' = uids /\ env' = env /\ faults' = faults
        BY <2>4 DEF scVars, kcVars, spokeVars, remoteVars, healthVars, bounds
    <2>6. /\ pc' \in {"idle", "patch", "removeFinalizer"} \cup CleanupPcs \cup ManagePcs
          /\ loc' \in MaybeSC
          /\ pc' # "idle" => loc' # None
          /\ pc' \in CleanupPcs =>
                 after' \in {"delete", "HubConfigMissing", "CredentialSourceMismatch"}
          /\ after' \in {"-", "ok", "error", "delete", "HubConfigMissing",
                         "CredentialSourceMismatch"}
        BY <2>1, <2>2 DEF CleanupPcs, ManagePcs
    <2> QED
        BY <2>3, <2>5, <2>6 DEF TypeOK
<1>5. CASE StartManage
    <2>1. scCache \in MaybeSC /\ scCache # None
        BY <1>5 DEF TypeOK, StartManage
    <2>2. /\ pc' = "kubeconfig" /\ loc' = scCache
          /\ after' \in {"-"}
        BY <1>5 DEF StartManage, Begin
    <2>3. /\ current' \in BOOLEAN /\ queued' \in BOOLEAN
          /\ UNCHANGED <<cfg, cleanup>>
        BY <1>5 DEF StartManage, Begin
    <2>4. UNCHANGED <<scVars, kcVars, ac, hub, spokeVars, remoteVars, polling,
                      healthVars, bounds>>
        BY <1>5 DEF StartManage
    <2>5. /\ sc' = sc /\ scCache' = scCache /\ scPend' = scPend
          /\ kc' = kc /\ kcCache' = kcCache /\ kcPend' = kcPend
          /\ ac' = ac /\ hub' = hub /\ src' = src /\ good' = good /\ up' = up
          /\ base' = base /\ adp' = adp /\ warned' = warned
          /\ polling' = polling /\ hpc' = hpc /\ hsnap' = hsnap /\ hnew' = hnew
          /\ uids' = uids /\ env' = env /\ faults' = faults
        BY <2>4 DEF scVars, kcVars, spokeVars, remoteVars, healthVars, bounds
    <2>6. /\ pc' \in {"idle", "patch", "removeFinalizer"} \cup CleanupPcs \cup ManagePcs
          /\ loc' \in MaybeSC
          /\ pc' # "idle" => loc' # None
          /\ pc' \in CleanupPcs =>
                 after' \in {"delete", "HubConfigMissing", "CredentialSourceMismatch"}
          /\ after' \in {"-", "ok", "error", "delete", "HubConfigMissing",
                         "CredentialSourceMismatch"}
        BY <2>1, <2>2 DEF CleanupPcs, ManagePcs
    <2> QED
        BY <2>3, <2>5, <2>6 DEF TypeOK
<1> QED
    BY <1>1, <1>2, <1>3, <1>4, <1>5

\* The steps of the managed path keep TypeOK.
LEMMA ManageType ==
    ASSUME TypeOK,
           \/ EnsureStandingKubeconfig \/ CheckConnectivity \/ Provision
           \/ ProvisionAdapter \/ EnsureAdapterCredentialSecret
           \/ EnsureAdapterLabel \/ RestartAdapter
    PROVE  TypeOK'
<1> USE DEF scVars, kcVars, spokeVars, remoteVars, runVars, healthVars, bounds,
            CleanupPcs
<1>0. /\ CondTypes = {"Ready", "Connected", "Provisioned", "AdaptersReady"}
      /\ {"ConnectionFailed", "CredentialError", "ProvisioningFailed",
          "AdaptersFailed"} \subseteq FalseReasons
      /\ {"ConnectionSucceeded", "ProvisioningSucceeded"} \subseteq Reasons
    BY DEF CondTypes, FalseReasons, TrueReasons, Reasons
<1>a. MaybeSC = SpokeClusters \cup {None} /\ MaybeKC = Kubeconfigs \cup {None}
      /\ None \notin SpokeClusters
    BY NoneAssumption DEF MaybeSC, MaybeKC
<1>1. CASE EnsureStandingKubeconfig
    <2> DEFINE d == BuildStandingKubeconfig(loc, src)
    <2>1. pc # "idle" /\ pc = "kubeconfig"
        BY <1>1 DEF EnsureStandingKubeconfig
    <2>2. loc \in SpokeClusters
        BY <2>1, LocType
    <2>3. src # 0 => d \in MaybeKC
        BY <2>2, <1>a, SpokeClusterFields, ConstantsAssumption
           DEF BuildStandingKubeconfig, Kubeconfigs, TypeOK
    <2>4. kc' \in MaybeKC /\ kcPend' \in Seq(MaybeKC)
        BY <1>1, <2>3, PutKubeconfigType DEF TypeOK, EnsureStandingKubeconfig
    <2>5. faults' \in 0..MaxFaults
        BY <1>1, FaultType DEF EnsureStandingKubeconfig
    <2>6. \/ FailWith("Connected", "CredentialError", "error")
          \/ Proceed("probe")
        BY <1>1 DEF EnsureStandingKubeconfig
    <2>7. /\ loc' \in SpokeClusters /\ pc' \in {"patch", "probe"}
          /\ after' \in {after, "error"}
          /\ UNCHANGED <<cfg, cleanup, queued, current>>
        <3>1. CASE FailWith("Connected", "CredentialError", "error")
            BY <3>1, <2>1, <1>0, FailWithType
        <3>2. CASE Proceed("probe")
            BY <3>2, <2>2 DEF Proceed
        <3> QED
            BY <2>6, <3>1, <3>2
    <2> QED
        BY <1>1, <1>a, <2>4, <2>5, <2>7 DEF TypeOK, EnsureStandingKubeconfig, ManagePcs
<1>2. CASE CheckConnectivity
    <2>1. pc # "idle"
        BY <1>2 DEF CheckConnectivity
    <2>2. /\ loc' \in SpokeClusters /\ pc' \in {"patch", "provision"}
          /\ after' \in {after, "ok", "error"}
          /\ cfg' \in MaybeKC
          /\ UNCHANGED <<cleanup, queued, current>>
        <3>1. CASE FailWith("Connected", "CredentialError", "error")
            BY <3>1, <2>1, <1>0, FailWithType DEF TypeOK
        <3>2. CASE FailWith("Connected", "ConnectionFailed", "ok")
            BY <3>2, <2>1, <1>0, FailWithType DEF TypeOK
        <3>3. CASE kcCache # None /\ Reachable(kcCache)
            BY <3>3, <1>2, <2>1, <1>0, <3>1, <3>2, SetOneType DEF CheckConnectivity, TypeOK
        <3> QED
            BY <1>2, <3>1, <3>2, <3>3 DEF CheckConnectivity
    <2> QED
        BY <1>2, <1>a, <2>2 DEF TypeOK, CheckConnectivity, ManagePcs
<1>3. CASE Provision
    <2>1. pc # "idle"
        BY <1>3 DEF Provision
    <2>2. /\ loc' \in SpokeClusters /\ pc' \in {"patch", "adapters"}
          /\ after' \in {after, "error"}
          /\ UNCHANGED <<cfg, cleanup, queued, current>>
        <3>1. CASE FailWith("Provisioned", "ProvisioningFailed", "error")
            BY <3>1, <2>1, <1>0, FailWithType
        <3>2. CASE ~FailWith("Provisioned", "ProvisioningFailed", "error")
            BY <3>2, <1>3, <2>1, <1>0, SetOneType DEF Provision
        <3> QED
            BY <3>1, <3>2
    <2>3. base' \in Extent /\ warned' \in BOOLEAN
        BY <1>3 DEF Provision, TypeOK, Extent, Part
    <2>4. faults' \in 0..MaxFaults
        BY <1>3, FaultType DEF Provision
    <2> QED
        BY <1>3, <1>a, <2>2, <2>3, <2>4 DEF TypeOK, Provision, ManagePcs
<1>4. CASE ProvisionAdapter
    <2>1. pc # "idle" /\ loc \in SpokeClusters
        BY <1>4, LocType DEF ProvisionAdapter
    <2>2. /\ loc' \in SpokeClusters /\ pc' \in {"patch", "credential"}
          /\ after' \in {after, "error"}
          /\ UNCHANGED <<cfg, cleanup, queued, current>>
        <3>1. CASE FailWith("AdaptersReady", "AdaptersFailed", "error")
            BY <3>1, <2>1, <1>0, FailWithType
        <3>2. CASE Proceed("credential")
            BY <3>2, <2>1 DEF Proceed
        <3> QED
            BY <1>4, <3>1, <3>2 DEF ProvisionAdapter
    <2>3. adp' \in Extent /\ warned' \in BOOLEAN
        BY <1>4 DEF ProvisionAdapter, TypeOK, Extent, Part
    <2>4. faults' \in 0..MaxFaults
        BY <1>4, FaultType DEF ProvisionAdapter
    <2> QED
        BY <1>4, <1>a, <2>2, <2>3, <2>4 DEF TypeOK, ProvisionAdapter, ManagePcs
<1>5. CASE EnsureAdapterCredentialSecret
    <2>1. pc # "idle" /\ loc \in SpokeClusters
        BY <1>5, LocType DEF EnsureAdapterCredentialSecret
    <2>2. /\ loc' \in SpokeClusters /\ pc' \in {"patch", "label"}
          /\ after' \in {after, "error"}
          /\ UNCHANGED <<cfg, cleanup, queued, current>>
        <3>1. CASE FailWith("AdaptersReady", "AdaptersFailed", "error")
            BY <3>1, <2>1, <1>0, FailWithType
        <3>2. CASE Proceed("label")
            BY <3>2, <2>1 DEF Proceed
        <3> QED
            BY <1>5, <3>1, <3>2 DEF EnsureAdapterCredentialSecret
    <2>a. loc.uid \in 0..MaxUid
        <3>1. loc.uid \in 1..MaxUid
            BY <2>1, SpokeClusterFields DEF Uids
        <3> QED
            BY <3>1
    <2>b. ac' = loc.uid \/ ac' = ac
        BY <1>5 DEF EnsureAdapterCredentialSecret
    <2>3. ac' \in 0..MaxUid
        BY <2>a, <2>b DEF TypeOK
    <2>4. faults' \in 0..MaxFaults
        BY <1>5, FaultType DEF EnsureAdapterCredentialSecret
    <2> QED
        BY <1>5, <1>a, <2>2, <2>3, <2>4
           DEF TypeOK, EnsureAdapterCredentialSecret, ManagePcs
<1>6. CASE EnsureAdapterLabel
    <2>1. pc # "idle" /\ loc \in SpokeClusters
        BY <1>6, LocType DEF EnsureAdapterLabel
    <2>2. /\ loc' \in SpokeClusters /\ pc' \in {"patch", "restart"}
          /\ after' \in {after, "ok", "error"}
          /\ UNCHANGED <<cfg, cleanup, queued, current>>
        <3>1. CASE FailWith("AdaptersReady", "AdaptersFailed", "error")
            BY <3>1, <2>1, <1>0, FailWithType
        <3>2. CASE Succeed
            BY <3>2, <2>1, SucceedType
        <3>3. CASE loc' = [loc EXCEPT !.label = TRUE]
            BY <3>1, <3>2, <3>3, <1>6, <2>1, PutLabel DEF EnsureAdapterLabel
        <3> QED
            BY <1>6, <3>1, <3>2, <3>3 DEF EnsureAdapterLabel
    <2>3. scCache # None => [scCache EXCEPT !.label = TRUE] \in MaybeSC
        BY <1>a, PutLabel DEF TypeOK
    <2>4. sc' \in MaybeSC /\ scPend' \in Seq(MaybeSC)
        BY <1>6, <2>3, PutSCType DEF TypeOK, EnsureAdapterLabel
    <2>5. faults' \in 0..MaxFaults
        BY <1>6, FaultType DEF EnsureAdapterLabel
    <2> QED
        BY <1>6, <1>a, <2>2, <2>4, <2>5 DEF TypeOK, EnsureAdapterLabel, ManagePcs
<1>7. CASE RestartAdapter
    <2>1. pc # "idle"
        BY <1>7 DEF RestartAdapter
    <2>2. /\ loc' \in SpokeClusters /\ pc' = "patch"
          /\ after' \in {"ok", "error"}
          /\ UNCHANGED <<cfg, cleanup, queued, current>>
        <3>1. CASE FailWith("AdaptersReady", "AdaptersFailed", "error")
            BY <3>1, <2>1, <1>0, FailWithType
        <3>2. CASE Succeed
            BY <3>2, <2>1, SucceedType
        <3> QED
            BY <1>7, <3>1, <3>2 DEF RestartAdapter
    <2>3. faults' \in 0..MaxFaults
        BY <1>7, FaultType DEF RestartAdapter
    <2>4. polling' \in {"down", "no", "yes"}
        BY <1>7 DEF RestartAdapter, TypeOK, Restarted, Listing
    <2> QED
        BY <1>7, <1>a, <2>2, <2>3, <2>4 DEF TypeOK, RestartAdapter
<1> QED
    BY <1>1, <1>2, <1>3, <1>4, <1>5, <1>6, <1>7

\* The end of a run leaves a well-typed idle reconciler.
LEMMA ReturnType ==
    ASSUME TypeOK, NEW r \in BOOLEAN, Return(r)
    PROVE  /\ pc' = "idle" /\ loc' = None /\ after' = "-" /\ cfg' = None
           /\ queued' \in BOOLEAN /\ current' = FALSE /\ cleanup' = "-"
BY DEF TypeOK, Return

\* patchStatus and the removal of the finalizer keep TypeOK.
LEMMA StatusWriteType ==
    ASSUME TypeOK, PatchStatus \/ RemoveFinalizer
    PROVE  TypeOK'
<1> USE DEF scVars, kcVars, spokeVars, remoteVars, runVars, healthVars, bounds,
            CleanupPcs
<1>a. MaybeSC = SpokeClusters \cup {None} /\ MaybeKC = Kubeconfigs \cup {None}
    BY DEF MaybeSC, MaybeKC
<1>1. CASE PatchStatus
    <2>1. pc # "idle" /\ loc \in SpokeClusters
        BY <1>1, LocType DEF PatchStatus
    <2>2. sc # None => [sc EXCEPT !.conditions = loc.conditions] \in MaybeSC
        BY <1>a, <2>1, SpokeClusterFields, PutConditions DEF TypeOK
    <2>3. sc' \in MaybeSC /\ scPend' \in Seq(MaybeSC)
        BY <1>1, <2>2, PutSCType DEF TypeOK, PatchStatus
    <2>4. faults' \in 0..MaxFaults
        BY <1>1, FaultType DEF PatchStatus
    <2>5. Return(after = "error") \/ Return(TRUE)
        BY <1>1 DEF PatchStatus
    <2>6. /\ pc' = "idle" /\ loc' = None /\ after' = "-" /\ cfg' = None
          /\ queued' \in BOOLEAN /\ current' = FALSE /\ cleanup' = "-"
        BY <2>5, ReturnType
    <2> QED
        BY <1>1, <1>a, <2>3, <2>4, <2>6 DEF TypeOK, PatchStatus
<1>2. CASE RemoveFinalizer
    <2>1. sc' \in MaybeSC /\ scPend' \in Seq(MaybeSC)
        BY <1>2, <1>a, PutSCType DEF TypeOK, RemoveFinalizer
    <2>2. faults' \in 0..MaxFaults
        BY <1>2, FaultType DEF RemoveFinalizer
    <2>3. Return(FALSE) \/ Return(TRUE)
        BY <1>2 DEF RemoveFinalizer
    <2>4. /\ pc' = "idle" /\ loc' = None /\ after' = "-" /\ cfg' = None
          /\ queued' \in BOOLEAN /\ current' = FALSE /\ cleanup' = "-"
        BY <2>3, ReturnType
    <2> QED
        BY <1>2, <1>a, <2>1, <2>2, <2>4 DEF TypeOK, RemoveFinalizer
<1> QED
    BY <1>1, <1>2

\* The steps of cleanupSpokeResources keep TypeOK.
LEMMA CleanupType ==
    ASSUME TypeOK,
           \/ DeprovisionSpoke \/ DeleteStandingKubeconfig
           \/ DeleteAdapterCredential \/ RestartAfterCleanup
    PROVE  TypeOK'
<1> USE DEF scVars, kcVars, spokeVars, remoteVars, runVars, healthVars, bounds,
            CleanupPcs
<1>a. MaybeSC = SpokeClusters \cup {None} /\ MaybeKC = Kubeconfigs \cup {None}
      /\ None \notin SpokeClusters
    BY NoneAssumption DEF MaybeSC, MaybeKC
<1>1. CASE DeprovisionSpoke
    <2>1. base' \in Extent /\ adp' \in Extent
        BY <1>1 DEF DeprovisionSpoke, TypeOK, Extent, Rest
    <2>2. warned' \in BOOLEAN /\ cleanup' \in {"skipped", "failed", "done"}
        BY <1>1 DEF DeprovisionSpoke, TypeOK
    <2>3. faults' \in 0..MaxFaults
        BY <1>1, FaultType DEF DeprovisionSpoke
    <2>4. pc = "deprovision" /\ CleanupStep("deleteStanding")
        BY <1>1 DEF DeprovisionSpoke
    <2>5. UNCHANGED <<scVars, kcVars, ac, hub, spokeVars, polling, current,
                      healthVars, uids, env>>
        BY <1>1 DEF DeprovisionSpoke
    <2> QED
        BY <2>1, <2>2, <2>3, <2>4, <2>5 DEF TypeOK, CleanupStep
<1>2. CASE DeleteStandingKubeconfig
    <2>1. kc' \in MaybeKC /\ kcPend' \in Seq(MaybeKC)
        BY <1>2, <1>a, PutKubeconfigType DEF TypeOK, DeleteStandingKubeconfig
    <2>2. faults' \in 0..MaxFaults
        BY <1>2, FaultType DEF DeleteStandingKubeconfig
    <2> QED
        BY <1>2, <2>1, <2>2 DEF TypeOK, DeleteStandingKubeconfig, CleanupStep
<1>3. CASE DeleteAdapterCredential
    <2>1. ac' \in 0..MaxUid
        BY <1>3, ConstantsAssumption DEF TypeOK, DeleteAdapterCredential
    <2>2. faults' \in 0..MaxFaults
        BY <1>3, FaultType DEF DeleteAdapterCredential
    <2> QED
        BY <1>3, <2>1, <2>2 DEF TypeOK, DeleteAdapterCredential, CleanupStep
<1>4. CASE RestartAfterCleanup
    <2>1. pc # "idle" /\ loc \in SpokeClusters
        BY <1>4, LocType DEF RestartAfterCleanup
    <2>2. faults' \in 0..MaxFaults /\ polling' \in {"down", "no", "yes"}
        BY <1>4, FaultType DEF RestartAfterCleanup, TypeOK, Restarted, Listing
    <2>3. CASE after = "delete"
        BY <1>4, <2>1, <2>2, <2>3 DEF TypeOK, RestartAfterCleanup, CleanupStep
    <2>4. CASE after # "delete"
        <3> DEFINE c == SetCondition(NoConditions, "Ready", after, loc.gen)
        <3>1. loc.gen \in 0..MaxGen
            BY <2>1, SpokeClusterFields
        <3>2. after \in Reasons /\ "Ready" \in CondTypes
            BY <1>4, <2>4 DEF TypeOK, FalseReasons, Reasons, CondTypes, RestartAfterCleanup
        <3>3. c \in Lists
            BY <3>1, <3>2, NoConditionsType, SetConditionType
        <3>4. loc' = [loc EXCEPT !.conditions = c]
            BY <1>4, <2>4 DEF RestartAfterCleanup
        <3> HIDE DEF c
        <3>5. loc' \in SpokeClusters
            BY <2>1, <3>3, <3>4, PutConditions
        <3> QED
            BY <1>4, <1>a, <2>2, <2>4, <3>5 DEF TypeOK, RestartAfterCleanup
    <2> QED
        BY <2>3, <2>4
<1> QED
    BY <1>1, <1>2, <1>3, <1>4

\* An idle health handler is well typed.
LEMMA HealthIdleType ==
    ASSUME HealthIdle
    PROVE  hpc' = "idle" /\ hsnap' \in Snapshots /\ hnew' = "-"
BY NoConditionsType, ConstantsAssumption
   DEF HealthIdle, NoSnapshot, Snapshots, Lists

\* The list the health handler sends is a condition list.
LEMMA HealthConditionsType ==
    ASSUME TypeOK, hnew # "-"
    PROVE  HealthConditions \in Lists
<1>1. hsnap.conditions \in Lists /\ hsnap.gen \in 0..MaxGen
    BY DEF TypeOK, Snapshots, Lists
<1>2. hnew \in Reasons /\ "Connected" \in CondTypes
    BY DEF TypeOK, Reasons, TrueReasons, FalseReasons, CondTypes
<1> QED
    BY <1>1, <1>2, SetConditionType DEF HealthConditions

\* The steps of the health handler keep TypeOK.
LEMMA HealthType ==
    ASSUME TypeOK, HealthHandler
    PROVE  TypeOK'
<1> USE DEF scVars, kcVars, spokeVars, remoteVars, runVars, healthVars, bounds,
            CleanupPcs
<1>a. MaybeSC = SpokeClusters \cup {None}
    BY DEF MaybeSC
<1>1. CASE CheckAll
    <2>1. scCache \in SpokeClusters
        BY <1>1, <1>a DEF CheckAll, TypeOK
    <2>2. hsnap' \in Snapshots
        BY <1>1, <2>1, SpokeClusterFields DEF CheckAll, Snapshots, Lists
    <2> QED
        BY <1>1, <2>2 DEF TypeOK, CheckAll
<1>2. CASE CheckSpoke
    <2>1. \/ HealthIdle
          \/ hpc' = "patch" /\ hnew' = ProbeReason(kcCache) /\ UNCHANGED hsnap
        BY <1>2 DEF CheckSpoke
    <2>2. /\ hpc' \in {"idle", "patch"} /\ hsnap' \in Snapshots
          /\ hpc' = "patch" => hnew' # "-"
          /\ hnew' \in {"-", "ConnectionSucceeded", "ConnectionFailed"}
        BY <2>1, HealthIdleType DEF TypeOK, ProbeReason
    <2>3. UNCHANGED <<scVars, kcVars, ac, hub, spokeVars, remoteVars, polling,
                      queued, runVars, current, bounds>>
        BY <1>2 DEF CheckSpoke
    <2> QED
        BY <2>2, <2>3 DEF TypeOK
<1>3. CASE PatchConnected
    <2>0. hnew # "-"
        BY <1>3 DEF TypeOK, PatchConnected
    <2>1. HealthConditions \in Lists
        BY <2>0, HealthConditionsType
    <2>2. sc # None => [sc EXCEPT !.conditions = HealthConditions] \in MaybeSC
        BY <1>a, <2>1, PutConditions DEF TypeOK
    <2>3. sc' \in MaybeSC /\ scPend' \in Seq(MaybeSC)
        BY <1>3, <2>2, PutSCType DEF TypeOK, PatchConnected
    <2>4. faults' \in 0..MaxFaults
        BY <1>3, FaultType DEF PatchConnected
    <2>5. hpc' = "idle" /\ hsnap' \in Snapshots /\ hnew' = "-"
        BY <1>3, HealthIdleType DEF PatchConnected
    <2>6. current' \in BOOLEAN
        BY <1>3 DEF TypeOK, PatchConnected, Outdate
    <2> QED
        BY <1>3, <2>3, <2>4, <2>5, <2>6 DEF TypeOK, PatchConnected
<1> QED
    BY <1>1, <1>2, <1>3 DEF HealthHandler

\* The count of events stays within its bound.
LEMMA EnvStepType ==
    ASSUME TypeOK, NEW e, EnvStep(e)
    PROVE  env' \in 0..MaxEnv
BY ConstantsAssumption DEF TypeOK, EnvStep

\* A creation within the bound yields a new uid.
LEMMA CreateType ==
    ASSUME TypeOK, AdminCreate
    PROVE  uids' \in 0..MaxUid /\ uids + 1 \in Uids /\ 1 \in Gens
<1>1. uids \in 0..MaxUid
    BY DEF TypeOK
<1>2. uids < MaxUid /\ uids' = uids + 1
    BY DEF AdminCreate
<1>3. MaxUid \in Nat /\ MaxGen \in Nat \ {0}
    BY ConstantsAssumption
<1> QED
    BY <1>1, <1>2, <1>3 DEF Uids, Gens

\* The acts of the administrator keep TypeOK.
LEMMA AdminType ==
    ASSUME TypeOK, AdminCreate \/ AdminEdit \/ AdminDelete
    PROVE  TypeOK'
<1> USE DEF scVars, kcVars, spokeVars, remoteVars, runVars, healthVars, bounds,
            CleanupPcs
<1>a. MaybeSC = SpokeClusters \cup {None}
    BY DEF MaybeSC
<1>b. Outdate => current' \in BOOLEAN
    BY DEF TypeOK, Outdate
<1>1. CASE AdminCreate
    <2> DEFINE v == [uid |-> uids + 1, gen |-> 1, deleting |-> FALSE,
                     finalizer |-> FALSE, label |-> FALSE, conditions |-> NoConditions]
    <2>1. uids' \in 0..MaxUid /\ uids + 1 \in Uids /\ 1 \in Gens
        BY <1>1, CreateType
    <2>2. v \in MaybeSC
        BY <1>a, <2>1, NoConditionsType DEF SpokeClusters, Lists
    <2>3. PutSC(v)
        BY <1>1 DEF AdminCreate
    <2> HIDE DEF v
    <2>4. sc' \in MaybeSC /\ scPend' \in Seq(MaybeSC)
        BY <2>2, <2>3, PutSCType
    <2> QED
        BY <1>1, <1>b, <2>1, <2>4 DEF TypeOK, AdminCreate
<1>2. CASE AdminEdit
    <2>1. sc \in SpokeClusters /\ sc.gen < MaxGen
        BY <1>2, <1>a DEF AdminEdit, TypeOK
    <2>2. [sc EXCEPT !.gen = @ + 1] \in MaybeSC
        BY <1>a, <2>1, PutGeneration
    <2>3. sc' \in MaybeSC /\ scPend' \in Seq(MaybeSC)
        BY <1>2, <2>2, PutSCType DEF AdminEdit
    <2>4. env' \in 0..MaxEnv
        BY <1>2, EnvStepType DEF AdminEdit
    <2> QED
        BY <1>2, <1>b, <2>3, <2>4 DEF TypeOK, AdminEdit
<1>3. CASE AdminDelete
    <2>1. sc \in SpokeClusters
        BY <1>3, <1>a DEF AdminDelete, TypeOK
    <2>2. [sc EXCEPT !.deleting = TRUE] \in MaybeSC /\ None \in MaybeSC
        BY <1>a, <2>1, PutDeleting
    <2>3. sc' \in MaybeSC /\ scPend' \in Seq(MaybeSC)
        BY <1>3, <2>2, PutSCType DEF AdminDelete
    <2>4. env' \in 0..MaxEnv
        BY <1>3, EnvStepType DEF AdminDelete
    <2> QED
        BY <1>3, <1>b, <2>3, <2>4 DEF TypeOK, AdminDelete
<1> QED
    BY <1>1, <1>2, <1>3

\* The other steps of the surroundings keep TypeOK.
LEMMA SurroundingsType ==
    ASSUME TypeOK,
           \/ ChangeHubConfig \/ Resync \/ SpokeSide \/ Crash
           \/ CollectGarbage \/ StartAdapter
    PROVE  TypeOK'
<1> USE DEF scVars, kcVars, spokeVars, remoteVars, runVars, healthVars, bounds,
            CleanupPcs
<1>a. None \in MaybeSC /\ None \in MaybeKC
    BY DEF MaybeSC, MaybeKC
<1>1. CASE ChangeHubConfig
    <2>1. env' \in 0..MaxEnv
        BY <1>1, EnvStepType DEF ChangeHubConfig
    <2>2. hub' \in Modes /\ queued' \in BOOLEAN
        BY <1>1 DEF ChangeHubConfig, TypeOK
    <2>3. polling' \in {"down", "no", "yes"}
        BY <1>1 DEF ChangeHubConfig, TypeOK
    <2>4. UNCHANGED <<scVars, kcVars, ac, spokeVars, remoteVars, runVars,
                      current, healthVars, uids, faults>>
        BY <1>1 DEF ChangeHubConfig
    <2> QED
        BY <2>1, <2>2, <2>3, <2>4 DEF TypeOK
<1>2. CASE Resync
    BY <1>2 DEF TypeOK, Resync
<1>3. CASE SpokeSide
    <2>1. env' \in 0..MaxEnv
        BY <1>3, EnvStepType DEF SpokeSide, SpokeUpDown, SourceChange, Rotate
    <2>2. src' \in 0..MaxSource /\ good' \in 1..MaxSource /\ up' \in BOOLEAN
        <3>1. CASE SpokeUpDown
            BY <3>1 DEF SpokeUpDown, TypeOK
        <3>2. CASE SourceChange
            BY <3>2, ConstantsAssumption DEF SourceChange, TypeOK
        <3>3. CASE Rotate
            BY <3>3, ConstantsAssumption DEF Rotate, TypeOK
        <3> QED
            BY <1>3, <3>1, <3>2, <3>3 DEF SpokeSide
    <2> QED
        BY <1>3, <2>1, <2>2 DEF TypeOK, SpokeSide
<1>4. CASE Crash
    <2>1. faults' \in 0..MaxFaults
        BY <1>4, FaultType DEF Crash
    <2>2. hpc' = "idle" /\ hsnap' \in Snapshots /\ hnew' = "-"
        BY <1>4, HealthIdleType DEF Crash
    <2>3. queued' \in BOOLEAN /\ scPend' \in Seq(MaybeSC) /\ kcPend' \in Seq(MaybeKC)
        BY <1>4 DEF Crash
    <2> QED
        BY <1>4, <1>a, <2>1, <2>2, <2>3 DEF TypeOK, Crash
<1>5. CASE CollectGarbage
    <2>1. kc' \in MaybeKC /\ kcPend' \in Seq(MaybeKC)
        BY <1>5, <1>a, PutKubeconfigType DEF TypeOK, CollectGarbage
    <2>2. ac' \in 0..MaxUid
        BY <1>5, ConstantsAssumption DEF TypeOK, CollectGarbage
    <2>3. UNCHANGED <<scVars, kcCache, hub, spokeVars, remoteVars, polling, queued,
                      runVars, current, healthVars, bounds>>
        BY <1>5 DEF CollectGarbage
    <2> QED
        BY <2>1, <2>2, <2>3 DEF TypeOK
<1>6. CASE StartAdapter
    BY <1>6 DEF TypeOK, StartAdapter, Listing
<1> QED
    BY <1>1, <1>2, <1>3, <1>4, <1>5, <1>6

\* TypeOK holds in every reachable state: among the rest, the local copy and
\* the way a run of Reconcile was entered always fit the step it is at.
THEOREM TypeCorrect == Spec => []TypeOK
<1>1. TypeOK /\ [Next]_vars => TypeOK'
    <2> SUFFICES ASSUME TypeOK, [Next]_vars PROVE TypeOK'
        OBVIOUS
    <2>1. CASE UNCHANGED vars
        BY <2>1 DEF vars, TypeOK, scVars, kcVars, spokeVars, remoteVars, runVars,
           healthVars, bounds, CleanupPcs
    <2>2. CASE Reconciler
        BY <2>2, StartType, ManageType, StatusWriteType, CleanupType DEF Reconciler
    <2>3. CASE Next /\ ~Reconciler
        BY <2>3, HealthType, InformerType, AdminType, SurroundingsType
           DEF Next, Environment
    <2> QED
        BY <2>1, <2>2, <2>3
<1> QED
    BY InitType, <1>1, PTL DEF Spec

=============================================================================

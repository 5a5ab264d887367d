------------------------- MODULE SpokeFinalizerProofs -------------------------
(***************************************************************************)
(* For every value of the constants: grants are made under the finalizer.  *)
(* The property is about the live object, the code decides on a cached one *)
(* of unknown age; what connects them is that a version which carries the  *)
(* finalizer and is not being deleted is only ever in circulation while    *)
(* its incarnation is alive and still carries it.                          *)
(***************************************************************************)
EXTENDS SpokeControllerProofs

\* The live object is the incarnation u and carries the finalizer.
Held(u) == sc # None /\ sc.finalizer /\ sc.uid = u

Backed(v) == v # None /\ v.finalizer /\ ~v.deleting => Held(v.uid)

\* Every version the cache shows or will show is backed by the live object.
VersionsBacked ==
    /\ Backed(scCache)
    /\ \A i \in 1..Len(scPend) : Backed(scPend[i])

\* The watch ends with the live object.
WatchEndsLive ==
    IF scPend = <<>> THEN scCache = sc ELSE scPend[Len(scPend)] = sc

\* A managing run has the finalizer under it.
ManagedHeld == pc \in ManagePcs => Held(loc.uid)

\* A run whose copy is current is a deletion that started from a cache with
\* nothing left to deliver.
CurrentIsDeletion ==
    current => /\ pc \in CleanupPcs \cup {"removeFinalizer"}
               /\ after = "delete"
               /\ scPend = <<>>
               /\ scCache # None /\ scCache.deleting

FinalizerInv ==
    /\ VersionsBacked
    /\ WatchEndsLive
    /\ ManagedHeld
    /\ CurrentIsDeletion


-----------------------------------------------------------------------------
(* Writes to the SpokeCluster.                                              *)

\* A write that keeps a held incarnation held; writing sc changes nothing.
Keeps(w) == sc # None /\ sc.finalizer => w # None /\ w.finalizer /\ w.uid = sc.uid

\* A write that keeps the incarnation and its finalizer leaves it held.
LEMMA PutSCHeld ==
    ASSUME NEW w, PutSC(w), Keeps(w), NEW u, Held(u)
    PROVE  Held(u)'
BY DEF PutSC, Keeps, Held

\* Such a write keeps all versions backed and the watch ending live.
LEMMA PutSCVersions ==
    ASSUME TypeOK, VersionsBacked, WatchEndsLive,
           NEW w \in MaybeSC, PutSC(w), Keeps(w), scCache' = scCache
    PROVE  VersionsBacked' /\ WatchEndsLive'
<1>1. CASE w = sc
    <2>1. sc' = sc /\ scPend' = scPend
        BY <1>1 DEF PutSC
    <2> QED
        BY <2>1 DEF VersionsBacked, WatchEndsLive, Backed, Held
<1>2. CASE w # sc
    <2>1. sc' = w /\ scPend' = Append(scPend, w) /\ scPend \in Seq(MaybeSC)
        BY <1>2 DEF PutSC, TypeOK
    <2>2. /\ Len(scPend') = Len(scPend) + 1
          /\ scPend'[Len(scPend) + 1] = w
          /\ \A i \in 1..Len(scPend) : scPend'[i] = scPend[i]
          /\ Len(scPend) \in Nat
        BY <2>1
    <2>3. WatchEndsLive'
        BY <2>1, <2>2 DEF WatchEndsLive
    <2>4. Backed(scCache)'
        BY <2>1 DEF VersionsBacked, Backed, Keeps, Held
    <2>5. ASSUME NEW i \in 1..Len(scPend')
          PROVE  Backed(scPend[i])'
        <3>1. CASE i = Len(scPend) + 1
            BY <2>1, <2>2, <3>1 DEF Backed, Held
        <3>2. CASE i # Len(scPend) + 1
            <4>1. i \in 1..Len(scPend) /\ scPend'[i] = scPend[i]
                BY <2>2, <3>2
            <4>2. Backed(scPend[i])
                BY <4>1 DEF VersionsBacked
            <4> QED
                BY <2>1, <4>1, <4>2 DEF Backed, Keeps, Held
        <3> QED
            BY <3>1, <3>2
    <2> QED
        BY <2>3, <2>4, <2>5 DEF VersionsBacked
<1> QED
    BY <1>1, <1>2


\* Writing nothing is such a write, of the live object itself.
LEMMA NoWrite ==
    ASSUME TypeOK, UNCHANGED <<sc, scPend>>
    PROVE  sc \in MaybeSC /\ PutSC(sc) /\ Keeps(sc)
BY DEF TypeOK, PutSC, Keeps

\* Fields other than uid and finalizer may be changed freely.
LEMMA KeepsFields ==
    ASSUME NEW w \in SpokeClusters, sc # None => w.uid = sc.uid,
           sc # None /\ sc.finalizer => w.finalizer
    PROVE  w \in MaybeSC /\ Keeps(w)
BY SpokeClusterFields DEF Keeps, MaybeSC

-----------------------------------------------------------------------------
(* The three ways an action may treat the run beside such a write.          *)

\* A write by another actor than the run keeps the invariant.
LEMMA BesideRun ==
    ASSUME TypeOK, FinalizerInv, NEW w \in MaybeSC, PutSC(w), Keeps(w),
           UNCHANGED <<scCache, pc, loc, after>>, Outdate
    PROVE  FinalizerInv'
<1>1. VersionsBacked' /\ WatchEndsLive'
    BY PutSCVersions DEF FinalizerInv
<1>2. ManagedHeld'
    BY PutSCHeld DEF FinalizerInv, ManagedHeld, Held
<1>3. current' => current /\ sc' = sc
    BY DEF Outdate
<1>4. current' => scPend' = scPend
    BY <1>3 DEF PutSC
<1>5. CurrentIsDeletion'
    BY <1>3, <1>4 DEF FinalizerInv, CurrentIsDeletion
<1> QED
    BY <1>1, <1>2, <1>5 DEF FinalizerInv

\* A step of a managing run that makes such a write keeps the invariant.
LEMMA ManagingRun ==
    ASSUME TypeOK, FinalizerInv, NEW w \in MaybeSC, PutSC(w), Keeps(w),
           UNCHANGED <<scCache, current>>, pc \in ManagePcs,
           loc'.uid = loc.uid
    PROVE  FinalizerInv'
<1>1. VersionsBacked' /\ WatchEndsLive'
    BY PutSCVersions DEF FinalizerInv
<1>2. Held(loc.uid)
    BY DEF FinalizerInv, ManagedHeld
<1>3. ManagedHeld'
    BY <1>2, PutSCHeld DEF ManagedHeld, Held
<1>4. ~current
    BY DEF FinalizerInv, CurrentIsDeletion, ManagePcs, CleanupPcs
<1>5. CurrentIsDeletion'
    BY <1>4 DEF CurrentIsDeletion
<1> QED
    BY <1>1, <1>3, <1>5 DEF FinalizerInv

\* A run that ends with such a write keeps the invariant.
LEMMA EndingRun ==
    ASSUME TypeOK, FinalizerInv, NEW w \in MaybeSC, PutSC(w), Keeps(w),
           scCache' = scCache, NEW b, Return(b)
    PROVE  FinalizerInv'
<1>1. VersionsBacked' /\ WatchEndsLive'
    BY PutSCVersions DEF FinalizerInv
<1>2. ManagedHeld' /\ CurrentIsDeletion'
    BY DEF Return, ManagedHeld, CurrentIsDeletion, ManagePcs
<1> QED
    BY <1>1, <1>2 DEF FinalizerInv

-----------------------------------------------------------------------------
(* One lemma per group of actions.                                          *)

\* The first steps of Reconcile keep it: a managing run starts from a
\* backed version.
LEMMA StartFinalizer ==
    ASSUME TypeOK, FinalizerInv,
           ReconcileNothing \/ AddFinalizer \/ StartDelete \/ StartUnmanage \/ StartManage
    PROVE  FinalizerInv'
<1> USE DEF scVars, kcVars, spokeVars, remoteVars, runVars, healthVars, bounds
<1>0. pc = "idle" => ~current
    BY DEF FinalizerInv, CurrentIsDeletion, CleanupPcs
<1>1. CASE ReconcileNothing
    BY <1>1, NoWrite, BesideRun DEF ReconcileNothing, Outdate, TypeOK
<1>2. CASE AddFinalizer
    <2> DEFINE w == [scCache EXCEPT !.finalizer = TRUE]
    <2>1. scCache \in SpokeClusters
        BY <1>2 DEF AddFinalizer, TypeOK, MaybeSC
    <2>2. \/ scPend = <<>> /\ PutSC(w)
          \/ UNCHANGED <<sc, scPend>>
        BY <1>2 DEF AddFinalizer
    <2>3. UNCHANGED <<scCache, pc, loc, after>> /\ Outdate
        BY <1>0, <1>2 DEF AddFinalizer, Outdate, TypeOK
    <2>4. CASE scPend = <<>> /\ PutSC(w)
        <3>1. scCache = sc
            BY <2>4 DEF FinalizerInv, WatchEndsLive
        <3>2. w \in SpokeClusters /\ w.uid = sc.uid /\ w.finalizer
            BY <2>1, <3>1, PutFinalizer
        <3> HIDE DEF w
        <3>3. w \in MaybeSC /\ Keeps(w)
            BY <3>2, KeepsFields
        <3> QED
            BY <2>3, <2>4, <3>3, BesideRun
    <2>5. CASE UNCHANGED <<sc, scPend>>
        BY <2>3, <2>5, NoWrite, BesideRun
    <2> QED
        BY <2>2, <2>4, <2>5
<1>3. CASE StartDelete \/ StartUnmanage \/ StartManage
    <2>1. UNCHANGED scVars /\ loc' = scCache /\ scCache # None
        BY <1>3 DEF StartDelete, StartUnmanage, StartManage, Begin
    <2>2. VersionsBacked' /\ WatchEndsLive'
        BY <2>1, NoWrite, PutSCVersions DEF FinalizerInv
    <2>3. CASE StartDelete
        <3>1. pc' = "deprovision" /\ after' = "delete" /\ scCache.deleting
              /\ current' = (scPend = <<>>)
            BY <2>3 DEF StartDelete, Begin
        <3>2. ManagedHeld' /\ CurrentIsDeletion'
            BY <2>1, <3>1 DEF ManagedHeld, CurrentIsDeletion, ManagePcs, CleanupPcs
        <3> QED
            BY <2>2, <3>2 DEF FinalizerInv
    <2>4. CASE StartUnmanage
        <3>1. pc' = "deprovision" /\ ~current'
            BY <2>4 DEF StartUnmanage, Begin
        <3>2. ManagedHeld' /\ CurrentIsDeletion'
            BY <3>1 DEF ManagedHeld, CurrentIsDeletion, ManagePcs
        <3> QED
            BY <2>2, <3>2 DEF FinalizerInv
    <2>5. CASE StartManage
        <3>1. ~current' /\ scCache.finalizer /\ ~scCache.deleting
            BY <2>5 DEF StartManage, Begin
        <3>2. Held(scCache.uid)
            BY <2>1, <3>1 DEF FinalizerInv, VersionsBacked, Backed
        <3>3. ManagedHeld' /\ CurrentIsDeletion'
            BY <2>1, <3>1, <3>2 DEF ManagedHeld, CurrentIsDeletion, Held
        <3> QED
            BY <2>2, <3>3 DEF FinalizerInv
    <2> QED
        BY <1>3, <2>3, <2>4, <2>5
<1> QED
    BY <1>1, <1>2, <1>3

\* The managed path keeps the incarnation of its local copy.
LEMMA SameIncarnation ==
    ASSUME TypeOK, pc # "idle",
           \/ \E c : loc' = [loc EXCEPT !.conditions = c]
           \/ loc' = [loc EXCEPT !.label = TRUE]
           \/ loc' = loc
    PROVE  loc'.uid = loc.uid
BY LocType DEF SpokeClusters

\* The managed path keeps it.
LEMMA ManageFinalizer ==
    ASSUME TypeOK, FinalizerInv,
           \/ EnsureStandingKubeconfig \/ CheckConnectivity \/ Provision
           \/ ProvisionAdapter \/ EnsureAdapterCredentialSecret
           \/ EnsureAdapterLabel \/ RestartAdapter
    PROVE  FinalizerInv'
<1> USE DEF scVars, kcVars, spokeVars, remoteVars, runVars, healthVars, bounds
<1>a. pc \in ManagePcs /\ pc # "idle"
    BY DEF EnsureStandingKubeconfig, CheckConnectivity, Provision, ProvisionAdapter,
       EnsureAdapterCredentialSecret, EnsureAdapterLabel, RestartAdapter, ManagePcs
<1>b. UNCHANGED <<scCache, current>>
    BY DEF EnsureStandingKubeconfig, CheckConnectivity, Provision, ProvisionAdapter,
       EnsureAdapterCredentialSecret, EnsureAdapterLabel, RestartAdapter,
       FailWith, Proceed, Succeed
<1>c. \/ \E c : loc' = [loc EXCEPT !.conditions = c]
      \/ loc' = [loc EXCEPT !.label = TRUE]
      \/ loc' = loc
    BY DEF EnsureStandingKubeconfig, CheckConnectivity, Provision, ProvisionAdapter,
       EnsureAdapterCredentialSecret, EnsureAdapterLabel, RestartAdapter,
       FailWith, Proceed, Succeed
<1>d. loc'.uid = loc.uid
    BY <1>a, <1>c, SameIncarnation
<1>1. CASE UNCHANGED <<sc, scPend>>
    BY <1>1, <1>a, <1>b, <1>d, NoWrite, ManagingRun
<1>2. CASE EnsureAdapterLabel /\ ~UNCHANGED <<sc, scPend>>
    <2> DEFINE w == [scCache EXCEPT !.label = TRUE]
    <2>1. scCache # None /\ scPend = <<>> /\ PutSC(w)
        BY <1>2 DEF EnsureAdapterLabel
    <2>2. scCache = sc /\ scCache \in SpokeClusters
        BY <2>1 DEF FinalizerInv, WatchEndsLive, TypeOK, MaybeSC
    <2>3. w \in SpokeClusters /\ w.uid = sc.uid /\ w.finalizer = sc.finalizer
        BY <2>2, PutLabel
    <2> HIDE DEF w
    <2>4. w \in MaybeSC /\ Keeps(w)
        BY <2>3, KeepsFields
    <2> QED
        BY <1>a, <1>b, <1>d, <2>1, <2>4, ManagingRun
<1> QED
    BY <1>1, <1>2 DEF EnsureStandingKubeconfig, CheckConnectivity, Provision,
       ProvisionAdapter, EnsureAdapterCredentialSecret, RestartAdapter

\* cleanupSpokeResources keeps it: it writes no SpokeCluster.
LEMMA CleanupFinalizer ==
    ASSUME TypeOK, FinalizerInv,
           \/ DeprovisionSpoke \/ DeleteStandingKubeconfig
           \/ DeleteAdapterCredential \/ RestartAfterCleanup
    PROVE  FinalizerInv'
<1> USE DEF scVars, kcVars, spokeVars, remoteVars, runVars, healthVars, bounds
<1>1. UNCHANGED <<sc, scPend, scCache, current>>
    BY DEF DeprovisionSpoke, DeleteStandingKubeconfig, DeleteAdapterCredential,
       RestartAfterCleanup
<1>2. VersionsBacked' /\ WatchEndsLive'
    BY <1>1, NoWrite, PutSCVersions DEF FinalizerInv
<1>3. /\ pc' \in CleanupPcs \cup {"removeFinalizer", "patch"}
      /\ after = "delete" => after' = after /\ pc' # "patch"
    BY DEF DeprovisionSpoke, DeleteStandingKubeconfig, DeleteAdapterCredential,
       RestartAfterCleanup, CleanupStep, CleanupPcs
<1>4. ManagedHeld'
    BY <1>3 DEF ManagedHeld, ManagePcs, CleanupPcs
<1>5. CurrentIsDeletion'
    BY <1>1, <1>3 DEF FinalizerInv, CurrentIsDeletion
<1> QED
    BY <1>2, <1>4, <1>5 DEF FinalizerInv

\* The finalizer is removed only when no version that relies on it is left.
LEMMA StatusWriteFinalizer ==
    ASSUME TypeOK, FinalizerInv, PatchStatus \/ RemoveFinalizer
    PROVE  FinalizerInv'
<1> USE DEF scVars, kcVars, spokeVars, remoteVars, runVars, healthVars, bounds
<1>1. CASE PatchStatus
    <2> DEFINE w == [sc EXCEPT !.conditions = loc.conditions]
    <2>1. \/ UNCHANGED <<sc, scPend>>
          \/ sc # None /\ PutSC(w)
        BY <1>1 DEF PatchStatus
    <2>2. Return(after = "error") \/ Return(TRUE)
        BY <1>1 DEF PatchStatus
    <2>3. scCache' = scCache
        BY <1>1 DEF PatchStatus
    <2>4. CASE UNCHANGED <<sc, scPend>>
        BY <2>2, <2>3, <2>4, NoWrite, EndingRun
    <2>5. CASE sc # None /\ PutSC(w)
        <3>1. loc \in SpokeClusters /\ sc \in SpokeClusters
            BY <1>1, <2>5, LocType DEF PatchStatus, TypeOK, MaybeSC
        <3>2. w \in SpokeClusters /\ w.uid = sc.uid /\ w.finalizer = sc.finalizer
            BY <3>1, PutConditions, SpokeClusterFields
        <3> HIDE DEF w
        <3>3. w \in MaybeSC /\ Keeps(w)
            BY <3>2, KeepsFields
        <3> QED
            BY <2>2, <2>3, <2>5, <3>3, EndingRun
    <2> QED
        BY <2>1, <2>4, <2>5
<1>2. CASE RemoveFinalizer
    <2>1. \/ UNCHANGED <<sc, scPend>>
          \/ current /\ PutSC(None)
        BY <1>2 DEF RemoveFinalizer
    <2>2. Return(FALSE) \/ Return(TRUE)
        BY <1>2 DEF RemoveFinalizer
    <2>3. scCache' = scCache
        BY <1>2 DEF RemoveFinalizer
    <2>4. CASE UNCHANGED <<sc, scPend>>
        BY <2>2, <2>3, <2>4, NoWrite, EndingRun
    <2>5. CASE current /\ PutSC(None) /\ ~UNCHANGED <<sc, scPend>>
        <3>1. scPend = <<>> /\ scCache # None /\ scCache.deleting
            BY <2>5 DEF FinalizerInv, CurrentIsDeletion
        <3>2. sc' = None /\ scPend' = <<None>>
            BY <2>5, <3>1 DEF PutSC
        <3>3. VersionsBacked' /\ WatchEndsLive'
            BY <2>3, <3>1, <3>2 DEF VersionsBacked, WatchEndsLive, Backed
        <3>4. ManagedHeld' /\ CurrentIsDeletion'
            BY <2>2 DEF Return, ManagedHeld, CurrentIsDeletion, ManagePcs
        <3> QED
            BY <3>3, <3>4 DEF FinalizerInv
    <2> QED
        BY <2>1, <2>4, <2>5
<1> QED
    BY <1>1, <1>2

\* A delivery to the cache keeps it.
LEMMA InformerFinalizer ==
    ASSUME TypeOK, FinalizerInv, SyncSpokeCluster
    PROVE  FinalizerInv'
<1> USE DEF scVars, kcVars, spokeVars, remoteVars, runVars, healthVars, bounds
<1>1. /\ scPend # <<>> /\ scPend \in Seq(MaybeSC)
      /\ scCache' = Head(scPend) /\ scPend' = Tail(scPend)
      /\ UNCHANGED <<sc, pc, loc, after, current>>
    BY DEF SyncSpokeCluster, TypeOK
<1>2. /\ Len(scPend) \in Nat /\ Len(scPend) >= 1
      /\ scCache' = scPend[1]
      /\ Len(scPend') = Len(scPend) - 1
      /\ \A i \in 1..Len(scPend') : scPend'[i] = scPend[i + 1]
    BY <1>1
<1>3. Backed(scCache)'
    BY <1>1, <1>2 DEF FinalizerInv, VersionsBacked, Backed, Held
<1>4. ASSUME NEW i \in 1..Len(scPend')
      PROVE  Backed(scPend[i])'
    <2>1. i + 1 \in 1..Len(scPend) /\ scPend'[i] = scPend[i + 1]
        BY <1>2
    <2>2. Backed(scPend[i + 1])
        BY <2>1 DEF FinalizerInv, VersionsBacked
    <2> QED
        BY <1>1, <2>1, <2>2 DEF Backed, Held
<1>5. VersionsBacked'
    BY <1>3, <1>4 DEF VersionsBacked
<1>6. scPend[Len(scPend)] = sc
    BY <1>1 DEF FinalizerInv, WatchEndsLive
<1>7. WatchEndsLive'
    <2>1. CASE scPend' = <<>>
        BY <1>1, <1>2, <1>6, <2>1 DEF WatchEndsLive
    <2>2. CASE scPend' # <<>>
        <3>1. Len(scPend') >= 1
            BY <1>1, <2>2
        <3>2. scPend'[Len(scPend')] = scPend[Len(scPend)]
            BY <1>2, <3>1
        <3> QED
            BY <1>1, <1>6, <2>2, <3>2 DEF WatchEndsLive
    <2> QED
        BY <2>1, <2>2
<1>8. ManagedHeld' /\ CurrentIsDeletion'
    BY <1>1 DEF FinalizerInv, ManagedHeld, Held, CurrentIsDeletion
<1> QED
    BY <1>5, <1>7, <1>8 DEF FinalizerInv

\* The health handler keeps it: its patch leaves the finalizer alone.
LEMMA HealthFinalizer ==
    ASSUME TypeOK, FinalizerInv, HealthHandler \/ SyncKubeconfig
    PROVE  FinalizerInv'
<1> USE DEF scVars, kcVars, spokeVars, remoteVars, runVars, healthVars, bounds
<1>1. CASE CheckAll \/ CheckSpoke \/ SyncKubeconfig
    <2>1. UNCHANGED <<sc, scPend, scCache, pc, loc, after, current>>
        BY <1>1 DEF CheckAll, CheckSpoke, SyncKubeconfig
    <2> QED
        BY <2>1, NoWrite, BesideRun DEF Outdate, TypeOK
<1>2. CASE PatchConnected
    <2> DEFINE w == [sc EXCEPT !.conditions = HealthConditions]
    <2>1. \/ UNCHANGED <<sc, scPend>>
          \/ sc # None /\ PutSC(w)
        BY <1>2 DEF PatchConnected
    <2>2. UNCHANGED <<scCache, pc, loc, after>> /\ Outdate
        BY <1>2 DEF PatchConnected
    <2>3. CASE UNCHANGED <<sc, scPend>>
        BY <2>2, <2>3, NoWrite, BesideRun
    <2>4. CASE sc # None /\ PutSC(w)
        <3>1. hnew # "-" /\ sc \in SpokeClusters
            BY <1>2, <2>4 DEF PatchConnected, TypeOK, MaybeSC
        <3>2. w \in SpokeClusters /\ w.uid = sc.uid /\ w.finalizer = sc.finalizer
            BY <3>1, PutConditions, HealthConditionsType
        <3> HIDE DEF w
        <3>3. w \in MaybeSC /\ Keeps(w)
            BY <3>2, KeepsFields
        <3> QED
            BY <2>2, <2>4, <3>3, BesideRun
    <2> QED
        BY <2>1, <2>3, <2>4
<1> QED
    BY <1>1, <1>2 DEF HealthHandler

\* Creation, edit and deletion by the administrator keep it.
LEMMA AdminFinalizer ==
    ASSUME TypeOK, FinalizerInv, AdminCreate \/ AdminEdit \/ AdminDelete
    PROVE  FinalizerInv'
<1> USE DEF scVars, kcVars, spokeVars, remoteVars, runVars, healthVars, bounds
<1>1. UNCHANGED <<scCache, pc, loc, after>> /\ Outdate
    BY DEF AdminCreate, AdminEdit, AdminDelete
<1>2. CASE AdminCreate
    <2> DEFINE w == [uid |-> uids + 1, gen |-> 1, deleting |-> FALSE,
                     finalizer |-> FALSE, label |-> FALSE, conditions |-> NoConditions]
    <2>1. sc = None /\ PutSC(w)
        BY <1>2 DEF AdminCreate
    <2>2. uids + 1 \in Uids /\ 1 \in Gens
        BY <1>2, CreateType
    <2>3. w \in MaybeSC
        BY <2>2, NoConditionsType DEF SpokeClusters, Lists, MaybeSC
    <2>4. Keeps(w)
        BY <2>1 DEF Keeps
    <2> HIDE DEF w
    <2> QED
        BY <1>1, <2>1, <2>3, <2>4, BesideRun
<1>3. CASE AdminEdit
    <2> DEFINE w == [sc EXCEPT !.gen = @ + 1]
    <2>1. sc \in SpokeClusters /\ sc.gen < MaxGen /\ PutSC(w)
        BY <1>3 DEF AdminEdit, TypeOK, MaybeSC
    <2>2. w \in SpokeClusters /\ w.uid = sc.uid /\ w.finalizer = sc.finalizer
        BY <2>1, PutGeneration
    <2> HIDE DEF w
    <2>3. w \in MaybeSC /\ Keeps(w)
        BY <2>2, KeepsFields
    <2> QED
        BY <1>1, <2>1, <2>3, BesideRun
<1>4. CASE AdminDelete
    <2> DEFINE w == [sc EXCEPT !.deleting = TRUE]
    <2>1. sc \in SpokeClusters /\ PutSC(IF sc.finalizer THEN w ELSE None)
        BY <1>4 DEF AdminDelete, TypeOK, MaybeSC
    <2>2. w \in SpokeClusters /\ w.uid = sc.uid /\ w.finalizer = sc.finalizer
        BY <2>1, PutDeleting
    <2> HIDE DEF w
    <2>3. CASE sc.finalizer
        <3>1. w \in MaybeSC /\ Keeps(w) /\ PutSC(w)
            BY <2>1, <2>2, <2>3, KeepsFields
        <3> QED
            BY <1>1, <3>1, BesideRun
    <2>4. CASE ~sc.finalizer
        <3>1. None \in MaybeSC /\ Keeps(None) /\ PutSC(None)
            BY <2>1, <2>4 DEF Keeps, MaybeSC
        <3> QED
            BY <1>1, <3>1, BesideRun
    <2> QED
        BY <2>3, <2>4
<1> QED
    BY <1>2, <1>3, <1>4

\* The rest of the surroundings, crashes included, keeps it.
LEMMA SurroundingsFinalizer ==
    ASSUME TypeOK, FinalizerInv,
           ChangeHubConfig \/ Resync \/ StartAdapter \/ SpokeSide \/ Crash \/ CollectGarbage
    PROVE  FinalizerInv'
<1> USE DEF scVars, kcVars, spokeVars, remoteVars, runVars, healthVars, bounds
<1>1. CASE ChangeHubConfig \/ Resync \/ StartAdapter \/ SpokeSide \/ CollectGarbage
    <2>1. UNCHANGED <<sc, scPend, scCache, pc, loc, after, current>>
        BY <1>1 DEF ChangeHubConfig, Resync, StartAdapter, SpokeSide, CollectGarbage
    <2> QED
        BY <2>1, NoWrite, BesideRun DEF Outdate, TypeOK
<1>2. CASE Crash
    <2>1. sc' = sc /\ scCache' = sc /\ scPend' = <<>> /\ pc' = "idle" /\ ~current'
        BY <1>2 DEF Crash
    <2>2. VersionsBacked' /\ WatchEndsLive'
        BY <2>1 DEF VersionsBacked, WatchEndsLive, Backed, Held
    <2>3. ManagedHeld' /\ CurrentIsDeletion'
        BY <2>1 DEF ManagedHeld, CurrentIsDeletion, ManagePcs
    <2> QED
        BY <2>2, <2>3 DEF FinalizerInv
<1> QED
    BY <1>1, <1>2

-----------------------------------------------------------------------------
(* The theorem.                                                             *)

\* The inductive invariant holds initially.
LEMMA InitFinalizer == Init => FinalizerInv
BY DEF Init, FinalizerInv, VersionsBacked, WatchEndsLive, Backed, ManagedHeld,
   CurrentIsDeletion, ManagePcs

\* FinalizerInv holds in every reachable state.
THEOREM FinalizerInvariant == Spec => []FinalizerInv
<1>1. TypeOK /\ FinalizerInv /\ [Next]_vars => FinalizerInv'
    <2> SUFFICES ASSUME TypeOK, FinalizerInv, [Next]_vars PROVE FinalizerInv'
        OBVIOUS
    <2>1. CASE UNCHANGED vars
        <3>1. UNCHANGED <<sc, scPend, scCache, pc, loc, after, current>>
            BY <2>1 DEF vars, scVars, runVars
        <3> QED
            BY <3>1, NoWrite, BesideRun DEF Outdate, TypeOK
    <2>2. CASE Reconciler
        BY <2>2, StartFinalizer, ManageFinalizer, CleanupFinalizer,
           StatusWriteFinalizer DEF Reconciler
    <2>3. CASE Next /\ ~Reconciler
        BY <2>3, HealthFinalizer, InformerFinalizer, AdminFinalizer,
           SurroundingsFinalizer DEF Next, Environment
    <2> QED
        BY <2>1, <2>2, <2>3
<1> QED
    BY InitFinalizer, TypeCorrect, <1>1, PTL DEF Spec

\* A step that hands out a credential or a grant is a step of a managing run.
LEMMA GrantsAreManaged ==
    ASSUME TypeOK, [Next]_vars,
           \/ kc' # kc /\ kc' # None
           \/ ac' # ac /\ ac' # 0
           \/ base' # base /\ pc = "provision"
           \/ adp' # adp /\ pc = "adapters"
    PROVE  pc \in ManagePcs
<1> USE DEF scVars, kcVars, spokeVars, remoteVars, runVars, healthVars, bounds
<1>1. CASE UNCHANGED vars
    BY <1>1 DEF vars, ManagePcs
<1>2. CASE Reconciler
    BY <1>2 DEF Reconciler, ReconcileNothing, AddFinalizer, StartDelete,
       StartUnmanage, StartManage, EnsureStandingKubeconfig, CheckConnectivity,
       Provision, ProvisionAdapter, EnsureAdapterCredentialSecret,
       EnsureAdapterLabel, RestartAdapter, PatchStatus, DeprovisionSpoke,
       DeleteStandingKubeconfig, DeleteAdapterCredential, RestartAfterCleanup,
       RemoveFinalizer, PutKubeconfig, ManagePcs
<1>3. CASE HealthHandler \/ SyncSpokeCluster \/ SyncKubeconfig
    BY <1>3 DEF HealthHandler, CheckAll, CheckSpoke, PatchConnected,
       SyncSpokeCluster, SyncKubeconfig, ManagePcs
<1>4. CASE CollectGarbage \/ StartAdapter \/ Environment
    BY <1>4 DEF CollectGarbage, Environment, AdminCreate, AdminEdit, AdminDelete,
       ChangeHubConfig, Resync, StartAdapter, SpokeSide, Crash, PutKubeconfig, ManagePcs
<1> QED
    BY <1>1, <1>2, <1>3, <1>4 DEF Next

\* Credentials on the hub and grants on the spoke are made only under the
\* finalizer of the incarnation the run of Reconcile is for.
THEOREM GrantsAlwaysUnderFinalizer == Spec => GrantsUnderFinalizer
<1>1. ASSUME TypeOK, FinalizerInv, [Next]_vars,
             \/ kc' # kc /\ kc' # None
             \/ ac' # ac /\ ac' # 0
             \/ base' # base /\ pc = "provision"
             \/ adp' # adp /\ pc = "adapters"
      PROVE  sc # None /\ sc.finalizer /\ sc.uid = loc.uid
    BY <1>1, GrantsAreManaged DEF FinalizerInv, ManagedHeld, Held
<1>2. TypeOK /\ FinalizerInv /\ [Next]_vars =>
        [ \/ kc' # kc /\ kc' # None
          \/ ac' # ac /\ ac' # 0
          \/ base' # base /\ pc = "provision"
          \/ adp' # adp /\ pc = "adapters"
          => sc # None /\ sc.finalizer /\ sc.uid = loc.uid ]_vars
    BY <1>1
<1> QED
    BY TypeCorrect, FinalizerInvariant, <1>2, PTL DEF Spec, GrantsUnderFinalizer

-----------------------------------------------------------------------------
(* The owner of the standing Secret.  What a run reads of the Secret is a   *)
(* cached version too; it tells the owner of the live one because only runs *)
(* for the latest incarnation have written since that incarnation exists.   *)

\* The live object is the latest incarnation.
UidCurrent == sc # None => sc.uid = uids

OwnerKnown(v) == v # None => v.owner <= uids

\* A version owned by the latest incarnation vouches for the live Secret.
Vouches(v) == v # None /\ v.owner = uids => kc = None \/ kc.owner = uids

OwnersKnown ==
    /\ OwnerKnown(kc) /\ OwnerKnown(kcCache)
    /\ \A i \in 1..Len(kcPend) : OwnerKnown(kcPend[i])

CacheVouches ==
    /\ Vouches(kcCache)
    /\ \A i \in 1..Len(kcPend) : Vouches(kcPend[i])

\* The steps of a managing run after ensureStandingKubeconfig.
Standing == ManagePcs \ {"kubeconfig"}

StandingIsLatest == pc \in Standing /\ kc # None => kc.owner = uids

SecretInv == OwnersKnown /\ CacheVouches /\ StandingIsLatest

OwnerInv == UidCurrent /\ SecretInv

\* A step that leaves the Secret alone keeps what is known of it.
LEMMA SecretUntouched ==
    ASSUME SecretInv, UNCHANGED <<kc, kcCache, kcPend, uids>>,
           pc' \in Standing => pc \in Standing
    PROVE  SecretInv'
BY DEF SecretInv, OwnersKnown, OwnerKnown, CacheVouches, Vouches, StandingIsLatest

\* Writing a Secret owned by the latest incarnation, or none, keeps it.
LEMMA SecretWritten ==
    ASSUME TypeOK, SecretInv, NEW w \in MaybeKC, PutKubeconfig(w),
           w # None => w.owner = uids, UNCHANGED <<kcCache, uids>>
    PROVE  SecretInv'
<1>1. CASE w = kc
    <2>1. UNCHANGED <<kc, kcPend>>
        BY <1>1 DEF PutKubeconfig
    <2> QED
        BY <1>1, <2>1 DEF SecretInv, OwnersKnown, OwnerKnown, CacheVouches, Vouches,
           StandingIsLatest
<1>2. CASE w # kc
    <2>1. kc' = w /\ kcPend' = Append(kcPend, w) /\ kcPend \in Seq(MaybeKC)
        BY <1>2 DEF PutKubeconfig, TypeOK
    <2>2. /\ Len(kcPend') = Len(kcPend) + 1 /\ Len(kcPend) \in Nat
          /\ kcPend'[Len(kcPend) + 1] = w
          /\ \A i \in 1..Len(kcPend) : kcPend'[i] = kcPend[i]
        BY <2>1
    <2>3. uids \in Int
        BY ConstantsAssumption DEF TypeOK
    <2>4. OwnerKnown(w)' /\ \A v : Vouches(v)'
        BY <2>1, <2>3 DEF OwnerKnown, Vouches
    <2>5. OwnersKnown'
        <3>1. OwnerKnown(kc)' /\ OwnerKnown(kcCache)'
            BY <2>1, <2>4 DEF SecretInv, OwnersKnown, OwnerKnown
        <3>2. ASSUME NEW i \in 1..Len(kcPend') PROVE OwnerKnown(kcPend[i])'
            <4>1. CASE i = Len(kcPend) + 1
                BY <2>2, <2>4, <4>1 DEF OwnerKnown
            <4>2. CASE i # Len(kcPend) + 1
                <5>1. i \in 1..Len(kcPend) /\ kcPend'[i] = kcPend[i]
                    BY <2>2, <4>2
                <5> QED
                    BY <5>1 DEF SecretInv, OwnersKnown, OwnerKnown
            <4> QED
                BY <4>1, <4>2
        <3> QED
            BY <3>1, <3>2 DEF OwnersKnown
    <2>6. CacheVouches' /\ StandingIsLatest'
        BY <2>1, <2>4 DEF CacheVouches, StandingIsLatest
    <2> QED
        BY <2>5, <2>6 DEF SecretInv
<1> QED
    BY <1>1, <1>2

\* ensureStandingKubeconfig keeps it: a Secret it finds as desired in the cache
\* is owned by the incarnation of the run, which is the latest one.
LEMMA EnsureSecret ==
    ASSUME TypeOK, FinalizerInv, OwnerInv, EnsureStandingKubeconfig
    PROVE  SecretInv'
<1> DEFINE d == BuildStandingKubeconfig(loc, src)
<1>1. pc \in ManagePcs /\ pc # "idle" /\ loc \in SpokeClusters
    BY LocType DEF EnsureStandingKubeconfig, ManagePcs
<1>2. loc.uid = uids
    BY <1>1 DEF FinalizerInv, ManagedHeld, Held, OwnerInv, UidCurrent
<1>3. d.owner = uids
    BY <1>2 DEF BuildStandingKubeconfig
<1>4. src # 0 => d \in MaybeKC /\ d # None
    <2>1. /\ loc.gen \in 0..MaxGen /\ loc.uid \in Uids
          /\ 0 \in 0..MaxGen
          /\ src # 0 => src \in 1..MaxSource
        BY <1>1, SpokeClusterFields, ConstantsAssumption DEF TypeOK
    <2>2. src # 0 => d \in Kubeconfigs
        BY <2>1 DEF BuildStandingKubeconfig, Kubeconfigs
    <2> QED
        BY <2>2, NoneAssumption DEF MaybeKC
<1>5. UNCHANGED <<kcCache, uids>>
    BY DEF EnsureStandingKubeconfig
<1>6. \/ UNCHANGED <<kc, kcPend>> /\ pc' = "patch"
      \/ src # 0 /\ kcCache = d /\ UNCHANGED <<kc, kcPend>>
      \/ src # 0 /\ PutKubeconfig(d)
    BY DEF EnsureStandingKubeconfig, FailWith
<1> HIDE DEF d
<1>7. CASE UNCHANGED <<kc, kcPend>> /\ pc' = "patch"
    BY <1>5, <1>7, SecretUntouched DEF OwnerInv, Standing, ManagePcs
<1>8. CASE src # 0 /\ kcCache = d /\ UNCHANGED <<kc, kcPend>>
    <2>1. kc = None \/ kc.owner = uids
        BY <1>3, <1>4, <1>8 DEF OwnerInv, SecretInv, CacheVouches, Vouches
    <2> QED
        BY <1>5, <1>8, <2>1 DEF OwnerInv, SecretInv, OwnersKnown, OwnerKnown,
           CacheVouches, Vouches, StandingIsLatest
<1>9. CASE src # 0 /\ PutKubeconfig(d)
    BY <1>3, <1>4, <1>5, <1>9, SecretWritten DEF OwnerInv
<1> QED
    BY <1>6, <1>7, <1>8, <1>9

\* Every other step of the reconciler and of the health handler keeps it.
LEMMA ReconcilerSecret ==
    ASSUME TypeOK, FinalizerInv, OwnerInv, Reconciler \/ HealthHandler
    PROVE  SecretInv' /\ uids' = uids
<1> USE DEF scVars, kcVars, runVars, healthVars, bounds
<1>1. CASE \/ ReconcileNothing \/ AddFinalizer
           \/ StartDelete \/ StartUnmanage \/ StartManage
    <2>1. UNCHANGED <<kc, kcCache, kcPend, uids>>
        BY <1>1 DEF ReconcileNothing, AddFinalizer, StartDelete, StartUnmanage,
           StartManage
    <2>2. pc' = pc \/ pc' \in {"deprovision", "kubeconfig"}
        BY <1>1 DEF ReconcileNothing, AddFinalizer, StartDelete, StartUnmanage,
           StartManage, Begin
    <2> QED
        BY <2>1, <2>2, SecretUntouched DEF OwnerInv, Standing, ManagePcs
<1>2. CASE EnsureStandingKubeconfig
    BY <1>2, EnsureSecret DEF EnsureStandingKubeconfig
<1>3. CASE \/ CheckConnectivity \/ Provision \/ ProvisionAdapter
           \/ EnsureAdapterCredentialSecret \/ EnsureAdapterLabel \/ RestartAdapter
    <2>1. UNCHANGED <<kc, kcCache, kcPend, uids>>
        BY <1>3 DEF CheckConnectivity, Provision, ProvisionAdapter,
           EnsureAdapterCredentialSecret, EnsureAdapterLabel, RestartAdapter
    <2>2. pc \in Standing
        BY <1>3 DEF CheckConnectivity, Provision, ProvisionAdapter,
           EnsureAdapterCredentialSecret, EnsureAdapterLabel, RestartAdapter,
           Standing, ManagePcs
    <2> QED
        BY <2>1, <2>2, SecretUntouched DEF OwnerInv
<1>4. CASE \/ PatchStatus \/ DeprovisionSpoke \/ DeleteAdapterCredential
           \/ RestartAfterCleanup \/ RemoveFinalizer
    <2>1. UNCHANGED <<kc, kcCache, kcPend, uids>>
        BY <1>4 DEF PatchStatus, DeprovisionSpoke, DeleteAdapterCredential,
           RestartAfterCleanup, RemoveFinalizer
    <2>2. pc' \in {"idle", "patch", "deleteStanding", "restartAfterCleanup",
                   "removeFinalizer"}
        BY <1>4 DEF PatchStatus, DeprovisionSpoke, DeleteAdapterCredential,
           RestartAfterCleanup, RemoveFinalizer, Return, CleanupStep
    <2> QED
        BY <2>1, <2>2, SecretUntouched DEF OwnerInv, Standing, ManagePcs
<1>5. CASE DeleteStandingKubeconfig
    <2>1. UNCHANGED <<kcCache, uids>> /\ pc' = "deleteAdapter"
        BY <1>5 DEF DeleteStandingKubeconfig, CleanupStep
    <2>2. PutKubeconfig(None) \/ UNCHANGED <<kc, kcPend>>
        BY <1>5 DEF DeleteStandingKubeconfig
    <2> QED
        BY <2>1, <2>2, SecretUntouched, SecretWritten
           DEF OwnerInv, Standing, ManagePcs, MaybeKC
<1>6. CASE HealthHandler
    <2>1. UNCHANGED <<kc, kcCache, kcPend, uids, pc>>
        BY <1>6 DEF HealthHandler, CheckAll, CheckSpoke, PatchConnected
    <2> QED
        BY <2>1, SecretUntouched DEF OwnerInv
<1> QED
    BY <1>1, <1>2, <1>3, <1>4, <1>5, <1>6 DEF Reconciler

\* Informers, garbage collector, crashes and the surroundings keep it.
LEMMA SurroundingsSecret ==
    ASSUME TypeOK, FinalizerInv, OwnerInv,
           \/ SyncSpokeCluster \/ SyncKubeconfig \/ CollectGarbage \/ StartAdapter \/ Environment
    PROVE  SecretInv'
<1> USE DEF scVars, kcVars, runVars, healthVars, bounds
<1>1. CASE \/ SyncSpokeCluster \/ AdminEdit \/ AdminDelete \/ ChangeHubConfig
           \/ Resync \/ StartAdapter \/ SpokeSide
    <2>1. UNCHANGED <<kc, kcCache, kcPend, uids, pc>>
        BY <1>1 DEF SyncSpokeCluster, AdminEdit, AdminDelete, ChangeHubConfig,
           Resync, StartAdapter, SpokeSide
    <2> QED
        BY <2>1, SecretUntouched DEF OwnerInv
<1>2. CASE CollectGarbage
    <2>1. UNCHANGED <<kcCache, uids, pc>>
        BY <1>2 DEF CollectGarbage
    <2>2. PutKubeconfig(None) \/ UNCHANGED <<kc, kcPend>>
        BY <1>2 DEF CollectGarbage
    <2> QED
        BY <2>1, <2>2, SecretUntouched, SecretWritten DEF OwnerInv, MaybeKC
<1>3. CASE SyncKubeconfig
    <2>1. /\ kcPend # <<>> /\ kcPend \in Seq(MaybeKC)
          /\ kcCache' = Head(kcPend) /\ kcPend' = Tail(kcPend)
          /\ UNCHANGED <<kc, uids, pc>>
        BY <1>3 DEF SyncKubeconfig, TypeOK
    <2>2. /\ Len(kcPend) \in Nat /\ Len(kcPend) >= 1
          /\ kcCache' = kcPend[1]
          /\ Len(kcPend') = Len(kcPend) - 1
          /\ \A i \in 1..Len(kcPend') : kcPend'[i] = kcPend[i + 1]
        BY <2>1
    <2>3. /\ OwnerKnown(kc)' /\ StandingIsLatest'
          /\ OwnerKnown(kcCache)' /\ Vouches(kcCache)'
        BY <2>1, <2>2 DEF OwnerInv, SecretInv, OwnersKnown, OwnerKnown,
           CacheVouches, Vouches, StandingIsLatest
    <2>4. ASSUME NEW i \in 1..Len(kcPend')
          PROVE  OwnerKnown(kcPend[i])' /\ Vouches(kcPend[i])'
        <3>1. i + 1 \in 1..Len(kcPend) /\ kcPend'[i] = kcPend[i + 1]
            BY <2>2
        <3>2. OwnerKnown(kcPend[i + 1]) /\ Vouches(kcPend[i + 1])
            BY <3>1 DEF OwnerInv, SecretInv, OwnersKnown, CacheVouches
        <3> QED
            BY <2>1, <3>1, <3>2 DEF OwnerKnown, Vouches
    <2> QED
        BY <2>3, <2>4 DEF SecretInv, OwnersKnown, CacheVouches
<1>4. CASE Crash
    <2>1. /\ UNCHANGED <<kc, uids>> /\ kcCache' = kc /\ kcPend' = <<>>
          /\ pc' = "idle"
        BY <1>4 DEF Crash
    <2> QED
        BY <2>1 DEF OwnerInv, SecretInv, OwnersKnown, OwnerKnown, CacheVouches,
           Vouches, StandingIsLatest, Standing, ManagePcs
<1>5. CASE AdminCreate
    <2>1. /\ UNCHANGED <<kc, kcCache, kcPend, pc>>
          /\ uids' = uids + 1 /\ sc = None
        BY <1>5 DEF AdminCreate
    <2>2. pc \notin Standing
        BY <2>1 DEF FinalizerInv, ManagedHeld, Held, Standing
    <2>3. uids \in Int
        BY ConstantsAssumption DEF TypeOK
    <2>4. ASSUME NEW v \in MaybeKC, OwnerKnown(v)
          PROVE  v # None => v.owner \in Int /\ v.owner < uids'
        BY <2>1, <2>3, <2>4, ConstantsAssumption
           DEF OwnerKnown, MaybeKC, Kubeconfigs, Uids
    <2>5. /\ kc \in MaybeKC /\ kcCache \in MaybeKC
          /\ \A i \in 1..Len(kcPend) : kcPend[i] \in MaybeKC
        BY DEF TypeOK
    <2>6. /\ kc # None => kc.owner \in Int /\ kc.owner < uids'
          /\ kcCache # None => kcCache.owner \in Int /\ kcCache.owner < uids'
          /\ \A i \in 1..Len(kcPend) : kcPend[i] # None =>
                kcPend[i].owner \in Int /\ kcPend[i].owner < uids'
        BY <2>4, <2>5 DEF OwnerInv, SecretInv, OwnersKnown
    <2>7. OwnersKnown' /\ CacheVouches'
        BY <2>1, <2>3, <2>6 DEF OwnersKnown, OwnerKnown, CacheVouches, Vouches
    <2>8. StandingIsLatest'
        BY <2>1, <2>2 DEF StandingIsLatest
    <2> QED
        BY <2>7, <2>8 DEF SecretInv
<1> QED
    BY <1>1, <1>2, <1>3, <1>4, <1>5 DEF Environment

\* A write leaves what it writes.
LEMMA PutSCWrites ==
    ASSUME NEW w, PutSC(w)
    PROVE  sc' = w
BY DEF PutSC

\* A changed field is not the uid.
LEMMA UidKept ==
    ASSUME NEW v \in SpokeClusters, NEW w,
           \/ \E c : w = [v EXCEPT !.conditions = c]
           \/ w = [v EXCEPT !.finalizer = TRUE]
           \/ w = [v EXCEPT !.label = TRUE]
           \/ w = [v EXCEPT !.deleting = TRUE]
           \/ w = [v EXCEPT !.gen = v.gen + 1]
    PROVE  w.uid = v.uid
BY DEF SpokeClusters

\* Every write of the live SpokeCluster is of the latest incarnation.
LEMMA UidStaysCurrent ==
    ASSUME TypeOK, FinalizerInv, UidCurrent, Next
    PROVE  UidCurrent'
<1> USE DEF scVars, kcVars, runVars, healthVars, bounds
<1>1. CASE AdminCreate
    BY <1>1 DEF AdminCreate, PutSC, UidCurrent
<1>2. CASE AddFinalizer
    <2> DEFINE w == [scCache EXCEPT !.finalizer = TRUE]
    <2>1. scCache # None \/ UNCHANGED <<sc, scPend>>
        BY <1>2 DEF AddFinalizer
    <2>2. \/ scPend = <<>> /\ PutSC(w)
          \/ UNCHANGED <<sc, scPend>>
        BY <1>2 DEF AddFinalizer
    <2>3. uids' = uids
        BY <1>2 DEF AddFinalizer
    <2>4. CASE scPend = <<>> /\ scCache # None /\ PutSC(w)
        <3>1. scCache = sc /\ scCache \in SpokeClusters
            BY <2>4 DEF FinalizerInv, WatchEndsLive, TypeOK, MaybeSC
        <3>2. w.uid = sc.uid
            BY <3>1, UidKept
        <3> HIDE DEF w
        <3>3. sc' = w /\ sc # None
            BY <2>4, <3>1, PutSCWrites
        <3> QED
            BY <2>3, <3>2, <3>3 DEF UidCurrent
    <2> QED
        BY <2>1, <2>2, <2>3, <2>4 DEF UidCurrent
<1>3. CASE EnsureAdapterLabel
    <2> DEFINE w == [scCache EXCEPT !.label = TRUE]
    <2>1. scCache # None \/ UNCHANGED <<sc, scPend>>
        BY <1>3 DEF EnsureAdapterLabel
    <2>2. \/ scPend = <<>> /\ PutSC(w)
          \/ UNCHANGED <<sc, scPend>>
        BY <1>3 DEF EnsureAdapterLabel
    <2>3. uids' = uids
        BY <1>3 DEF EnsureAdapterLabel
    <2>4. CASE scPend = <<>> /\ scCache # None /\ PutSC(w)
        <3>1. scCache = sc /\ scCache \in SpokeClusters
            BY <2>4 DEF FinalizerInv, WatchEndsLive, TypeOK, MaybeSC
        <3>2. w.uid = sc.uid
            BY <3>1, UidKept
        <3> HIDE DEF w
        <3>3. sc' = w /\ sc # None
            BY <2>4, <3>1, PutSCWrites
        <3> QED
            BY <2>3, <3>2, <3>3 DEF UidCurrent
    <2> QED
        BY <2>1, <2>2, <2>3, <2>4 DEF UidCurrent
<1>4. CASE PatchStatus \/ PatchConnected
    <2>1. \/ UNCHANGED sc
          \/ sc # None /\ \E c : sc' = [sc EXCEPT !.conditions = c]
        BY <1>4 DEF PatchStatus, PatchConnected, PutSC
    <2>2. uids' = uids
        BY <1>4 DEF PatchStatus, PatchConnected
    <2> QED
        BY <2>1, <2>2, UidKept DEF UidCurrent, TypeOK, MaybeSC
<1>5. CASE AdminEdit \/ AdminDelete \/ RemoveFinalizer
    <2>1. \/ UNCHANGED sc
          \/ sc' = None
          \/ sc # None /\ sc' = [sc EXCEPT !.gen = sc.gen + 1]
          \/ sc # None /\ sc' = [sc EXCEPT !.deleting = TRUE]
        BY <1>5 DEF AdminEdit, AdminDelete, RemoveFinalizer, PutSC
    <2>2. uids' = uids
        BY <1>5 DEF AdminEdit, AdminDelete, RemoveFinalizer
    <2> QED
        BY <2>1, <2>2, UidKept DEF UidCurrent, TypeOK, MaybeSC
<1>6. CASE \/ ReconcileNothing \/ StartDelete \/ StartUnmanage \/ StartManage
           \/ EnsureStandingKubeconfig \/ CheckConnectivity \/ Provision
           \/ ProvisionAdapter \/ EnsureAdapterCredentialSecret \/ RestartAdapter
    <2>1. UNCHANGED <<sc, uids>>
        BY <1>6 DEF ReconcileNothing, StartDelete, StartUnmanage, StartManage,
           EnsureStandingKubeconfig, CheckConnectivity, Provision,
           ProvisionAdapter, EnsureAdapterCredentialSecret, RestartAdapter
    <2> QED
        BY <2>1 DEF UidCurrent
<1>7. CASE \/ DeprovisionSpoke \/ DeleteStandingKubeconfig
           \/ DeleteAdapterCredential \/ RestartAfterCleanup
           \/ CheckAll \/ CheckSpoke \/ SyncSpokeCluster \/ SyncKubeconfig
           \/ CollectGarbage \/ ChangeHubConfig \/ Resync \/ StartAdapter \/ SpokeSide \/ Crash
    <2>1. UNCHANGED <<sc, uids>>
        BY <1>7 DEF DeprovisionSpoke, DeleteStandingKubeconfig,
           DeleteAdapterCredential, RestartAfterCleanup, CheckAll, CheckSpoke,
           SyncSpokeCluster, SyncKubeconfig, CollectGarbage, ChangeHubConfig,
           Resync, StartAdapter, SpokeSide, Crash
    <2> QED
        BY <2>1 DEF UidCurrent
<1> QED
    BY <1>1, <1>2, <1>3, <1>4, <1>5, <1>6, <1>7
       DEF Next, Reconciler, HealthHandler, Environment

\* Only the latest incarnation's runs write the standing Secret, and a cached
\* version that names it as owner speaks for the live one, in every behaviour.
THEOREM OwnerInvariant == Spec => []OwnerInv
<1>1. Init => OwnerInv
    BY DEF Init, OwnerInv, UidCurrent, SecretInv, OwnersKnown, OwnerKnown,
       CacheVouches, Vouches, StandingIsLatest, Standing, ManagePcs
<1>2. TypeOK /\ FinalizerInv /\ OwnerInv /\ [Next]_vars => OwnerInv'
    <2> SUFFICES ASSUME TypeOK, FinalizerInv, OwnerInv, [Next]_vars
                 PROVE  OwnerInv'
        OBVIOUS
    <2>1. CASE UNCHANGED vars
        <3>1. UNCHANGED <<sc, kc, kcCache, kcPend, uids, pc>>
            BY <2>1 DEF vars, scVars, kcVars, runVars, bounds
        <3> QED
            BY <3>1, SecretUntouched DEF OwnerInv, UidCurrent
    <2>2. CASE Next
        <3>1. SecretInv'
            BY <2>2, ReconcilerSecret, SurroundingsSecret DEF Next
        <3> QED
            BY <2>2, <3>1, UidStaysCurrent DEF OwnerInv
    <2> QED
        BY <2>1, <2>2
<1> QED
    BY TypeCorrect, FinalizerInvariant, <1>1, <1>2, PTL DEF Spec

\* While a run manages a spoke, a standing Secret that exists belongs to the
\* live SpokeCluster: the garbage collector cannot take it, whichever earlier
\* incarnation wrote the version that ensureStandingKubeconfig found.
THEOREM StandingOwnerAlwaysLive == Spec => []StandingOwnerIsLive
<1>1. FinalizerInv /\ OwnerInv => StandingOwnerIsLive
    BY DEF FinalizerInv, ManagedHeld, Held, OwnerInv, UidCurrent, SecretInv,
       StandingIsLatest, StandingOwnerIsLive, Standing, Owned
<1> QED
    BY FinalizerInvariant, OwnerInvariant, <1>1, PTL

=============================================================================

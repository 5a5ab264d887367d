------------------------ MODULE SpokeRegistrationProofs ------------------------
(***************************************************************************)
(* For every value of the constants: SpokeController implements the safety *)
(* part of Registration.  Each action of the reconciler, the health        *)
(* handler, the informers and the surroundings is a step of Registration   *)
(* or leaves the registration as it was.  No deletion is forgotten, and    *)
(* what a registration leaves behind on the spoke is reported, while the   *)
(* cached standing Secret is at most one version behind.                   *)
(***************************************************************************)
EXTENDS SpokeFinalizerProofs

\* A live SpokeCluster that is being deleted still carries the finalizer.
DeletingHeld == sc # None /\ sc.deleting => sc.finalizer

\* Steps of a cleanup that has made its attempt at the spoke.
Attempted == {"deleteStanding", "deleteAdapter", "restartAfterCleanup",
              "removeFinalizer"}

\* A deletion run is at the finalizer only after its own attempt.
CleanupTold == pc \in Attempted => cleanup # "-"

\* Every step keeps it.
LEMMA NextCleanupTold ==
    ASSUME CleanupTold, [Next]_vars
    PROVE  CleanupTold'
<1> USE DEF CleanupTold, Attempted
<1>1. CASE UNCHANGED <<pc, cleanup>>
    BY <1>1
<1>2. CASE DeprovisionSpoke
    BY <1>2 DEF DeprovisionSpoke
<1>3. CASE \/ DeleteStandingKubeconfig \/ DeleteAdapterCredential
           \/ RestartAfterCleanup
    <2>1. pc \in Attempted /\ cleanup' = cleanup
        BY <1>3 DEF DeleteStandingKubeconfig, DeleteAdapterCredential,
           RestartAfterCleanup
    <2> QED
        BY <2>1
<1>4. CASE \/ EnsureStandingKubeconfig \/ CheckConnectivity \/ Provision
           \/ ProvisionAdapter \/ EnsureAdapterCredentialSecret
           \/ EnsureAdapterLabel \/ RestartAdapter
    <2>1. pc' \in ManagePcs \cup {"patch"}
        BY <1>4 DEF EnsureStandingKubeconfig, CheckConnectivity, Provision,
           ProvisionAdapter, EnsureAdapterCredentialSecret, EnsureAdapterLabel,
           RestartAdapter, FailWith, Proceed, Succeed, ManagePcs
    <2> QED
        BY <2>1 DEF ManagePcs
<1>5. CASE PatchStatus \/ RemoveFinalizer \/ Crash
    BY <1>5 DEF PatchStatus, RemoveFinalizer, Crash, Return
<1>6. CASE StartDelete \/ StartUnmanage \/ StartManage
    BY <1>6 DEF StartDelete, StartUnmanage, StartManage, Begin
<1>7. CASE \/ ReconcileNothing \/ AddFinalizer \/ HealthHandler
           \/ SyncSpokeCluster \/ SyncKubeconfig \/ CollectGarbage \/ StartAdapter
           \/ (Environment /\ ~Crash) \/ UNCHANGED vars
    <2>1. UNCHANGED runVars
        BY <1>7
        DEF ReconcileNothing, AddFinalizer, HealthHandler, CheckAll, CheckSpoke,
            PatchConnected, SyncSpokeCluster, SyncKubeconfig, CollectGarbage,
            StartAdapter, Environment, AdminCreate, AdminEdit, AdminDelete,
            ChangeHubConfig, Resync, SpokeSide, vars
    <2> QED
        BY <1>1, <2>1 DEF runVars
<1> QED
    BY <1>2, <1>3, <1>4, <1>5, <1>6, <1>7 DEF Next, Reconciler

\* So it holds throughout.
LEMMA CleanupIsTold == Spec => []CleanupTold
<1>1. Init => CleanupTold
    BY DEF Init, CleanupTold, Attempted
<1> QED
    BY <1>1, NextCleanupTold, PTL DEF Spec

-----------------------------------------------------------------------------
(* The kinds of steps.                                                      *)

\* Nothing appears on the hub or on the spoke.
NothingNew ==
    /\ kc' # None => kc # None
    /\ ac' # 0 => ac # 0
    /\ base' # "none" => base # "none"
    /\ adp' # "none" => adp # "none"

\* Nothing disappears.
NothingLost ==
    /\ kc # None => kc' # None
    /\ ac # 0 => ac' # 0
    /\ base # "none" => base' # "none"
    /\ adp # "none" => adp' # "none"

\* The registration stays where it is, is cleared, or has to be cleared again.
Turn ==
    \/ Life' = Life
    \/ Life = "leaving" /\ Life' = "cleared"
    \/ Life = "cleared" /\ Life' = "leaving"

\* A step under which nothing appears takes back, clears or retries.
LEMMA TakingStep ==
    ASSUME Turn, NothingNew
    PROVE  Reg!Next
BY DEF Turn, Reg!Next, Reg!TakeBack, Reg!Clear, Reg!Retry, Reg!NothingNew, NothingNew

\* A step under the finalizer that loses nothing provides.
LEMMA GivingStep ==
    ASSUME Life' = Life, Life \in {"held", "leaving"}, NothingLost
    PROVE  Reg!Provide
BY DEF Reg!Provide, NothingLost

\* The step keeps what Life looks at of the SpokeCluster.
SameObject ==
    \/ sc' = sc
    \/ /\ sc # None /\ sc' # None
       /\ sc'.finalizer = sc.finalizer
       /\ sc'.deleting = sc.deleting

\* Such a step changes Life only with the progress of a deletion run.
LEMMA SameLife ==
    ASSUME SameObject
    PROVE  Turn
BY DEF Life, Turn, SameObject

\* Outside the last step of a deletion run it keeps Life.
LEMMA KeptLife ==
    ASSUME SameObject, pc # "removeFinalizer", pc' # "removeFinalizer"
    PROVE  Life' = Life
BY DEF Life, SameObject

\* A write of another condition list keeps what Life looks at and the
\* deletion's finalizer.
LEMMA ConditionsWrite ==
    ASSUME TypeOK, DeletingHeld, sc # None, NEW c \in Lists,
           PutSC([sc EXCEPT !.conditions = c])
    PROVE  Turn /\ DeletingHeld'
<1>1. sc \in SpokeClusters
    BY DEF TypeOK, MaybeSC
<1>2. CASE sc' = sc
    BY <1>2, SameLife DEF DeletingHeld, SameObject
<1>3. CASE sc' = [sc EXCEPT !.conditions = c]
    <2>1. /\ sc' # None /\ sc'.finalizer = sc.finalizer
          /\ sc'.deleting = sc.deleting
        BY <1>1, <1>3, PutConditions, SpokeClusterFields
    <2> QED
        BY <2>1, SameLife DEF DeletingHeld, SameObject
<1> QED
    BY <1>2, <1>3 DEF PutSC

-----------------------------------------------------------------------------
(* The actions.                                                             *)

Frame == UNCHANGED <<kc, ac, base, adp>>

\* Steps that write nothing on the hub or on the spoke.
LEMMA StillStep ==
    ASSUME DeletingHeld, UNCHANGED sc, NothingNew
    PROVE  Reg!Next /\ DeletingHeld'
BY SameLife, TakingStep DEF DeletingHeld, SameObject

\* The first steps of Reconcile.
LEMMA StartRegistration ==
    ASSUME TypeOK, FinalizerInv, DeletingHeld,
           \/ ReconcileNothing \/ AddFinalizer
           \/ StartDelete \/ StartUnmanage \/ StartManage
    PROVE  Reg!Next /\ DeletingHeld'
<1> USE DEF scVars, kcVars, remoteVars
<1>1. CASE ReconcileNothing \/ StartDelete \/ StartUnmanage \/ StartManage
    <2>1. UNCHANGED sc /\ NothingNew
        BY <1>1 DEF ReconcileNothing, StartDelete, StartUnmanage, StartManage,
           NothingNew
    <2> QED
        BY <2>1, StillStep
<1>2. CASE AddFinalizer
    <2>1. Frame
        BY <1>2 DEF AddFinalizer, Frame
    <2>2. CASE scPend = <<>> /\ PutSC([scCache EXCEPT !.finalizer = TRUE])
        <3>1. /\ scCache = sc /\ scCache \in SpokeClusters
              /\ ~scCache.deleting /\ ~scCache.finalizer
            BY <1>2, <2>2
               DEF AddFinalizer, FinalizerInv, WatchEndsLive, TypeOK, MaybeSC
        <3>2. sc' = [scCache EXCEPT !.finalizer = TRUE]
            BY <2>2, <3>1, PutFinalizer DEF PutSC
        <3>3. sc' # None /\ sc'.finalizer /\ ~sc'.deleting
            BY <3>1, <3>2, PutFinalizer, SpokeClusterFields
        <3>4. Life = "open" /\ Life' = "held"
            BY <3>1, <3>3, SpokeClusterFields DEF Life
        <3> QED
            BY <2>1, <3>3, <3>4
               DEF Reg!Next, Reg!Hold, Reg!Move, DeletingHeld, Frame
    <2>3. CASE UNCHANGED sc
        BY <2>1, <2>3, StillStep DEF Frame, NothingNew
    <2> QED
        BY <1>2, <2>2, <2>3 DEF AddFinalizer
<1> QED
    BY <1>1, <1>2

\* A managing run works under the finalizer.
LEMMA ManagingIsHeld ==
    ASSUME FinalizerInv, pc \in ManagePcs
    PROVE  sc # None /\ Life \in {"held", "leaving"}
BY DEF FinalizerInv, ManagedHeld, Held, Life, ManagePcs

\* The steps of the managed path.
LEMMA ManageRegistration ==
    ASSUME TypeOK, FinalizerInv, DeletingHeld,
           \/ EnsureStandingKubeconfig \/ CheckConnectivity \/ Provision
           \/ ProvisionAdapter \/ EnsureAdapterCredentialSecret
           \/ EnsureAdapterLabel \/ RestartAdapter
    PROVE  Reg!Next /\ DeletingHeld'
<1> USE DEF scVars, kcVars, remoteVars
<1>1. pc \in ManagePcs
    BY DEF EnsureStandingKubeconfig, CheckConnectivity, Provision,
       ProvisionAdapter, EnsureAdapterCredentialSecret, EnsureAdapterLabel,
       RestartAdapter, ManagePcs
<1>2. sc # None /\ Life \in {"held", "leaving"}
    BY <1>1, ManagingIsHeld
<1>a. pc # "removeFinalizer" /\ pc' # "removeFinalizer"
    BY <1>1 DEF EnsureStandingKubeconfig, CheckConnectivity, Provision,
       ProvisionAdapter, EnsureAdapterCredentialSecret, EnsureAdapterLabel,
       RestartAdapter, FailWith, Proceed, Succeed, ManagePcs
<1>3. ASSUME UNCHANGED sc, NothingLost
      PROVE  Reg!Next /\ DeletingHeld'
    <2>1. Life' = Life
        BY <1>3, <1>a, KeptLife DEF SameObject
    <2>2. Reg!Provide
        BY <1>2, <1>3, <2>1, GivingStep
    <2> QED
        BY <1>3, <2>2 DEF Reg!Next, DeletingHeld
<1>4. CASE EnsureStandingKubeconfig
    <2>a. pc # "idle" /\ pc = "kubeconfig"
        BY <1>4 DEF EnsureStandingKubeconfig
    <2>b. loc \in SpokeClusters
        BY <2>a, LocType
    <2>c. kc \in MaybeKC /\ (src # 0 => BuildStandingKubeconfig(loc, src) \in Kubeconfigs)
        BY <2>b, SpokeClusterFields, ConstantsAssumption
           DEF BuildStandingKubeconfig, Kubeconfigs, TypeOK
    <2>1. src # 0 => BuildStandingKubeconfig(loc, src) # None
        BY <2>c, NoneAssumption
    <2>2. UNCHANGED <<sc, ac, base, adp>>
        BY <1>4 DEF EnsureStandingKubeconfig
    <2>3. kc' = kc \/ kc' # None
        BY <1>4, <2>1 DEF EnsureStandingKubeconfig, PutKubeconfig
    <2> QED
        BY <1>3, <2>2, <2>3 DEF NothingLost
<1>5. CASE CheckConnectivity \/ RestartAdapter
    <2>1. UNCHANGED <<sc, kc, ac, base, adp>>
        BY <1>5 DEF CheckConnectivity, RestartAdapter
    <2> QED
        BY <1>3, <2>1 DEF NothingLost
<1>6. CASE Provision
    <2>1. UNCHANGED <<sc, kc, ac, adp>>
        BY <1>6 DEF Provision
    <2>2. base # "none" => base' # "none"
        BY <1>6 DEF Provision, Part
    <2> QED
        BY <1>3, <2>1, <2>2 DEF NothingLost
<1>7. CASE ProvisionAdapter
    <2>1. UNCHANGED <<sc, kc, ac, base>>
        BY <1>7 DEF ProvisionAdapter
    <2>2. adp # "none" => adp' # "none"
        BY <1>7 DEF ProvisionAdapter, Part
    <2> QED
        BY <1>3, <2>1, <2>2 DEF NothingLost
<1>8. CASE EnsureAdapterCredentialSecret
    <2>1. UNCHANGED <<sc, kc, base, adp>>
        BY <1>8 DEF EnsureAdapterCredentialSecret
    <2>2. loc \in SpokeClusters
        BY <1>8, LocType DEF EnsureAdapterCredentialSecret
    <2>3. loc.uid # 0
        BY <2>2, SpokeClusterFields DEF Uids
    <2>4. ac' = ac \/ ac' = loc.uid
        BY <1>8 DEF EnsureAdapterCredentialSecret
    <2> QED
        BY <1>3, <2>1, <2>3, <2>4 DEF NothingLost
<1>9. CASE EnsureAdapterLabel
    <2>1. UNCHANGED <<kc, ac, base, adp>>
        BY <1>9 DEF EnsureAdapterLabel
    <2>2. CASE UNCHANGED sc
        BY <1>3, <2>1, <2>2 DEF NothingLost
    <2>3. CASE /\ scCache # None /\ scPend = <<>>
               /\ PutSC([scCache EXCEPT !.label = TRUE])
        <3>1. scCache = sc /\ scCache \in SpokeClusters
            BY <2>3 DEF FinalizerInv, WatchEndsLive, TypeOK, MaybeSC
        <3>2. sc' = sc \/ sc' = [scCache EXCEPT !.label = TRUE]
            BY <2>3 DEF PutSC
        <3>a. ASSUME sc' = [scCache EXCEPT !.label = TRUE]
              PROVE  /\ sc' # None /\ sc'.finalizer = sc.finalizer
                     /\ sc'.deleting = sc.deleting
            <4>1. /\ sc' \in SpokeClusters
                  /\ sc'.finalizer = sc.finalizer /\ sc'.deleting = sc.deleting
                BY <3>1, <3>a, PutLabel
            <4> QED
                BY <4>1, NoneAssumption
        <3>3. /\ sc' # None /\ sc'.finalizer = sc.finalizer
              /\ sc'.deleting = sc.deleting
            <4>1. CASE sc' = sc
                BY <1>2, <4>1
            <4>2. CASE sc' = [scCache EXCEPT !.label = TRUE]
                BY <3>a, <4>2
            <4> QED
                BY <3>2, <4>1, <4>2
        <3>4. Life' = Life
            BY <1>2, <1>a, <3>3, KeptLife DEF SameObject
        <3>5. Reg!Provide
            BY <1>2, <2>1, <3>4, GivingStep DEF NothingLost
        <3> QED
            BY <1>2, <3>3, <3>5 DEF Reg!Next, DeletingHeld
    <2> QED
        BY <1>9, <2>2, <2>3 DEF EnsureAdapterLabel
<1> QED
    BY <1>4, <1>5, <1>6, <1>7, <1>8, <1>9

\* The steps of cleanupSpokeResources.
LEMMA CleanupRegistration ==
    ASSUME TypeOK, DeletingHeld,
           \/ DeprovisionSpoke \/ DeleteStandingKubeconfig
           \/ DeleteAdapterCredential \/ RestartAfterCleanup
    PROVE  Reg!Next /\ DeletingHeld'
<1> USE DEF scVars, kcVars, remoteVars
<1>1. UNCHANGED sc
    BY DEF DeprovisionSpoke, DeleteStandingKubeconfig, DeleteAdapterCredential,
       RestartAfterCleanup
<1>2. NothingNew
    <2>1. CASE DeprovisionSpoke
        BY <2>1 DEF DeprovisionSpoke, NothingNew, Rest
    <2>2. CASE DeleteStandingKubeconfig
        BY <2>2 DEF DeleteStandingKubeconfig, PutKubeconfig, NothingNew
    <2>3. CASE DeleteAdapterCredential \/ RestartAfterCleanup
        BY <2>3 DEF DeleteAdapterCredential, RestartAfterCleanup, NothingNew
    <2> QED
        BY <2>1, <2>2, <2>3
<1> QED
    BY <1>1, <1>2, StillStep

\* The two steps that end a run: the status write and the finalizer's removal.
LEMMA EndRegistration ==
    ASSUME TypeOK, FinalizerInv, CleanupTold, DeletingHeld,
           PatchStatus \/ RemoveFinalizer
    PROVE  Reg!Next /\ DeletingHeld'
<1> USE DEF scVars, kcVars, remoteVars
<1>1. Frame
    BY DEF PatchStatus, RemoveFinalizer, Frame
<1>2. CASE UNCHANGED sc
    BY <1>1, <1>2, StillStep DEF Frame, NothingNew
<1>3. CASE /\ PatchStatus /\ sc # None
           /\ PutSC([sc EXCEPT !.conditions = loc.conditions])
    <2>1. loc \in SpokeClusters
        BY <1>3, LocType DEF PatchStatus
    <2>2. loc.conditions \in Lists
        BY <2>1, SpokeClusterFields
    <2>3. Turn /\ DeletingHeld'
        BY <1>3, <2>2, ConditionsWrite
    <2> QED
        BY <1>1, <2>3, TakingStep DEF Frame, NothingNew
<1>4. CASE RemoveFinalizer /\ current /\ PutSC(None)
    <2>1. scCache = sc /\ sc # None /\ sc.deleting
        BY <1>4 DEF FinalizerInv, CurrentIsDeletion, WatchEndsLive
    <2>2. Life = "cleared"
        BY <1>4, <2>1 DEF RemoveFinalizer, CleanupTold, Attempted, Life, DeletingHeld
    <2>3. sc' = None
        BY <1>4 DEF PutSC
    <2>4. Life' = "absent" /\ DeletingHeld'
        BY <2>3 DEF Life, DeletingHeld
    <2> QED
        BY <1>1, <2>2, <2>4 DEF Reg!Next, Reg!Release, Reg!Move, Frame
<1>5. CASE PatchStatus
    BY <1>2, <1>3, <1>5 DEF PatchStatus
<1>6. CASE RemoveFinalizer
    BY <1>2, <1>4, <1>6 DEF RemoveFinalizer
<1> QED
    BY <1>5, <1>6

\* The health handler, the informers, the garbage collector, restarts and the
\* events that leave the SpokeCluster alone.
LEMMA OtherRegistration ==
    ASSUME TypeOK, DeletingHeld,
           \/ HealthHandler \/ SyncSpokeCluster \/ SyncKubeconfig
           \/ CollectGarbage \/ ChangeHubConfig \/ Resync \/ StartAdapter \/ SpokeSide \/ Crash
    PROVE  Reg!Next /\ DeletingHeld'
<1> USE DEF scVars, kcVars, remoteVars
<1>1. CASE SyncSpokeCluster \/ SyncKubeconfig \/ ChangeHubConfig \/ Resync \/ StartAdapter
              \/ SpokeSide \/ Crash \/ CheckAll \/ CheckSpoke
    <2>1. UNCHANGED sc /\ Frame
        BY <1>1 DEF SyncSpokeCluster, SyncKubeconfig, ChangeHubConfig, Resync, StartAdapter,
           SpokeSide, Crash, CheckAll, CheckSpoke, Frame
    <2> QED
        BY <2>1, StillStep DEF Frame, NothingNew
<1>2. CASE CollectGarbage
    <2>1. UNCHANGED <<sc, base, adp>>
        BY <1>2 DEF CollectGarbage
    <2>2. (kc' # None => kc # None) /\ (ac' # 0 => ac # 0)
        BY <1>2 DEF CollectGarbage, PutKubeconfig
    <2> QED
        BY <2>1, <2>2, StillStep DEF NothingNew
<1>3. CASE PatchConnected
    <2>1. Frame
        BY <1>3 DEF PatchConnected, Frame
    <2>2. CASE UNCHANGED sc
        BY <2>1, <2>2, StillStep DEF Frame, NothingNew
    <2>3. CASE sc # None /\ PutSC([sc EXCEPT !.conditions = HealthConditions])
        <3>1. HealthConditions \in Lists
            <4>1. hnew # "-"
                BY <1>3 DEF PatchConnected, TypeOK
            <4> QED
                BY <4>1, HealthConditionsType
        <3>2. Turn /\ DeletingHeld'
            BY <2>3, <3>1, ConditionsWrite
        <3> QED
            BY <2>1, <3>2, TakingStep DEF Frame, NothingNew
    <2> QED
        BY <1>3, <2>2, <2>3 DEF PatchConnected
<1> QED
    BY <1>1, <1>2, <1>3 DEF HealthHandler

\* The administrator.
LEMMA AdminRegistration ==
    ASSUME TypeOK, DeletingHeld, AdminCreate \/ AdminEdit \/ AdminDelete
    PROVE  Reg!Next /\ DeletingHeld'
<1> USE DEF scVars, kcVars, remoteVars
<1>1. Frame
    BY DEF AdminCreate, AdminEdit, AdminDelete, Frame
<1>2. CASE AdminCreate
    <2>1. sc' # None /\ ~sc'.finalizer /\ ~sc'.deleting
        <3> DEFINE new == [uid |-> uids + 1, gen |-> 1, deleting |-> FALSE,
                           finalizer |-> FALSE, label |-> FALSE,
                           conditions |-> NoConditions]
        <3>1. uids + 1 \in Uids /\ 1 \in Gens
            BY <1>2, CreateType
        <3>2. new \in SpokeClusters
            BY <3>1, NoConditionsType DEF SpokeClusters, Lists
        <3>3. new # None
            BY <3>2, NoneAssumption
        <3>4. sc' = new
            BY <1>2, <3>3 DEF AdminCreate, PutSC
        <3> QED
            BY <3>3, <3>4
    <2>2. Life = "absent" /\ Life' = "open"
        BY <1>2, <2>1 DEF AdminCreate, Life
    <2> QED
        BY <1>1, <2>1, <2>2 DEF Reg!Next, Reg!Register, Reg!Move, Frame, DeletingHeld
<1>3. CASE AdminEdit
    <2>1. sc \in SpokeClusters /\ sc # None /\ sc.gen < MaxGen
        BY <1>3 DEF AdminEdit, TypeOK, MaybeSC
    <2>2. sc' = sc \/ sc' = [sc EXCEPT !.gen = @ + 1]
        BY <1>3 DEF AdminEdit, PutSC
    <2>3. /\ sc' # None /\ sc'.finalizer = sc.finalizer
          /\ sc'.deleting = sc.deleting
        <3>1. CASE sc' = sc
            BY <2>1, <3>1
        <3>2. CASE sc' = [sc EXCEPT !.gen = @ + 1]
            <4>1. /\ sc' \in SpokeClusters
                  /\ sc'.finalizer = sc.finalizer /\ sc'.deleting = sc.deleting
                BY <2>1, <3>2, PutGeneration
            <4> QED
                BY <4>1, NoneAssumption
        <3> QED
            BY <2>2, <3>1, <3>2
    <2>4. Turn
        BY <2>1, <2>3, SameLife DEF SameObject
    <2>5. Reg!Next
        BY <1>1, <2>4, TakingStep DEF Frame, NothingNew
    <2> QED
        BY <2>1, <2>3, <2>5 DEF DeletingHeld
<1>4. CASE AdminDelete
    <2>1. sc \in SpokeClusters /\ sc # None /\ ~sc.deleting
        BY <1>4 DEF AdminDelete, TypeOK, MaybeSC
    <2>2. CASE sc.finalizer
        <3> DEFINE w == [sc EXCEPT !.deleting = TRUE]
        <3>1. w \in SpokeClusters /\ w.deleting /\ w.finalizer
            BY <2>1, <2>2, PutDeleting
        <3>2. PutSC(w)
            BY <1>4, <2>2 DEF AdminDelete
        <3>3. w # sc
            BY <2>1, <3>1
        <3>4. sc' = w
            BY <3>2, <3>3 DEF PutSC
        <3>5. sc' # None /\ sc'.deleting /\ sc'.finalizer
            BY <3>1, <3>4, NoneAssumption
        <3>a. ~current'
            BY <1>4, <3>3, <3>4 DEF AdminDelete, Outdate
        <3>6. Life = "held" /\ Life' = "leaving"
            BY <2>1, <2>2, <3>5, <3>a DEF Life
        <3> QED
            BY <1>1, <3>5, <3>6 DEF Reg!Next, Reg!Leave, Reg!Move, Frame, DeletingHeld
    <2>3. CASE ~sc.finalizer
        <3>1. PutSC(None)
            BY <1>4, <2>3 DEF AdminDelete
        <3>2. sc' = None
            BY <2>1, <3>1 DEF PutSC
        <3>3. Life = "open" /\ Life' = "absent" /\ DeletingHeld'
            BY <2>1, <2>3, <3>2 DEF Life, DeletingHeld
        <3> QED
            BY <1>1, <3>3 DEF Reg!Next, Reg!Abandon, Reg!Move, Frame
    <2> QED
        BY <2>2, <2>3
<1> QED
    BY <1>2, <1>3, <1>4

-----------------------------------------------------------------------------
(* The theorem.                                                             *)

\* Every step of SpokeController is a step of Registration or a stutter.
LEMMA NextRegistration ==
    ASSUME TypeOK, FinalizerInv, CleanupTold, DeletingHeld, [Next]_vars
    PROVE  [Reg!Next]_(Reg!vars) /\ DeletingHeld'
<1>1. CASE UNCHANGED vars
    <2>1. UNCHANGED <<sc, kc, ac, base, adp>>
        BY <1>1 DEF vars, scVars, kcVars, remoteVars
    <2> QED
        BY <2>1, StillStep DEF NothingNew
<1>2. CASE Reconciler
    BY <1>2, StartRegistration, ManageRegistration, CleanupRegistration,
       EndRegistration DEF Reconciler
<1>3. CASE Next /\ ~Reconciler
    BY <1>3, OtherRegistration, AdminRegistration DEF Next, Environment
<1> QED
    BY <1>1, <1>2, <1>3

\* Every behaviour of the SpokeCluster controller, with its caches, its health
\* handler and its crashes, is one Registration allows: nothing is stored or
\* granted outside the time between finalizer and cleanup, and a registration
\* that is held is let go only by a deletion run that has been through the
\* cleanup itself.
THEOREM SpokeImplementsRegistration == Spec => KeepsRegistration
<1>1. Init => Reg!Init /\ DeletingHeld
    BY DEF Init, Reg!Init, Life, DeletingHeld
<1>2. TypeOK /\ FinalizerInv /\ CleanupTold /\ DeletingHeld /\ [Next]_vars
        => [Reg!Next]_(Reg!vars) /\ DeletingHeld'
    BY NextRegistration
<1> QED
    BY TypeCorrect, FinalizerInvariant, CleanupIsTold, <1>1, <1>2, PTL
       DEF Spec, KeepsRegistration, Reg!Safety

-----------------------------------------------------------------------------
(* Deletions.  The cached SpokeCluster shows a deletion only together with  *)
(* a queued key, a run that is at it, or the news that it is over.          *)

HeldIfDeleting(v) == v # None /\ v.deleting => v.finalizer

VersionsHeld ==
    /\ HeldIfDeleting(scCache)
    /\ \A n \in 1..Len(scPend) : HeldIfDeleting(scPend[n])

DeletionRun == after = "delete" => pc \in CleanupPcs \cup {"removeFinalizer"}

Attended == queued \/ after = "delete"

DeletionHeard ==
    scCache # None /\ scCache.deleting
        => Attended \/ \E n \in 1..Len(scPend) : scPend[n] = None

DeletionInv == DeletingHeld /\ VersionsHeld /\ DeletionRun /\ DeletionHeard

\* A write leaves the watch as it is or one version longer.
LEMMA PutSCWatch ==
    ASSUME NEW w, PutSC(w)
    PROVE  scPend' = scPend \/ scPend' = Append(scPend, sc')
BY DEF PutSC

\* A longer watch still has what it had, and then the live object.
LEMMA LongerWatch ==
    ASSUME TypeOK, TypeOK', scPend' = Append(scPend, sc')
    PROVE  /\ Len(scPend) \in Nat /\ Len(scPend') = Len(scPend) + 1
           /\ scPend'[Len(scPend) + 1] = sc'
           /\ \A n \in 1..Len(scPend) : scPend'[n] = scPend[n]
<1>1. scPend \in Seq(MaybeSC) /\ sc' \in MaybeSC
    BY DEF TypeOK
<1> QED
    BY <1>1

\* Every step leaves the cache and its watch alone, adds the live object to
\* the watch, delivers, or lists anew.
LEMMA WatchSteps ==
    ASSUME [Next]_vars
    PROVE  \/ /\ scCache' = scCache
              /\ scPend' = scPend \/ scPend' = Append(scPend, sc')
           \/ SyncSpokeCluster \/ Crash
<1> USE DEF scVars
<1>1. CASE \/ AddFinalizer \/ EnsureAdapterLabel \/ PatchStatus \/ RemoveFinalizer
           \/ PatchConnected \/ AdminCreate \/ AdminEdit \/ AdminDelete
    <2>1. scCache' = scCache /\ (scPend' = scPend \/ \E w : PutSC(w))
        BY <1>1
        DEF AddFinalizer, EnsureAdapterLabel, PatchStatus, RemoveFinalizer,
            PatchConnected, AdminCreate, AdminEdit, AdminDelete
    <2> QED
        BY <2>1, PutSCWatch
<1>2. CASE \/ ReconcileNothing \/ StartDelete \/ StartUnmanage \/ StartManage
           \/ EnsureStandingKubeconfig \/ CheckConnectivity \/ Provision
           \/ ProvisionAdapter \/ EnsureAdapterCredentialSecret \/ RestartAdapter
           \/ DeprovisionSpoke \/ DeleteStandingKubeconfig
           \/ DeleteAdapterCredential \/ RestartAfterCleanup
    BY <1>2
    DEF ReconcileNothing, StartDelete, StartUnmanage, StartManage,
        EnsureStandingKubeconfig, CheckConnectivity, Provision, ProvisionAdapter,
        EnsureAdapterCredentialSecret, RestartAdapter, DeprovisionSpoke,
        DeleteStandingKubeconfig, DeleteAdapterCredential, RestartAfterCleanup
<1>3. CASE \/ CheckAll \/ CheckSpoke \/ SyncKubeconfig \/ CollectGarbage
           \/ ChangeHubConfig \/ Resync \/ StartAdapter \/ SpokeSide \/ UNCHANGED vars
    BY <1>3
    DEF CheckAll, CheckSpoke, SyncKubeconfig, CollectGarbage, ChangeHubConfig,
        Resync, StartAdapter, SpokeSide, vars
<1> QED
    BY <1>1, <1>2, <1>3 DEF Next, Reconciler, HealthHandler, Environment

\* No version in circulation is deleted without the finalizer.
LEMMA NextVersionsHeld ==
    ASSUME TypeOK, TypeOK', DeletingHeld, VersionsHeld, DeletingHeld', [Next]_vars
    PROVE  VersionsHeld'
<1> USE DEF VersionsHeld, HeldIfDeleting
<1>1. CASE scCache' = scCache /\ scPend' = scPend
    BY <1>1
<1>2. CASE scCache' = scCache /\ scPend' = Append(scPend, sc')
    <2>1. ASSUME NEW n \in 1..Len(scPend') PROVE HeldIfDeleting(scPend'[n])
        <3>1. n \in 1..Len(scPend) \/ n = Len(scPend) + 1
            BY <1>2, <2>1, LongerWatch
        <3> QED
            BY <1>2, <3>1, LongerWatch DEF DeletingHeld
    <2> QED
        BY <1>2, <2>1
<1>3. CASE SyncSpokeCluster
    <2>1. /\ scPend # <<>> /\ scPend \in Seq(MaybeSC)
          /\ scCache' = Head(scPend) /\ scPend' = Tail(scPend)
        BY <1>3 DEF SyncSpokeCluster, TypeOK
    <2>2. /\ 1 \in 1..Len(scPend) /\ scCache' = scPend[1]
          /\ \A n \in 1..Len(scPend') :
                 n + 1 \in 1..Len(scPend) /\ scPend'[n] = scPend[n + 1]
        BY <2>1
    <2> QED
        BY <2>2
<1>4. CASE Crash
    <2>1. scCache' = sc /\ Len(scPend') = 0
        BY <1>4 DEF Crash
    <2>2. ~(\E n \in 1..Len(scPend') : TRUE)
        BY <2>1
    <2> QED
        BY <2>1, <2>2 DEF DeletingHeld
<1> QED
    BY <1>1, <1>2, <1>3, <1>4, WatchSteps

\* A step that leaves a deletion attended leaves it heard.
LEMMA StillHeard ==
    ASSUME TypeOK, TypeOK', DeletionHeard, Attended => Attended', scCache' = scCache,
           scPend' = scPend \/ scPend' = Append(scPend, sc')
    PROVE  DeletionHeard'
<1>1. CASE scPend' = scPend
    BY <1>1 DEF DeletionHeard
<1>2. CASE scPend' = Append(scPend, sc')
    <2>1. \A n \in 1..Len(scPend) : n \in 1..Len(scPend') /\ scPend'[n] = scPend[n]
        BY <1>2, LongerWatch
    <2> QED
        BY <2>1 DEF DeletionHeard
<1> QED
    BY <1>1, <1>2

\* The first steps of Reconcile use a queued key up for a deletion run, or
\* when the cache shows no deletion.
LEMMA StartDeletion ==
    ASSUME TypeOK, TypeOK', DeletionInv, [Next]_vars,
           \/ ReconcileNothing \/ AddFinalizer
           \/ StartDelete \/ StartUnmanage \/ StartManage
    PROVE  DeletionRun' /\ DeletionHeard'
<1>1. pc = "idle" /\ after # "delete"
    BY DEF ReconcileNothing, AddFinalizer, StartDelete, StartUnmanage, StartManage,
       DeletionInv, DeletionRun, CleanupPcs
<1>2. CASE ReconcileNothing
    <2>1. /\ scCache' = scCache /\ UNCHANGED runVars
          /\ scCache = None \/ (scCache.deleting /\ ~scCache.finalizer)
        BY <1>2 DEF ReconcileNothing, scVars
    <2>2. scCache = None \/ ~scCache.deleting
        BY <2>1 DEF DeletionInv, VersionsHeld, HeldIfDeleting
    <2> QED
        BY <1>1, <2>1, <2>2 DEF DeletionRun, DeletionHeard, runVars
<1>3. CASE StartDelete
    <2>1. pc' = "deprovision" /\ after' = "delete"
        BY <1>3 DEF StartDelete, Begin
    <2> QED
        BY <2>1 DEF DeletionRun, DeletionHeard, Attended, CleanupPcs
<1>4. CASE StartUnmanage \/ StartManage
    <2>1. after' # "delete" /\ scCache' = scCache /\ ~scCache.deleting
        BY <1>4 DEF StartUnmanage, StartManage, Begin, scVars
    <2> QED
        BY <2>1 DEF DeletionRun, DeletionHeard
<1>5. CASE AddFinalizer
    <2>1. UNCHANGED runVars /\ scCache' = scCache /\ ~scCache.deleting
        BY <1>5 DEF AddFinalizer
    <2> QED
        BY <1>1, <2>1 DEF DeletionRun, DeletionHeard, runVars
<1> QED
    BY <1>2, <1>3, <1>4, <1>5

\* The steps of a managing run and the writing of its status belong to no
\* deletion, and take no key from the queue.
LEMMA ManageDeletion ==
    ASSUME DeletionRun,
           \/ EnsureStandingKubeconfig \/ CheckConnectivity \/ Provision
           \/ ProvisionAdapter \/ EnsureAdapterCredentialSecret
           \/ EnsureAdapterLabel \/ RestartAdapter \/ PatchStatus
    PROVE  DeletionRun' /\ (Attended => Attended')
<1>1. after # "delete"
    BY DEF EnsureStandingKubeconfig, CheckConnectivity, Provision, ProvisionAdapter,
       EnsureAdapterCredentialSecret, EnsureAdapterLabel, RestartAdapter,
       PatchStatus, DeletionRun, CleanupPcs
<1>2. CASE PatchStatus
    <2>1. PICK b : Return(b)
        BY <1>2 DEF PatchStatus
    <2> QED
        BY <1>1, <2>1 DEF Return, DeletionRun, Attended
<1>3. CASE ~PatchStatus
    <2>1. after' # "delete" /\ queued' = queued
        BY <1>1, <1>3
        DEF EnsureStandingKubeconfig, CheckConnectivity, Provision, ProvisionAdapter,
            EnsureAdapterCredentialSecret, EnsureAdapterLabel, RestartAdapter,
            FailWith, Proceed, Succeed
    <2> QED
        BY <1>1, <2>1 DEF DeletionRun, Attended
<1> QED
    BY <1>2, <1>3

\* The steps of a cleanup keep to the deletion they are for.
LEMMA CleanupDeletion ==
    ASSUME TypeOK, DeletionRun,
           \/ DeprovisionSpoke \/ DeleteStandingKubeconfig
           \/ DeleteAdapterCredential \/ RestartAfterCleanup
    PROVE  DeletionRun' /\ (Attended => Attended')
<1>1. /\ after = "delete" => /\ after' = after
                             /\ pc' \in CleanupPcs \cup {"removeFinalizer"}
      /\ after # "delete" => after' # "delete"
      /\ queued' = queued
    BY DEF DeprovisionSpoke, DeleteStandingKubeconfig, DeleteAdapterCredential,
       RestartAfterCleanup, CleanupStep, CleanupPcs
<1> QED
    BY <1>1 DEF DeletionRun, Attended

\* The removal of the finalizer ends the deletion for all to see, or returns
\* an error.
LEMMA EndDeletion ==
    ASSUME TypeOK, TypeOK', FinalizerInv, DeletionInv, RemoveFinalizer
    PROVE  DeletionRun' /\ DeletionHeard'
<1>1. after' = "-" /\ scCache' = scCache
    BY DEF RemoveFinalizer, Return
<1>2. CASE queued'
    BY <1>1, <1>2 DEF DeletionRun, DeletionHeard, Attended
<1>3. CASE current /\ PutSC(None)
    <2>1. scPend = <<>> /\ scCache = sc /\ sc # None
        BY <1>3 DEF FinalizerInv, CurrentIsDeletion, WatchEndsLive
    <2>2. sc' = None /\ scPend' = Append(scPend, sc')
        BY <1>3, <2>1 DEF PutSC
    <2>3. \E n \in 1..Len(scPend') : scPend'[n] = None
        <3>1. Len(scPend) + 1 \in 1..Len(scPend')
            BY <2>2, LongerWatch
        <3> QED
            BY <2>2, <3>1, LongerWatch
    <2> QED
        BY <1>1, <2>3 DEF DeletionRun, DeletionHeard
<1> QED
    BY <1>2, <1>3 DEF RemoveFinalizer, Return

\* A delivery that shows a deletion wakes the reconciler, or one before it
\* did and the end of that deletion is still to come.
LEMMA DeliverDeletion ==
    ASSUME TypeOK, DeletionInv, SyncSpokeCluster
    PROVE  DeletionRun' /\ DeletionHeard'
<1>1. /\ scPend # <<>> /\ scPend \in Seq(MaybeSC)
      /\ scCache' = Head(scPend) /\ scPend' = Tail(scPend)
      /\ queued' = (queued \/ Passes(scCache, Head(scPend))) /\ UNCHANGED runVars
    BY DEF SyncSpokeCluster, TypeOK
<1>2. DeletionRun'
    BY <1>1 DEF DeletionInv, DeletionRun, runVars
<1>3. SUFFICES ASSUME scCache' # None, scCache'.deleting, ~Attended'
               PROVE  \E n \in 1..Len(scPend') : scPend'[n] = None
    BY <1>2 DEF DeletionHeard
<1>4. ~Attended /\ ~Passes(scCache, scCache')
    BY <1>1, <1>3 DEF Attended, runVars, TypeOK
<1>5. scCache # None /\ scCache.deleting
    BY <1>3, <1>4 DEF Passes
<1>6. PICK n \in 1..Len(scPend) : scPend[n] = None
    BY <1>4, <1>5 DEF DeletionInv, DeletionHeard
<1>7. n # 1
    <2>1. scCache' = scPend[1]
        BY <1>1
    <2> QED
        BY <1>3, <1>6, <2>1
<1>8. n - 1 \in 1..Len(scPend') /\ scPend'[n - 1] = scPend[n]
    BY <1>1, <1>6, <1>7
<1> QED
    BY <1>6, <1>8

\* The others neither take a key from the queue nor touch the run.
LEMMA OtherDeletion ==
    ASSUME TypeOK, DeletionRun,
           \/ HealthHandler \/ SyncKubeconfig \/ CollectGarbage \/ AdminCreate
           \/ AdminEdit \/ AdminDelete \/ ChangeHubConfig \/ Resync \/ StartAdapter \/ SpokeSide
           \/ UNCHANGED vars
    PROVE  DeletionRun' /\ (Attended => Attended')
<1>1. UNCHANGED <<pc, after>> /\ (queued => queued')
    <2>1. CASE \/ HealthHandler \/ SyncKubeconfig \/ CollectGarbage \/ AdminCreate
               \/ AdminEdit \/ AdminDelete \/ StartAdapter \/ SpokeSide
               \/ UNCHANGED vars
        <3>1. UNCHANGED <<runVars, queued>>
            BY <2>1
            DEF HealthHandler, CheckAll, CheckSpoke, PatchConnected, SyncKubeconfig,
                CollectGarbage, AdminCreate, AdminEdit, AdminDelete, StartAdapter,
                SpokeSide, vars
        <3> QED
            BY <3>1 DEF runVars
    <2>2. CASE ChangeHubConfig
        BY <2>2 DEF ChangeHubConfig, runVars
    <2>3. CASE Resync
        BY <2>3 DEF Resync, runVars
    <2> QED
        BY <2>1, <2>2, <2>3
<1> QED
    BY <1>1 DEF DeletionRun, Attended

\* Every step keeps every deletion heard.
LEMMA NextDeletion ==
    ASSUME TypeOK, TypeOK', FinalizerInv, CleanupTold, DeletionInv, [Next]_vars
    PROVE  DeletionInv'
<1>1. DeletingHeld' /\ VersionsHeld'
    BY NextRegistration, NextVersionsHeld DEF DeletionInv
<1>2. CASE \/ ReconcileNothing \/ AddFinalizer
           \/ StartDelete \/ StartUnmanage \/ StartManage
    BY <1>1, <1>2, StartDeletion DEF DeletionInv
<1>3. CASE RemoveFinalizer
    BY <1>1, <1>3, EndDeletion DEF DeletionInv
<1>4. CASE SyncSpokeCluster
    BY <1>1, <1>4, DeliverDeletion DEF DeletionInv
<1>5. CASE Crash
    <2>1. after' = "-" /\ scCache' = sc /\ queued' = (sc # None)
        BY <1>5 DEF Crash
    <2> QED
        BY <1>1, <2>1 DEF DeletionInv, DeletionRun, DeletionHeard, Attended
<1>6. ASSUME DeletionRun', Attended => Attended', ~SyncSpokeCluster, ~Crash
      PROVE  DeletionInv'
    BY <1>1, <1>6, WatchSteps, StillHeard DEF DeletionInv
<1>7. CASE \/ EnsureStandingKubeconfig \/ CheckConnectivity \/ Provision
           \/ ProvisionAdapter \/ EnsureAdapterCredentialSecret
           \/ EnsureAdapterLabel \/ RestartAdapter \/ PatchStatus
    BY <1>4, <1>5, <1>6, <1>7, ManageDeletion DEF DeletionInv
<1>8. CASE \/ DeprovisionSpoke \/ DeleteStandingKubeconfig
           \/ DeleteAdapterCredential \/ RestartAfterCleanup
    BY <1>4, <1>5, <1>6, <1>8, CleanupDeletion DEF DeletionInv
<1>9. CASE \/ HealthHandler \/ SyncKubeconfig \/ CollectGarbage \/ AdminCreate
           \/ AdminEdit \/ AdminDelete \/ ChangeHubConfig \/ Resync \/ StartAdapter \/ SpokeSide
           \/ UNCHANGED vars
    BY <1>4, <1>5, <1>6, <1>9, OtherDeletion DEF DeletionInv
<1> QED
    BY <1>2, <1>3, <1>4, <1>5, <1>7, <1>8, <1>9 DEF Next, Reconciler, Environment

\* While a SpokeCluster is being deleted, its key is queued, a deletion run is
\* under way or the watch has yet to deliver, for any lag, any number of
\* incarnations, faults and status patches: the safety half of
\* DeleteCompletes.
THEOREM DeletionsNeverStall == Spec => []DeletionNeverStalls
<1>1. Init => DeletionInv
    BY DEF Init, DeletionInv, DeletingHeld, VersionsHeld, HeldIfDeleting, DeletionRun,
       DeletionHeard
<1>2. TypeOK /\ TypeOK' /\ FinalizerInv /\ CleanupTold /\ DeletionInv /\ [Next]_vars
        => DeletionInv'
    BY NextDeletion
<1>3. TypeOK /\ FinalizerInv /\ DeletionInv => DeletionNeverStalls
    <2> SUFFICES ASSUME FinalizerInv, DeletionInv, sc # None, sc.deleting, scPend = <<>>
                 PROVE  Attended
        BY DEF DeletionNeverStalls, Attended
    <2>1. scCache = sc
        BY DEF FinalizerInv, WatchEndsLive
    <2>2. ~(\E n \in 1..Len(scPend) : TRUE)
        <3>1. Len(scPend) = 0
            OBVIOUS
        <3> QED
            BY <3>1
    <2> QED
        BY <2>1, <2>2 DEF DeletionInv, DeletionHeard
<1> QED
    BY TypeCorrect, FinalizerInvariant, CleanupIsTold, <1>1, <1>2, <1>3, PTL DEF Spec

-----------------------------------------------------------------------------
(* Orphans.  A cleanup that finds no standing Secret in the cache skips the *)
(* spoke and reports nothing.  While the cache is at most one version       *)
(* behind, that happens only when nothing is left to clean up: where there  *)
(* are resources no Event speaks of, the Secret is there, in the cache too. *)

Granted == base # "none" \/ adp # "none"

\* What is on the spoke has been reported, if anything is.
Reported == Granted => warned

SecretWatchEndsLive ==
    IF kcPend = <<>> THEN kcCache = kc ELSE kcPend[Len(kcPend)] = kc

AttemptReported == pc \in Attempted => Reported

\* A managing run has the Secret, and after the probe a cached one.
SecretStands ==
    /\ pc \in Standing => kc # None
    /\ pc \in Standing \ {"probe"} => kcCache # None

\* The finalizer, the Secret and its cached version, and an owner that keeps
\* the garbage collector away.
InReach ==
    /\ sc # None /\ sc.finalizer
    /\ kc # None /\ kc.owner = sc.uid
    /\ kcCache # None

OrphanInv ==
    /\ SecretWatchEndsLive
    /\ AttemptReported
    /\ SecretStands
    /\ Reported \/ InReach

\* A held SpokeCluster stays the same incarnation and held, unless this is the
\* step that removes the finalizer.
LEMMA HeldStays ==
    ASSUME TypeOK, FinalizerInv, [Next]_vars, ~RemoveFinalizer,
           sc # None, sc.finalizer
    PROVE  sc' # None /\ sc'.finalizer /\ sc'.uid = sc.uid
<1> USE DEF scVars
<1>1. sc \in SpokeClusters
    BY DEF TypeOK, MaybeSC
<1>2. ASSUME NEW w \in SpokeClusters, w.uid = sc.uid, w.finalizer = sc.finalizer,
             PutSC(w)
      PROVE  sc' # None /\ sc'.finalizer /\ sc'.uid = sc.uid
    BY <1>2, PutSCWrites, SpokeClusterFields
<1>3. CASE UNCHANGED sc
    BY <1>3
<1>4. CASE AddFinalizer
    <2>1. scPend = <<>> => ~sc.finalizer
        BY <1>4 DEF AddFinalizer, FinalizerInv, WatchEndsLive
    <2> QED
        BY <1>4, <2>1 DEF AddFinalizer
<1>5. CASE EnsureAdapterLabel /\ ~UNCHANGED sc
    <2> DEFINE w == [scCache EXCEPT !.label = TRUE]
    <2>1. scPend = <<>> /\ PutSC(w)
        BY <1>5 DEF EnsureAdapterLabel
    <2>2. scCache = sc
        BY <2>1 DEF FinalizerInv, WatchEndsLive
    <2>3. w \in SpokeClusters /\ w.uid = sc.uid /\ w.finalizer = sc.finalizer
        BY <1>1, <2>2, PutLabel
    <2> QED
        BY <1>2, <2>1, <2>3
<1>6. CASE PatchStatus /\ ~UNCHANGED sc
    <2>1. PutSC([sc EXCEPT !.conditions = loc.conditions])
        BY <1>6 DEF PatchStatus
    <2>2. loc.conditions \in Lists
        BY <1>6, LocType, SpokeClusterFields DEF PatchStatus
    <2> QED
        BY <1>1, <1>2, <2>1, <2>2, PutConditions
<1>7. CASE PatchConnected /\ ~UNCHANGED sc
    <2>1. PutSC([sc EXCEPT !.conditions = HealthConditions])
        BY <1>7 DEF PatchConnected
    <2>2. hnew # "-"
        BY <1>7 DEF PatchConnected, TypeOK
    <2>3. HealthConditions \in Lists
        BY <2>2, HealthConditionsType
    <2> QED
        BY <1>1, <1>2, <2>1, <2>3, PutConditions
<1>8. CASE AdminEdit
    BY <1>1, <1>2, <1>8, PutGeneration DEF AdminEdit
<1>9. CASE AdminDelete
    BY <1>1, <1>2, <1>9, PutDeleting DEF AdminDelete
<1>10. CASE \/ ReconcileNothing \/ StartDelete \/ StartUnmanage \/ StartManage
            \/ EnsureStandingKubeconfig \/ CheckConnectivity \/ Provision
            \/ ProvisionAdapter \/ EnsureAdapterCredentialSecret \/ RestartAdapter
            \/ DeprovisionSpoke \/ DeleteStandingKubeconfig
            \/ DeleteAdapterCredential \/ RestartAfterCleanup
    BY <1>10
    DEF ReconcileNothing, StartDelete, StartUnmanage, StartManage,
        EnsureStandingKubeconfig, CheckConnectivity, Provision, ProvisionAdapter,
        EnsureAdapterCredentialSecret, RestartAdapter, DeprovisionSpoke,
        DeleteStandingKubeconfig, DeleteAdapterCredential, RestartAfterCleanup
<1>11. CASE \/ CheckAll \/ CheckSpoke \/ SyncSpokeCluster \/ SyncKubeconfig
            \/ CollectGarbage \/ ChangeHubConfig \/ Resync \/ StartAdapter \/ SpokeSide \/ Crash
            \/ AdminCreate \/ UNCHANGED vars
    BY <1>11
    DEF CheckAll, CheckSpoke, SyncSpokeCluster, SyncKubeconfig, CollectGarbage,
        ChangeHubConfig, Resync, StartAdapter, SpokeSide, Crash, AdminCreate, vars
<1> QED
    BY <1>3, <1>4, <1>5, <1>6, <1>7, <1>8, <1>9, <1>10, <1>11
       DEF Next, Reconciler, HealthHandler, Environment

\* A write of the Secret is where its watch ends.
LEMMA SecretWriteEnds ==
    ASSUME TypeOK, SecretWatchEndsLive, NEW w \in MaybeKC, PutKubeconfig(w),
           UNCHANGED kcCache
    PROVE  kc' = w /\ SecretWatchEndsLive'
<1>1. CASE w = kc
    BY <1>1 DEF PutKubeconfig, SecretWatchEndsLive
<1>2. CASE w # kc
    <2>1. kc' = w /\ kcPend' = Append(kcPend, w) /\ kcPend \in Seq(MaybeKC)
        BY <1>2 DEF PutKubeconfig, TypeOK
    <2>2. /\ kcPend' # <<>> /\ Len(kcPend') = Len(kcPend) + 1
          /\ kcPend'[Len(kcPend) + 1] = w
        BY <2>1
    <2> QED
        BY <2>1, <2>2 DEF SecretWatchEndsLive
<1> QED
    BY <1>1, <1>2

\* A step that leaves the Secret and the spoke alone, while its run goes no
\* further than the invariant lets it.
LEMMA OrphanAside ==
    ASSUME TypeOK, FinalizerInv, OrphanInv, [Next]_vars, ~RemoveFinalizer,
           UNCHANGED <<kc, kcCache, kcPend, base, adp, warned>>,
           pc' \in Attempted => pc \in Attempted,
           pc' \in Standing => pc \in Standing,
           pc' \in Standing \ {"probe"} => pc \in Standing \ {"probe"}
    PROVE  OrphanInv'
<1>1. InReach => InReach'
    BY HeldStays DEF InReach
<1>2. Reported => Reported'
    BY DEF Reported, Granted
<1> QED
    BY <1>1, <1>2 DEF OrphanInv, SecretWatchEndsLive, AttemptReported, SecretStands

\* The start and the end of a run, and its steps between grant and cleanup.
LEMMA RunOrphan ==
    ASSUME TypeOK, FinalizerInv, OrphanInv, [Next]_vars,
           \/ ReconcileNothing \/ AddFinalizer
           \/ StartDelete \/ StartUnmanage \/ StartManage
           \/ EnsureAdapterCredentialSecret \/ EnsureAdapterLabel \/ RestartAdapter
           \/ PatchStatus \/ DeleteAdapterCredential \/ RestartAfterCleanup
    PROVE  OrphanInv'
<1> USE DEF scVars, kcVars, remoteVars, runVars
<1>1. UNCHANGED <<kc, kcCache, kcPend, base, adp, warned>>
    BY DEF ReconcileNothing, AddFinalizer, StartDelete, StartUnmanage, StartManage,
       EnsureAdapterCredentialSecret, EnsureAdapterLabel, RestartAdapter,
       PatchStatus, DeleteAdapterCredential, RestartAfterCleanup
<1>2. /\ pc' \in Attempted => pc \in Attempted
      /\ pc' \in Standing => pc \in Standing
      /\ pc' \in Standing \ {"probe"} => pc \in Standing \ {"probe"}
    <2>1. CASE \/ ReconcileNothing \/ AddFinalizer
               \/ StartDelete \/ StartUnmanage \/ StartManage
        <3>1. pc' = pc \/ pc' \in {"deprovision", "kubeconfig"}
            BY <2>1 DEF ReconcileNothing, AddFinalizer, StartDelete, StartUnmanage,
               StartManage, Begin
        <3> QED
            BY <3>1 DEF Attempted, Standing, ManagePcs
    <2>2. CASE EnsureAdapterCredentialSecret \/ EnsureAdapterLabel \/ RestartAdapter
        <3>1. /\ pc \in {"credential", "label", "restart"}
              /\ pc' \in {"label", "restart", "patch"}
            BY <2>2 DEF EnsureAdapterCredentialSecret, EnsureAdapterLabel,
               RestartAdapter, Proceed, Succeed, FailWith
        <3> QED
            BY <3>1 DEF Attempted, Standing, ManagePcs
    <2>3. CASE PatchStatus
        BY <2>3 DEF PatchStatus, Return, Attempted, Standing, ManagePcs
    <2>4. CASE DeleteAdapterCredential \/ RestartAfterCleanup
        <3>1. /\ pc \in {"deleteAdapter", "restartAfterCleanup"}
              /\ pc' \in {"restartAfterCleanup", "removeFinalizer", "patch"}
            BY <2>4 DEF DeleteAdapterCredential, RestartAfterCleanup, CleanupStep
        <3> QED
            BY <3>1 DEF Attempted, Standing, ManagePcs
    <2> QED
        BY <2>1, <2>2, <2>3, <2>4
<1>3. ~RemoveFinalizer
    <2>1. CASE PatchStatus
        BY <2>1 DEF PatchStatus, RemoveFinalizer
    <2>2. CASE ~PatchStatus
        BY <2>2 DEF RemoveFinalizer, ReconcileNothing, AddFinalizer, StartDelete,
           StartUnmanage, StartManage, EnsureAdapterCredentialSecret,
           EnsureAdapterLabel, RestartAdapter, DeleteAdapterCredential,
           RestartAfterCleanup
    <2> QED
        BY <2>1, <2>2
<1> QED
    BY <1>1, <1>2, <1>3, OrphanAside

\* ensureStandingKubeconfig ends with a Secret of the run's incarnation, or the
\* run fails.
LEMMA EnsureOrphan ==
    ASSUME TypeOK, FinalizerInv, OwnerInv, OwnerInv', OrphanInv, [Next]_vars,
           EnsureStandingKubeconfig
    PROVE  OrphanInv'
<1> USE DEF scVars, remoteVars
<1> DEFINE d == BuildStandingKubeconfig(loc, src)
<1>1. /\ UNCHANGED <<sc, kcCache, base, adp, warned>>
      /\ pc = "kubeconfig" /\ ~RemoveFinalizer
    BY DEF EnsureStandingKubeconfig, RemoveFinalizer
<1>2. loc \in SpokeClusters
    BY <1>1, LocType
<1>3. src # 0 => d \in MaybeKC /\ d # None
    <2>1. /\ loc.gen \in 0..MaxGen /\ loc.uid \in Uids
          /\ 0 \in 0..MaxGen
          /\ src # 0 => src \in 1..MaxSource
        BY <1>2, SpokeClusterFields, ConstantsAssumption DEF TypeOK
    <2>2. src # 0 => d \in Kubeconfigs
        BY <2>1 DEF BuildStandingKubeconfig, Kubeconfigs
    <2> QED
        BY <2>2, NoneAssumption DEF MaybeKC
<1>4. \/ UNCHANGED <<kc, kcPend>> /\ pc' = "patch"
      \/ UNCHANGED <<kc, kcPend>> /\ kc # None /\ pc' = "probe"
      \/ src # 0 /\ PutKubeconfig(d) /\ pc' = "probe"
    BY DEF EnsureStandingKubeconfig, FailWith, Proceed
<1> HIDE DEF d
<1>5. /\ SecretWatchEndsLive'
      /\ (pc' = "patch" /\ kc' = kc) \/ (pc' = "probe" /\ kc' # None)
    <2>1. CASE UNCHANGED <<kc, kcPend>>
        BY <1>1, <1>3, <1>4, <2>1, SecretWriteEnds DEF OrphanInv, SecretWatchEndsLive
    <2>2. CASE src # 0 /\ PutKubeconfig(d) /\ pc' = "probe"
        BY <1>1, <1>3, <2>2, SecretWriteEnds DEF OrphanInv
    <2> QED
        BY <1>4, <2>1, <2>2
<1>6. AttemptReported' /\ SecretStands'
    BY <1>5 DEF AttemptReported, SecretStands, Attempted, Standing, ManagePcs
<1>7. InReach => InReach'
    <2>1. kc' # None => kc' = kc \/ kc'.owner = uids'
        BY <1>5 DEF OwnerInv, SecretInv, StandingIsLatest, Standing, ManagePcs
    <2>2. sc # None => sc.uid = uids'
        BY <1>1 DEF OwnerInv, UidCurrent
    <2> QED
        BY <1>1, <1>5, <2>1, <2>2 DEF InReach
<1>8. Reported => Reported'
    BY <1>1 DEF Reported, Granted
<1> QED
    BY <1>5, <1>6, <1>7, <1>8 DEF OrphanInv

\* A run that gets past the probe has a cached Secret.
LEMMA ProbeOrphan ==
    ASSUME TypeOK, FinalizerInv, OrphanInv, [Next]_vars, CheckConnectivity
    PROVE  OrphanInv'
<1> USE DEF scVars, kcVars, remoteVars
<1>1. /\ UNCHANGED <<kc, kcCache, kcPend, base, adp, warned>>
      /\ pc = "probe" /\ ~RemoveFinalizer
    BY DEF CheckConnectivity, RemoveFinalizer
<1>2. pc' = "patch" \/ (pc' = "provision" /\ kcCache # None)
    BY DEF CheckConnectivity, FailWith
<1>3. AttemptReported' /\ SecretStands' /\ SecretWatchEndsLive'
    BY <1>1, <1>2 DEF OrphanInv, AttemptReported, SecretStands, Attempted, Standing,
       ManagePcs, SecretWatchEndsLive
<1>4. (InReach => InReach') /\ (Reported => Reported')
    BY <1>1, HeldStays DEF InReach, Reported, Granted
<1> QED
    BY <1>3, <1>4 DEF OrphanInv

\* What a managing run grants is within reach of a later cleanup.
LEMMA GrantOrphan ==
    ASSUME TypeOK, FinalizerInv, OwnerInv, OrphanInv, Provision \/ ProvisionAdapter
    PROVE  OrphanInv'
<1> USE DEF scVars, kcVars, remoteVars
<1>1. UNCHANGED <<sc, kc, kcCache, kcPend>>
    BY DEF Provision, ProvisionAdapter
<1>2. pc \in {"provision", "adapters"}
    BY DEF Provision, ProvisionAdapter
<1>3. pc' \in {"patch", "adapters", "credential"}
    BY DEF Provision, ProvisionAdapter, FailWith, Proceed
<1>4. kc # None /\ kcCache # None
    BY <1>2 DEF OrphanInv, SecretStands, Standing, ManagePcs
<1>5. sc # None /\ sc.finalizer
    BY <1>2 DEF FinalizerInv, ManagedHeld, Held, ManagePcs
<1>6. kc.owner = sc.uid
    BY <1>2, <1>4, <1>5
       DEF OwnerInv, UidCurrent, SecretInv, StandingIsLatest, Standing, ManagePcs
<1>7. InReach'
    BY <1>1, <1>4, <1>5, <1>6 DEF InReach
<1>8. AttemptReported' /\ SecretStands' /\ SecretWatchEndsLive'
    BY <1>1, <1>3, <1>4 DEF OrphanInv, AttemptReported, SecretStands, Attempted,
       Standing, ManagePcs, SecretWatchEndsLive
<1> QED
    BY <1>7, <1>8 DEF OrphanInv

\* The attempt at the spoke: without a cached Secret there was nothing left to
\* report; with one it removes everything or reports.
LEMMA DeprovisionOrphan ==
    ASSUME OrphanInv, DeprovisionSpoke
    PROVE  OrphanInv'
<1> USE DEF scVars, kcVars
<1>1. UNCHANGED <<sc, kc, kcCache, kcPend>> /\ pc' = "deleteStanding"
    BY DEF DeprovisionSpoke, CleanupStep
<1>2. CASE kcCache = None
    <2>1. UNCHANGED <<base, adp, warned>>
        BY <1>2 DEF DeprovisionSpoke, remoteVars
    <2>2. Reported
        BY <1>2 DEF OrphanInv, InReach
    <2>3. Reported'
        BY <2>1, <2>2 DEF Reported, Granted
    <2> QED
        BY <1>1, <2>3 DEF OrphanInv, AttemptReported, SecretStands, Standing,
           ManagePcs, SecretWatchEndsLive
<1>3. CASE kcCache # None
    <2>1. Reported'
        BY <1>3 DEF DeprovisionSpoke, Reported, Granted
    <2> QED
        BY <1>1, <2>1 DEF OrphanInv, AttemptReported, SecretStands, Standing,
           ManagePcs, SecretWatchEndsLive
<1> QED
    BY <1>2, <1>3

\* After the attempt the Secret and the finalizer may go.
LEMMA ForgetOrphan ==
    ASSUME TypeOK, OrphanInv, DeleteStandingKubeconfig \/ RemoveFinalizer
    PROVE  OrphanInv'
<1> USE DEF scVars, kcVars, remoteVars
<1>1. UNCHANGED <<kcCache, base, adp, warned>> /\ pc \in Attempted
    <2>1. CASE DeleteStandingKubeconfig
        BY <2>1 DEF DeleteStandingKubeconfig, Attempted
    <2>2. CASE RemoveFinalizer
        BY <2>2 DEF RemoveFinalizer, Attempted
    <2> QED
        BY <2>1, <2>2
<1>2. Reported'
    BY <1>1 DEF OrphanInv, AttemptReported, Reported, Granted
<1>3. pc' \in {"deleteAdapter", "idle"}
    <2>1. CASE DeleteStandingKubeconfig
        BY <2>1 DEF DeleteStandingKubeconfig, CleanupStep
    <2>2. CASE RemoveFinalizer
        BY <2>2 DEF RemoveFinalizer, Return
    <2> QED
        BY <2>1, <2>2
<1>4. SecretWatchEndsLive'
    <2>1. PutKubeconfig(None) \/ UNCHANGED <<kc, kcPend>>
        <3>1. CASE DeleteStandingKubeconfig
            BY <3>1 DEF DeleteStandingKubeconfig
        <3>2. CASE RemoveFinalizer
            BY <3>2 DEF RemoveFinalizer
        <3> QED
            BY <3>1, <3>2
    <2>2. CASE PutKubeconfig(None)
        <3>1. None \in MaybeKC /\ SecretWatchEndsLive
            BY DEF MaybeKC, OrphanInv
        <3> QED
            BY <1>1, <2>2, <3>1, SecretWriteEnds
    <2>3. CASE UNCHANGED <<kc, kcPend>>
        BY <1>1, <2>3 DEF OrphanInv, SecretWatchEndsLive
    <2> QED
        BY <2>1, <2>2, <2>3
<1> QED
    BY <1>2, <1>3, <1>4
       DEF OrphanInv, AttemptReported, SecretStands, Standing, ManagePcs

\* The garbage collector takes only Secrets of an incarnation that is gone,
\* which is neither one a run manages nor one whose grants are unreported.
LEMMA CollectOrphan ==
    ASSUME TypeOK, FinalizerInv, OwnerInv, OrphanInv, CollectGarbage
    PROVE  OrphanInv'
<1> USE DEF scVars, kcVars, remoteVars, runVars
<1>1. UNCHANGED <<sc, kcCache, base, adp, warned, pc>>
    BY DEF CollectGarbage
<1>2. CASE UNCHANGED <<kc, kcPend>>
    BY <1>1, <1>2 DEF OrphanInv, SecretWatchEndsLive, AttemptReported, SecretStands,
       Reported, Granted, InReach
<1>3. CASE kc # None /\ ~Owned(kc.owner) /\ PutKubeconfig(None)
    <2>1. SecretWatchEndsLive'
        BY <1>1, <1>3, SecretWriteEnds DEF OrphanInv, MaybeKC
    <2>2. ~InReach
        BY <1>3 DEF InReach, Owned
    <2>3. Reported /\ Reported'
        BY <1>1, <2>2 DEF OrphanInv, Reported, Granted
    <2>4. pc \notin Standing
        BY <1>3 DEF FinalizerInv, ManagedHeld, Held, OwnerInv, UidCurrent, SecretInv,
           StandingIsLatest, Standing, Owned
    <2> QED
        BY <1>1, <2>1, <2>3, <2>4 DEF OrphanInv, AttemptReported, SecretStands
<1> QED
    BY <1>2, <1>3 DEF CollectGarbage

\* The one version still to deliver is the live Secret.
LEMMA DeliverOrphan ==
    ASSUME TypeOK, OrphanInv, Len(kcPend) <= 1, SyncKubeconfig
    PROVE  OrphanInv'
<1> USE DEF scVars, remoteVars, runVars
<1>1. UNCHANGED <<sc, kc, base, adp, warned, pc>>
    BY DEF SyncKubeconfig
<1>2. /\ kcPend # <<>> /\ kcPend \in Seq(MaybeKC)
      /\ kcCache' = Head(kcPend) /\ kcPend' = Tail(kcPend)
    BY DEF SyncKubeconfig, TypeOK
<1>3. Len(kcPend) = 1 /\ kcCache' = kcPend[1]
    <2>1. Len(kcPend) \in Nat /\ Len(kcPend) # 0 /\ Head(kcPend) = kcPend[1]
        BY <1>2
    <2>2. Len(kcPend) = 1
        <3>1. \A n \in Nat : n # 0 /\ n <= 1 => n = 1
            OBVIOUS
        <3> QED
            BY <2>1, <3>1
    <2>3. kcCache' = kcPend[1]
        BY <1>2, <2>1
    <2> QED
        BY <2>2, <2>3
<1>4. kcPend' \in Seq(MaybeKC) /\ Len(kcPend') = 0
    <2>1. Tail(kcPend) \in Seq(MaybeKC) /\ Len(Tail(kcPend)) = Len(kcPend) - 1
        BY <1>2
    <2> QED
        BY <1>2, <1>3, <2>1
<1>5. kcPend' = <<>>
    BY <1>4
<1>6. kcCache' = kc
    BY <1>2, <1>3 DEF OrphanInv, SecretWatchEndsLive
<1>7. InReach => InReach'
    BY <1>1, <1>6 DEF InReach
<1> QED
    BY <1>1, <1>5, <1>6, <1>7 DEF OrphanInv, SecretWatchEndsLive, AttemptReported,
       SecretStands, Reported, Granted

\* A restart reads the live Secret.
LEMMA CrashOrphan ==
    ASSUME OrphanInv, Crash
    PROVE  OrphanInv'
<1>1. /\ UNCHANGED <<sc, kc, base, adp, warned>> /\ pc' = "idle"
      /\ kcCache' = kc /\ kcPend' = <<>>
    BY DEF Crash, remoteVars
<1> QED
    BY <1>1 DEF OrphanInv, SecretWatchEndsLive, AttemptReported, SecretStands,
       Reported, Granted, InReach, Attempted, Standing, ManagePcs

\* The health handler, the SpokeCluster informer and the other events.
LEMMA OtherOrphan ==
    ASSUME TypeOK, FinalizerInv, OrphanInv, [Next]_vars,
           \/ HealthHandler \/ SyncSpokeCluster \/ AdminCreate \/ AdminEdit
           \/ AdminDelete \/ ChangeHubConfig \/ Resync \/ StartAdapter \/ SpokeSide
           \/ UNCHANGED vars
    PROVE  OrphanInv'
<1> USE DEF scVars, kcVars, remoteVars, runVars
<1>1. UNCHANGED <<kc, kcCache, kcPend, base, adp, warned, pc>>
    BY DEF HealthHandler, CheckAll, CheckSpoke, PatchConnected, SyncSpokeCluster,
       AdminCreate, AdminEdit, AdminDelete, ChangeHubConfig, Resync, StartAdapter, SpokeSide, vars
<1>2. ~RemoveFinalizer
    BY <1>1 DEF RemoveFinalizer, Return
<1> QED
    BY <1>1, <1>2, OrphanAside

\* Every step that starts with the Secret cache at most one version behind.
LEMMA NextOrphan ==
    ASSUME TypeOK, FinalizerInv, OwnerInv, OwnerInv', OrphanInv,
           Len(kcPend) <= 1, [Next]_vars
    PROVE  OrphanInv'
<1>1. CASE Reconciler
    BY <1>1, RunOrphan, EnsureOrphan, ProbeOrphan, GrantOrphan, DeprovisionOrphan,
       ForgetOrphan DEF Reconciler
<1>2. CASE ~Reconciler
    BY <1>2, CollectOrphan, DeliverOrphan, CrashOrphan, OtherOrphan
       DEF Next, Environment
<1> QED
    BY <1>1, <1>2

\* As long as the cache of the standing Secret is never more than one version
\* behind, and however old the cached SpokeCluster is: no deletion leaves
\* resources on the spoke that no SpokeCleanupFailed Event speaks of, through
\* any outages, rotations, mode changes, failed calls, crashes and
\* re-creations.
THEOREM OrphansAreReported ==
    Spec /\ [](Len(kcPend) <= 1) => []NoSilentOrphan
<1>1. Init => OrphanInv
    BY DEF Init, OrphanInv, SecretWatchEndsLive, AttemptReported, SecretStands,
       Reported, Granted, Attempted, Standing, ManagePcs
<1>2. TypeOK /\ FinalizerInv /\ OwnerInv /\ OwnerInv' /\ OrphanInv
        /\ Len(kcPend) <= 1 /\ [Next]_vars => OrphanInv'
    BY NextOrphan
<1>3. OrphanInv => NoSilentOrphan
    BY DEF OrphanInv, Reported, Granted, InReach, NoSilentOrphan
<1> QED
    BY TypeCorrect, FinalizerInvariant, OwnerInvariant, <1>1, <1>2, <1>3, PTL
       DEF Spec
=============================================================================

-------------------------- MODULE MCEDiscoveryProofs --------------------------
(***************************************************************************)
(* Proofs about MCEDiscovery for every set of clusters, every number of    *)
(* events and every lag: discovery's ManifestWorks never outlive its       *)
(* ManagedServiceAccounts.                                                 *)
(***************************************************************************)
EXTENDS MCEDiscovery, TLAPS

\* The types the argument needs; where a step works on one cluster, at is it.
CompanionTypes ==
    /\ mc \in [Clusters -> MaybeCluster]
    /\ msa \in [Clusters -> Accounts] /\ work \in [Clusters -> Works]
    /\ todo \subseteq Clusters
    /\ pc \in {"account", "work", "orphanWork", "orphanAccount",
               "companionWork", "companionAccount"} => at \in Clusters

\* The companions live in the namespace of the ManagedCluster.
InClusterNamespace ==
    \A c \in Clusters : mc[c] = None => msa[c] = "none" /\ work[c] = "none"

\* A run about to ensure the ManifestWork has the account, unless the whole
\* cluster has gone since.
AccountFirst == pc = "work" => msa[at] = "own" \/ mc[at] = None

\* A run about to delete the account has deleted the ManifestWork.
WorkFirst ==
    pc \in {"orphanAccount", "companionAccount"} => work[at] \notin Owned

CompanionInv ==
    /\ CompanionTypes
    /\ InClusterNamespace /\ AccountFirst /\ WorkFirst
    /\ WorkHasAccount

-----------------------------------------------------------------------------
(* Steps that leave the companions alone.                                   *)

SingleSteps == {"account", "work", "orphanWork", "orphanAccount",
                "companionWork", "companionAccount"}

\* Nothing of what the invariant speaks of changes.
LEMMA Untouched ==
    ASSUME CompanionInv, UNCHANGED <<mc, msa, work, pc, todo, at>>
    PROVE  CompanionInv'
BY DEF CompanionInv, CompanionTypes, InClusterNamespace, AccountFirst, WorkFirst,
       WorkHasAccount

\* The run goes on to a step that is not about one cluster.
LEMMA GoesOn ==
    ASSUME CompanionInv, UNCHANGED <<mc, msa, work>>,
           pc' \notin SingleSteps, todo' \subseteq Clusters
    PROVE  CompanionInv'
BY DEF CompanionInv, CompanionTypes, InClusterNamespace, AccountFirst, WorkFirst,
       WorkHasAccount, SingleSteps

\* The run goes on to one cluster, to a step that expects nothing of it.
LEMMA GoesTo ==
    ASSUME CompanionInv, UNCHANGED <<mc, msa, work>>,
           pc' \in {"account", "orphanWork", "companionWork"}, at' \in Clusters,
           todo' \subseteq Clusters
    PROVE  CompanionInv'
BY DEF CompanionInv, CompanionTypes, InClusterNamespace, AccountFirst, WorkFirst,
       WorkHasAccount

\* The run returns.
LEMMA Returns ==
    ASSUME CompanionInv, UNCHANGED <<mc, msa, work>>, NEW e, Return(e)
    PROVE  CompanionInv'
BY GoesOn DEF Return, SingleSteps

-----------------------------------------------------------------------------
(* Discovery.                                                               *)

\* Visiting a cluster to restore or create its SpokeCluster goes on to its
\* companions or to the next cluster.
LEMMA VisitStep ==
    ASSUME CompanionInv, NEW c \in todo, UNCHANGED <<mc, msa, work>>,
           Visit(c) \/ (\E e : EndVisit(c, e))
    PROVE  CompanionInv'
<1>1. c \in Clusters /\ todo \ {c} \subseteq Clusters
    BY DEF CompanionInv, CompanionTypes
<1>2. CASE Visit(c)
    BY <1>1, <1>2, GoesTo DEF Visit, Go
<1>3. CASE \E e : EndVisit(c, e)
    BY <1>1, <1>3, GoesOn DEF EndVisit, Go, SingleSteps
<1> QED
    BY <1>2, <1>3

\* The steps of discovery that read and write SpokeClusters only.
LEMMA SpokeSteps ==
    ASSUME CompanionInv, NEW c \in Clusters,
           RestoreSpoke(c) \/ CreateSpoke(c) \/ Retire(c) \/ Prune(c)
    PROVE  CompanionInv'
<1>1. UNCHANGED <<mc, msa, work>> /\ c \in todo
    BY DEF RestoreSpoke, CreateSpoke, Retire, Prune, worldVars, companions
<1>2. CASE RestoreSpoke(c)
    <2>1. Visit(c) \/ (\E e : EndVisit(c, e))
        BY <1>2 DEF RestoreSpoke, Collect
    <2> QED
        BY <1>1, <2>1, VisitStep
<1>3. CASE CreateSpoke(c)
    <2>1. Visit(c) \/ (\E e : EndVisit(c, e))
        BY <1>3 DEF CreateSpoke, Collect, Skip
    <2> QED
        BY <1>1, <2>1, VisitStep
<1>4. CASE Retire(c)
    <2>1. \/ pc' = "retire" /\ todo' = todo \ {c}
          \/ Return(TRUE)
        BY <1>4 DEF Retire, Go
    <2> QED
        BY <1>1, <2>1, Returns, GoesOn DEF SingleSteps, CompanionInv, CompanionTypes
<1>5. CASE Prune(c)
    <2>1. pc' = "prune" /\ todo' = todo \ {c}
        BY <1>5 DEF Prune, Go
    <2> QED
        BY <1>1, <2>1, GoesOn DEF SingleSteps, CompanionInv, CompanionTypes
<1> QED
    BY <1>2, <1>3, <1>4, <1>5

\* The steps that begin, list, and end.
LEMMA ListSteps ==
    ASSUME CompanionInv,
           \/ StartRetire \/ StartCompanions \/ StartDiscovery \/ ListSpokes
           \/ StartPrune \/ ListAccounts \/ Finish
    PROVE  CompanionInv'
<1>1. UNCHANGED <<mc, msa, work>>
    BY DEF StartRetire, StartCompanions, StartDiscovery, ListSpokes, StartPrune,
           ListAccounts, Finish, worldVars, companions
<1>2. CASE StartRetire
    BY <1>1, <1>2, GoesOn DEF StartRetire, Go, SingleSteps
<1>3. CASE StartCompanions
    BY <1>1, <1>3, GoesOn, Untouched DEF StartCompanions, Go, SingleSteps, OwnAccounts
<1>4. CASE StartDiscovery
    BY <1>1, <1>4, GoesOn, Untouched DEF StartDiscovery, Go, SingleSteps
<1>5. CASE ListSpokes
    BY <1>1, <1>5, GoesOn DEF ListSpokes, Go, SingleSteps
<1>6. CASE StartPrune
    BY <1>1, <1>6, GoesOn DEF StartPrune, Go, SingleSteps
<1>7. CASE ListAccounts
    BY <1>1, <1>7, GoesOn, Returns DEF ListAccounts, Go, SingleSteps, OwnAccounts
<1>8. CASE Finish
    BY <1>1, <1>8, Returns DEF Finish
<1> QED
    BY <1>2, <1>3, <1>4, <1>5, <1>6, <1>7, <1>8

\* The checks before the companions of one cluster go.
LEMMA CheckSteps ==
    ASSUME CompanionInv, NEW c \in Clusters, CheckOrphan(c) \/ CheckStanding(c)
    PROVE  CompanionInv'
<1>1. UNCHANGED <<mc, msa, work>> /\ todo \ {c} \subseteq Clusters
    BY DEF CheckOrphan, CheckStanding, worldVars, companions, CompanionInv,
           CompanionTypes
<1>2. \/ pc' \in {"orphans", "companions"} /\ todo' = todo \ {c}
      \/ pc' \in {"orphanWork", "companionWork"} /\ todo' = todo \ {c} /\ at' = c
    BY DEF CheckOrphan, CheckStanding, Go
<1> QED
    BY <1>1, <1>2, GoesOn, GoesTo DEF SingleSteps

\* The account is created in a namespace that exists.
LEMMA EnsureAccount ==
    ASSUME CompanionInv, ensureMSA
    PROVE  CompanionInv'
<1>1. UNCHANGED <<mc, work>> /\ at \in Clusters /\ todo \ {at} \subseteq Clusters
    BY DEF ensureMSA, worldVars, CompanionInv, CompanionTypes
<1>2. CASE msa' = msa /\ (\E e : EndVisit(at, e))
    BY <1>1, <1>2, GoesOn DEF EndVisit, Go, SingleSteps
<1>3. CASE Ensurable(msa[at]) /\ msa' = [msa EXCEPT ![at] = "own"]
           /\ Go("work", todo, at, errs)
    <2>1. mc[at] # None
        BY <1>1, <1>3 DEF Ensurable, Owned, CompanionInv, InClusterNamespace
    <2>2. pc' = "work" /\ at' = at /\ todo' = todo
        BY <1>3 DEF Go
    <2>3. msa' \in [Clusters -> Accounts] /\ msa'[at] = "own"
          /\ \A c \in Clusters : msa'[c] = msa[c] \/ (c = at /\ msa'[c] = "own")
        BY <1>1, <1>3 DEF CompanionInv, CompanionTypes, Accounts
    <2> QED
        BY <1>1, <2>1, <2>2, <2>3
        DEF CompanionInv, CompanionTypes, InClusterNamespace, AccountFirst, WorkFirst,
            WorkHasAccount
<1> QED
    BY <1>2, <1>3 DEF ensureMSA

\* The ManifestWork is created only beside the account.
LEMMA EnsureWork ==
    ASSUME CompanionInv, ensureMSARBAC
    PROVE  CompanionInv'
<1>1. /\ UNCHANGED <<mc, msa>> /\ at \in Clusters
      /\ todo \ {at} \subseteq Clusters /\ pc = "work"
    BY DEF ensureMSARBAC, worldVars, CompanionInv, CompanionTypes
<1>2. CASE work' = work /\ (\E e : EndVisit(at, e))
    BY <1>1, <1>2, GoesOn DEF EndVisit, Go, SingleSteps
<1>3. CASE Ensurable(work[at]) /\ work' = [work EXCEPT ![at] = "own"]
           /\ EndVisit(at, FALSE)
    <2>1. mc[at] # None
        BY <1>1, <1>3 DEF Ensurable, Owned, CompanionInv, InClusterNamespace
    <2>2. msa[at] = "own"
        BY <1>1, <2>1 DEF CompanionInv, AccountFirst
    <2>3. pc' = "enroll" /\ todo' = todo \ {at}
        BY <1>3 DEF EndVisit, Go
    <2>4. work' \in [Clusters -> Works]
          /\ \A c \in Clusters : work'[c] = work[c] \/ c = at
        BY <1>1, <1>3 DEF CompanionInv, CompanionTypes, Works
    <2> QED
        BY <1>1, <2>1, <2>2, <2>3, <2>4
        DEF CompanionInv, CompanionTypes, InClusterNamespace, AccountFirst, WorkFirst,
            WorkHasAccount
<1> QED
    BY <1>2, <1>3 DEF ensureMSARBAC

\* The ManifestWork goes first.
LEMMA DeleteWork ==
    ASSUME CompanionInv, deleteMSARBAC
    PROVE  CompanionInv'
<1>1. UNCHANGED <<mc, msa>> /\ at \in Clusters /\ todo \subseteq Clusters
    BY DEF deleteMSARBAC, worldVars, CompanionInv, CompanionTypes
<1>2. CASE work' = work /\ Return(TRUE)
    BY <1>1, <1>2, Returns
<1>3. CASE /\ work' = [work EXCEPT ![at] = IF @ \in Owned THEN "none" ELSE @]
           /\ Go(IF pc = "orphanWork" THEN "orphanAccount" ELSE "companionAccount",
                 todo, at, errs)
    <2>1. /\ pc' \in {"orphanAccount", "companionAccount"}
          /\ at' = at /\ todo' = todo
        BY <1>3 DEF Go
    <2>2. work' \in [Clusters -> Works] /\ work'[at] \notin Owned
          /\ \A c \in Clusters : work'[c] = work[c] \/ work'[c] = "none"
        BY <1>1, <1>3 DEF CompanionInv, CompanionTypes, Works, Owned
    <2> QED
        BY <1>1, <2>1, <2>2
        DEF CompanionInv, CompanionTypes, InClusterNamespace, AccountFirst, WorkFirst,
            WorkHasAccount, Owned
<1> QED
    BY <1>2, <1>3 DEF deleteMSARBAC

\* The account goes once its ManifestWork has.
LEMMA DeleteAccount ==
    ASSUME CompanionInv, deleteMSA
    PROVE  CompanionInv'
<1>1. /\ UNCHANGED <<mc, work>> /\ at \in Clusters /\ todo \subseteq Clusters
      /\ pc \in {"orphanAccount", "companionAccount"} /\ work[at] \notin Owned
    BY DEF deleteMSA, worldVars, CompanionInv, CompanionTypes, WorkFirst
<1>2. CASE msa' = msa /\ Return(TRUE)
    BY <1>1, <1>2, Returns
<1>3. CASE /\ msa' = [msa EXCEPT ![at] = "none"] \/ msa' = msa
           /\ Go(IF pc = "orphanAccount" THEN "orphans" ELSE "companions",
                 todo, None, errs)
    <2>1. pc' \in {"orphans", "companions"} /\ todo' = todo
        BY <1>3 DEF Go
    <2>2. msa' \in [Clusters -> Accounts]
          /\ \A c \in Clusters : msa'[c] = msa[c] \/ (c = at /\ msa'[c] = "none")
        BY <1>1, <1>3 DEF CompanionInv, CompanionTypes, Accounts
    <2> QED
        BY <1>1, <2>1, <2>2
        DEF CompanionInv, CompanionTypes, InClusterNamespace, AccountFirst, WorkFirst,
            WorkHasAccount
<1> QED
    BY <1>2, <1>3 DEF deleteMSA

\* Every step of discovery keeps the invariant.
LEMMA DiscoverStep ==
    ASSUME CompanionInv, Discover
    PROVE  CompanionInv'
BY SpokeSteps, ListSteps, CheckSteps, EnsureAccount, EnsureWork, DeleteWork,
   DeleteAccount
DEF Discover

-----------------------------------------------------------------------------
(* Everyone else.                                                           *)

\* A cluster that comes finds a namespace with nothing of discovery's in it.
LEMMA Import ==
    ASSUME CompanionInv, NEW c \in Clusters, ImportCluster(c)
    PROVE  CompanionInv'
<1>1. /\ mc[c] = None /\ msa[c] = "none" /\ work[c] = "none"
      /\ ~(pc = "work" /\ at = c) /\ UNCHANGED <<pc, todo, at>>
    BY DEF ImportCluster, CompanionInv, InClusterNamespace, runVars
<1>2. PICK m \in Imports : mc' = [mc EXCEPT ![c] = m]
    BY DEF ImportCluster, SetCluster
<1>3. /\ mc' \in [Clusters -> MaybeCluster]
      /\ \A d \in Clusters : d # c => mc'[d] = mc[d]
      /\ mc'[c] # None
    BY <1>2, DiscoveryAssumption, NoSpokeAssumption
    DEF CompanionInv, CompanionTypes, MaybeCluster
<1>4. /\ msa' \in [Clusters -> Accounts] /\ work' \in [Clusters -> Works]
      /\ \A d \in Clusters : d # c => msa'[d] = msa[d] /\ work'[d] = work[d]
      /\ work'[c] \notin Owned
    BY <1>1 DEF ImportCluster, CompanionInv, CompanionTypes, Accounts, Works, Owned,
                companions
<1>5. CompanionTypes' /\ InClusterNamespace'
    BY <1>1, <1>3, <1>4 DEF CompanionInv, CompanionTypes, InClusterNamespace
<1>6. AccountFirst'
    BY <1>1, <1>3, <1>4 DEF CompanionInv, CompanionTypes, AccountFirst
<1>7. WorkFirst'
    BY <1>1, <1>4 DEF CompanionInv, CompanionTypes, WorkFirst
<1>8. WorkHasAccount'
    BY <1>4 DEF CompanionInv, WorkHasAccount
<1> QED
    BY <1>5, <1>6, <1>7, <1>8 DEF CompanionInv

\* A cluster that changes keeps its namespace.
LEMMA Change ==
    ASSUME CompanionInv, NEW c \in Clusters, ChangeCluster(c)
    PROVE  CompanionInv'
<1>1. mc[c] # None /\ UNCHANGED <<msa, work, pc, todo, at>>
    BY DEF ChangeCluster, companions, runVars
<1>2. PICK m \in (Imports \ {mc[c]}) \cup {[mc[c] EXCEPT !.deleting = TRUE]} :
          mc' = [mc EXCEPT ![c] = m]
    BY DEF ChangeCluster, SetCluster
<1>3. mc[c] \in ManagedClusters
    BY <1>1 DEF CompanionInv, CompanionTypes, MaybeCluster
<1>4. [mc[c] EXCEPT !.deleting = TRUE] \in ManagedClusters
    BY <1>3 DEF ManagedClusters
<1>5. m \in ManagedClusters /\ m # None
    BY <1>2, <1>4, DiscoveryAssumption, NoSpokeAssumption
<1>6. mc' \in [Clusters -> MaybeCluster]
      /\ \A d \in Clusters : mc'[d] = None <=> mc[d] = None
    BY <1>1, <1>2, <1>5 DEF CompanionInv, CompanionTypes, MaybeCluster
<1> QED
    BY <1>1, <1>6
    DEF CompanionInv, CompanionTypes, InClusterNamespace, AccountFirst, WorkFirst,
        WorkHasAccount

\* A cluster that goes takes both companions with it.
LEMMA Removal ==
    ASSUME CompanionInv, NEW c \in Clusters, RemoveCluster(c)
    PROVE  CompanionInv'
<1>1. UNCHANGED <<pc, todo, at>>
    BY DEF RemoveCluster, runVars
<1>2. /\ mc' = [mc EXCEPT ![c] = None]
      /\ msa' = [msa EXCEPT ![c] = "none"] /\ work' = [work EXCEPT ![c] = "none"]
    BY DEF RemoveCluster, SetCluster
<1>3. /\ mc' \in [Clusters -> MaybeCluster]
      /\ msa' \in [Clusters -> Accounts] /\ work' \in [Clusters -> Works]
      /\ \A d \in Clusters :
             d # c => mc'[d] = mc[d] /\ msa'[d] = msa[d] /\ work'[d] = work[d]
      /\ mc'[c] = None /\ msa'[c] = "none" /\ work'[c] = "none"
    BY <1>2 DEF CompanionInv, CompanionTypes, MaybeCluster, Accounts, Works
<1> QED
    BY <1>1, <1>3
    DEF CompanionInv, CompanionTypes, InClusterNamespace, AccountFirst, WorkFirst,
        WorkHasAccount, Owned

\* A crash ends the run; an upgrade makes ManifestWorks stale, not more.
LEMMA Crashes ==
    ASSUME CompanionInv, Crash
    PROVE  CompanionInv'
<1>1. UNCHANGED <<mc, msa>> /\ pc' = "idle" /\ todo' = {}
    BY DEF Crash, worldVars
<1>2. work' \in [Clusters -> Works]
      /\ \A c \in Clusters : /\ work'[c] \in Owned => work[c] \in Owned
                             /\ work[c] = "none" => work'[c] = "none"
    BY DEF Crash, CompanionInv, CompanionTypes, Works, Owned
<1> QED
    BY <1>1, <1>2
    DEF CompanionInv, CompanionTypes, InClusterNamespace, AccountFirst, WorkFirst,
        WorkHasAccount

\* The SpokeCluster controller, the informers and the administrator do not
\* touch companions.
LEMMA OtherSteps ==
    ASSUME CompanionInv, NEW c \in Clusters,
           \/ Manage(c) \/ SyncSpoke(c) \/ SyncStanding(c)
           \/ AdminCreate(c) \/ AdminEdit(c) \/ AdminUnlabel(c) \/ AdminDelete(c)
    PROVE  CompanionInv'
<1>1. CASE Manage(c)
    BY <1>1, Untouched
    DEF Manage, AddFinalizer, StartManage, StoreKubeconfig, Provision, StartCleanup,
        Deprovision, ForgetKubeconfig, RemoveFinalizer, worldVars, companions, runVars
<1>2. CASE SyncSpoke(c) \/ SyncStanding(c)
    BY <1>2, Untouched DEF SyncSpoke, SyncStanding, worldVars, companions, runVars
<1>3. CASE AdminCreate(c) \/ AdminEdit(c) \/ AdminUnlabel(c) \/ AdminDelete(c)
    BY <1>3, Untouched DEF AdminCreate, AdminEdit, AdminUnlabel, AdminDelete,
                           worldVars, companions, runVars
<1> QED
    BY <1>1, <1>2, <1>3

\* Every step keeps the invariant.
LEMMA NextCompanions == CompanionInv /\ [Next]_vars => CompanionInv'
<1> SUFFICES ASSUME CompanionInv, [Next]_vars PROVE CompanionInv'
    OBVIOUS
<1>1. CASE Discover
    BY <1>1, DiscoverStep
<1>2. CASE Resync \/ ChangeHubConfig \/ ChangeProxy
    BY <1>2, Untouched DEF Resync, ChangeHubConfig, ChangeProxy, worldVars, companions,
                           runVars
<1>3. CASE Crash
    BY <1>3, Crashes
<1>4. ASSUME NEW c \in Clusters,
             \/ AdminCreate(c) \/ AdminEdit(c) \/ AdminUnlabel(c) \/ AdminDelete(c)
             \/ Manage(c) \/ SyncSpoke(c) \/ SyncStanding(c)
      PROVE  CompanionInv'
    BY <1>4, OtherSteps
<1>5. ASSUME NEW c \in Clusters,
             ImportCluster(c) \/ ChangeCluster(c) \/ RemoveCluster(c)
      PROVE  CompanionInv'
    BY <1>5, Import, Change, Removal
<1>6. CASE UNCHANGED vars
    BY <1>6, Untouched DEF vars, worldVars, companions, runVars
<1> QED
    BY <1>1, <1>2, <1>3, <1>4, <1>5, <1>6 DEF Next, Surroundings

\* Initially there are no companions.
LEMMA InitCompanions == Init => CompanionInv
<1> SUFFICES ASSUME Init PROVE CompanionInv
    OBVIOUS
<1>1. mc \in [Clusters -> MaybeCluster]
    BY DiscoveryAssumption DEF Init, MaybeCluster
<1>2. /\ msa = [c \in Clusters |-> "none"] /\ work = [c \in Clusters |-> "none"]
      /\ todo = {} /\ pc = "idle"
    BY DEF Init
<1> QED
    BY <1>1, <1>2
    DEF CompanionInv, CompanionTypes, InClusterNamespace, AccountFirst, WorkFirst,
        WorkHasAccount, Accounts, Works, Owned

\* With any number of clusters, and whatever fails, crashes, disappears or is
\* taken over in between, discovery's ManifestWork never stands without the
\* ManagedServiceAccount by which every later cleanup would find it.
THEOREM WorkAlwaysHasAccount == Spec => []WorkHasAccount
<1>1. Init => CompanionInv
    BY InitCompanions
<1>2. CompanionInv /\ [Next]_vars => CompanionInv'
    BY NextCompanions
<1>3. CompanionInv => WorkHasAccount
    BY DEF CompanionInv
<1> QED
    BY <1>1, <1>2, <1>3, PTL DEF Spec
=============================================================================

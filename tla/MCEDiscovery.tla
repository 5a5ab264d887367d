----------------------------- MODULE MCEDiscovery -----------------------------
(***************************************************************************)
(* Discovery of spokes from MCE ManagedClusters                            *)
(* (internal/controller/mce_discovery_controller.go), composed with the    *)
(* SpokeCluster controller it works beside.                                *)
(*                                                                         *)
(* All events map to one key and one worker handles it, so there is one    *)
(* run of Reconcile at a time; it works through the clusters in loops      *)
(* whose order is arbitrary (Go maps).  ManagedClusters, ManagedService-   *)
(* Accounts and ManifestWorks are read live, SpokeClusters and Secrets     *)
(* from the cache both controllers share.  The SpokeCluster controller     *)
(* (SpokeController in full) is cut here at the steps discovery can        *)
(* interfere with: a run reads SpokeCluster and mode when it starts, and   *)
(* reaches the spoke through what discovery has put in place.              *)
(***************************************************************************)
EXTENDS Integers, Sequences, FiniteSets

CONSTANTS
    None,            \* no such object, no URL
    Clusters,        \* names of ManagedClusters and SpokeClusters
    Urls,            \* https API server URLs
    Imports,         \* ManagedClusters of this instance (labels and configs)
    HubConfigs,      \* HubConfigs of this instance (mode and selector)
    Proxies,         \* states of the MCE proxy of this instance
    MaxVersion,      \* bound: creations and spec edits of one SpokeCluster
    MaxLag,          \* bound: versions a cache may be behind
    MaxEvents,       \* bound: events around discovery, failed calls, crashes
    EnvEvents        \* environment events of this instance

ManagedClusters == [labels : SUBSET {"fleet", "local-cluster"},
                    configs : Seq(Urls \cup {"http"}),
                    deleting : BOOLEAN]

Hubs == [mode : {"none", "terminating", "secret", "mce"},
         selector : SUBSET {"fleet"}]

ProxyStates == [engines : 0..2, port : BOOLEAN, ca : BOOLEAN]

ASSUME DiscoveryAssumption ==
    /\ {MaxVersion, MaxLag, MaxEvents} \subseteq Nat
    /\ None \notin Urls /\ "http" \notin Urls
    /\ Imports \subseteq {m \in ManagedClusters : ~m.deleting}
    /\ HubConfigs \subseteq Hubs
    /\ Proxies \subseteq ProxyStates

(***************************************************************************)
(* A SpokeCluster.  manual: without the discovery label; mce: its source   *)
(* is its ManagedCluster, otherwise a Secret.  version counts creations    *)
(* and spec edits; with the flags, which only ever go one way, it tells    *)
(* any two versions of the object apart, as the resourceVersion does.      *)
(***************************************************************************)
Spokes == [version : 1..MaxVersion, manual : BOOLEAN, url : Urls, mce : BOOLEAN,
           finalizer : BOOLEAN, deleting : BOOLEAN]

ASSUME NoSpokeAssumption == None \notin Spokes /\ None \notin ManagedClusters

MaybeSpoke == Spokes \cup {None}

MaybeCluster == ManagedClusters \cup {None}

\* Companions: a stale ManifestWork has the manifests of an older release, a
\* foreign object does not carry the discovery label.
Accounts == {"none", "own", "foreign"}

Works == {"none", "own", "stale", "foreign"}

Owned == {"own", "stale"}

\* Standing kubeconfigs, by the credential in them; the token of a dead one
\* belonged to a ManagedServiceAccount that is gone.
Kubeconfigs == {"none", "mce", "dead", "secret"}

VARIABLES
    mc,                    \* ManagedClusters
    hub,                   \* HubConfig as the cache shows it
    proxy,                 \* MultiClusterEngine, proxy service, proxy CA
    sc, scCache, scPend,   \* SpokeClusters: live, cached, still to deliver
    msa, work,             \* ManagedServiceAccounts and ManifestWorks
    kc, kcCache,           \* standing kubeconfigs: live and cached
    granted,               \* the spoke holds resources made for the hub
    run,                   \* SpokeCluster controller: next step per spoke
    watching,              \* the ManagedCluster watch is registered
    queued,                \* the discovery key is in the workqueue
    pc,                    \* discovery: next step of the current run
    seen,                  \* its list of ManagedClusters, the selected ones
    existing,              \* its list of labelled SpokeClusters
    desired,               \* its desired apiServer per cluster, or None
    todo,                  \* clusters the current loop has still to visit
    at,                    \* the cluster it is visiting
    errs,                  \* an error was collected
    versions,              \* latest version per SpokeCluster name
    events                 \* bounded counter

spokeVars == <<sc, scCache, scPend, versions>>
sideVars  == <<kc, kcCache, granted, run>>
listVars  == <<seen, existing, desired>>
runVars   == <<pc, listVars, todo, at, errs>>
worldVars == <<mc, hub, proxy>>
companions == <<msa, work>>

vars == <<worldVars, spokeVars, companions, sideVars, watching, queued, runVars,
          events>>

OrphanPcs == {"orphans", "orphanWork", "orphanAccount"}

ModePcs == {"companions", "companionWork", "companionAccount"}

Pcs == {"idle", "list", "enroll", "account", "work", "prune", "retire"}
           \cup OrphanPcs \cup ModePcs

SideSteps == {"idle", "mce", "secret", "grant", "unmanage", "forget",
              "delete", "forgetDelete", "release"}

TypeOK ==
    /\ mc \in [Clusters -> MaybeCluster] /\ seen \in [Clusters -> MaybeCluster]
    /\ hub \in Hubs /\ proxy \in ProxyStates
    /\ sc \in [Clusters -> MaybeSpoke] /\ scCache \in [Clusters -> MaybeSpoke]
    /\ existing \in [Clusters -> MaybeSpoke]
    /\ scPend \in [Clusters -> Seq(MaybeSpoke)]
    /\ msa \in [Clusters -> Accounts] /\ work \in [Clusters -> Works]
    /\ kc \in [Clusters -> Kubeconfigs] /\ kcCache \in [Clusters -> Kubeconfigs]
    /\ granted \in [Clusters -> BOOLEAN] /\ run \in [Clusters -> SideSteps]
    /\ watching \in BOOLEAN /\ queued \in BOOLEAN /\ errs \in BOOLEAN
    /\ pc \in Pcs
    /\ desired \in [Clusters -> Urls \cup {None}]
    /\ todo \subseteq Clusters /\ at \in Clusters \cup {None}
    /\ pc = "idle" => todo = {} /\ at = None /\ ~errs
    /\ pc \in {"account", "work", "orphanWork", "orphanAccount",
               "companionWork", "companionAccount"} => at \in Clusters
    /\ versions \in [Clusters -> 0..MaxVersion]
    /\ events \in 0..MaxEvents

Init ==
    /\ mc \in [Clusters -> Imports \cup {None}]
    /\ hub \in {h \in HubConfigs : h.mode # "terminating"}
    /\ proxy \in Proxies
    /\ sc = [c \in Clusters |-> None] /\ scCache = sc
    /\ scPend = [c \in Clusters |-> <<>>]
    /\ msa = [c \in Clusters |-> "none"] /\ work = msa
    /\ kc = [c \in Clusters |-> "none"] /\ kcCache = kc
    /\ granted = [c \in Clusters |-> FALSE]
    /\ run = [c \in Clusters |-> "idle"]
    /\ watching = FALSE /\ queued = (hub.mode # "none")
    /\ pc = "idle" /\ todo = {} /\ at = None /\ errs = FALSE
    /\ seen = sc /\ existing = sc /\ desired = sc
    /\ versions = [c \in Clusters |-> 0] /\ events = 0

-----------------------------------------------------------------------------
(* Writes to SpokeClusters.                                                 *)

Put(c, v) ==
    /\ Len(scPend[c]) < MaxLag
    /\ sc' = [sc EXCEPT ![c] = v]
    /\ scPend' = [scPend EXCEPT ![c] = Append(@, v)]

\* A write of a new object or a new spec.
PutSpec(c, v) ==
    /\ versions[c] < MaxVersion
    /\ versions' = [versions EXCEPT ![c] = @ + 1]
    /\ Put(c, [v EXCEPT !.version = versions[c] + 1])

\* Delete carries a name only; the finalizer turns it into a mark.
Delete(c) ==
    /\ IF sc[c] = None \/ (sc[c] # None /\ sc[c].deleting)
       THEN UNCHANGED <<sc, scPend>>
       ELSE Put(c, IF sc[c].finalizer THEN [sc[c] EXCEPT !.deleting = TRUE]
                   ELSE None)
    /\ UNCHANGED <<scCache, versions>>

Labelled(s) == s # None /\ ~s.manual

Fault == events < MaxEvents /\ events' = events + 1

NoFault == events' = events

-----------------------------------------------------------------------------
(* What a ManagedCluster asks for.                                          *)

matchesSelector(labels, selector) == selector \subseteq labels

HttpsConfigs(m) == {i \in 1..Len(m.configs) : m.configs[i] \in Urls}

\* The first https URL of the client configs, or None.
extractAPIServer(m) ==
    IF HttpsConfigs(m) = {} THEN None
    ELSE m.configs[CHOOSE i \in HttpsConfigs(m) : \A j \in HttpsConfigs(m) : i <= j]

Eligible(m, selector) ==
    /\ m # None /\ ~m.deleting
    /\ "local-cluster" \notin m.labels
    /\ matchesSelector(m.labels, selector)

\* The apiServer to enroll, or None: an existing spoke keeps the one it has
\* while the ManagedCluster shows none.
DesiredServer(m, e) ==
    IF m = None THEN None
    ELSE IF extractAPIServer(m) # None THEN extractAPIServer(m)
    ELSE IF e # None THEN e.url ELSE None

-----------------------------------------------------------------------------
(* Reconcile: one run.                                                      *)

\* Lists are forgotten as soon as the run has no more use for them.
Nothing == [c \in Clusters |-> None]

ForgetLists == seen' = Nothing /\ existing' = Nothing /\ desired' = Nothing

\* Next step, clusters left in its loop, cluster it is at, error so far.
Go(step, left, c, e) == pc' = step /\ todo' = left /\ at' = c /\ errs' = e

\* Mutant: the collected error outlives the run.
Return_KeepErrs(e) ==
    /\ pc' = "idle" /\ todo' = {} /\ at' = None /\ errs' = errs
    /\ ForgetLists
    /\ queued' = (queued \/ e)

\* The run returns; an error puts the key back.
Return(e) ==
    /\ pc' = "idle" /\ todo' = {} /\ at' = None /\ errs' = FALSE
    /\ ForgetLists
    /\ queued' = (queued \/ e)

OwnAccounts == {c \in Clusters : msa[c] = "own"}

\* No HubConfig, or one on its way out.
StartRetire ==
    /\ pc = "idle" /\ queued
    /\ hub.mode \in {"none", "terminating"}
    /\ queued' = FALSE
    /\ Go("retire", {c \in Clusters : Labelled(scCache[c]) /\ ~scCache[c].deleting},
          None, FALSE)
    /\ UNCHANGED <<worldVars, spokeVars, companions, sideVars, watching, listVars,
                   events>>

\* The first failed Delete ends the run.
Retire(c) ==
    /\ pc = "retire" /\ c \in todo
    /\ \/ NoFault /\ Delete(c) /\ Go("retire", todo \ {c}, None, FALSE)
          /\ UNCHANGED <<listVars, queued>>
       \/ Fault /\ Return(TRUE) /\ UNCHANGED spokeVars
    /\ UNCHANGED <<worldVars, companions, sideVars, watching>>

\* Mutant: nothing is done outside mce mode.
StartCompanions_Nothing ==
    /\ pc = "idle" /\ queued
    /\ hub.mode = "secret"
    /\ queued' = FALSE
    /\ UNCHANGED <<worldVars, spokeVars, companions, sideVars, watching, runVars,
                   events>>

\* Not in mce mode: the companions of an earlier mce phase are to go.
StartCompanions ==
    /\ pc = "idle" /\ queued
    /\ hub.mode = "secret"
    /\ \/ NoFault /\ queued' = FALSE /\ Go("companions", OwnAccounts, None, FALSE)
       \/ Fault /\ UNCHANGED <<queued, pc, todo, at, errs>>
    /\ UNCHANGED <<worldVars, spokeVars, companions, sideVars, watching, listVars>>

StartDiscovery ==
    /\ pc = "idle" /\ queued
    /\ hub.mode = "mce"
    /\ \/ NoFault /\ queued' = FALSE /\ Go("list", {}, None, FALSE)
          /\ seen' = [c \in Clusters |->
                         IF Eligible(mc[c], hub.selector) THEN mc[c] ELSE None]
       \/ Fault /\ UNCHANGED <<queued, pc, todo, at, errs, seen>>
    /\ UNCHANGED <<worldVars, spokeVars, companions, sideVars, watching, existing,
                   desired>>

\* A new watch starts with an event per object it finds; a failure to
\* register it is logged and left to the next run.
tryRegisterWatch ==
    \/ watching /\ NoFault /\ UNCHANGED <<watching, queued>>
    \/ ~watching /\ NoFault /\ watching' = TRUE
       /\ queued' = (queued \/ \E c \in Clusters : mc[c] # None)
    \/ ~watching /\ Fault /\ UNCHANGED <<watching, queued>>

ListSpokes ==
    /\ pc = "list"
    /\ tryRegisterWatch
    /\ existing' = [c \in Clusters |->
                        IF Labelled(scCache[c]) THEN scCache[c] ELSE None]
    /\ desired' = [c \in Clusters |->
                       DesiredServer(seen[c], existing'[c])]
    /\ Go("enroll", {c \in Clusters : desired'[c] # None}, None, FALSE)
    /\ seen' = Nothing
    /\ UNCHANGED <<worldVars, spokeVars, companions, sideVars>>

\* The visit of one cluster ends, with an error to collect or without.
EndVisit(c, e) == Go("enroll", todo \ {c}, None, errs \/ e)

Skip(c) == EndVisit(c, FALSE) /\ NoFault /\ UNCHANGED <<sc, scPend, versions>>

Collect(c) == EndVisit(c, TRUE) /\ UNCHANGED <<sc, scPend, versions>>

Visit(c) == Go("account", todo \ {c}, c, errs)

Restored(c) == [existing[c] EXCEPT !.url = desired[c], !.mce = TRUE]

Drifted(c) == existing[c].url # desired[c] \/ ~existing[c].mce

\* Mutant: the Update does not carry the version it was read at.
RestoreSpoke_NoVersion(c) ==
    /\ pc = "enroll" /\ c \in todo /\ existing[c] # None
    /\ \/ ~Drifted(c) /\ Visit(c) /\ NoFault /\ UNCHANGED <<sc, scPend, versions>>
       \/ Drifted(c) /\ sc[c] # None /\ NoFault
          /\ PutSpec(c, Restored(c)) /\ Visit(c)
       \/ Drifted(c) /\ sc[c] = None /\ NoFault /\ Collect(c)
       \/ Drifted(c) /\ Fault /\ Collect(c)
    /\ UNCHANGED <<worldVars, scCache, companions, sideVars, watching, queued,
                   listVars>>

\* Mutant: the fields are patched into whatever is there.
RestoreSpoke_Patch(c) ==
    /\ pc = "enroll" /\ c \in todo /\ existing[c] # None
    /\ \/ ~Drifted(c) /\ Visit(c) /\ NoFault /\ UNCHANGED <<sc, scPend, versions>>
       \/ Drifted(c) /\ sc[c] # None /\ NoFault
          /\ PutSpec(c, [sc[c] EXCEPT !.url = desired[c], !.mce = TRUE]) /\ Visit(c)
       \/ Drifted(c) /\ sc[c] = None /\ NoFault /\ Collect(c)
       \/ Drifted(c) /\ Fault /\ Collect(c)
    /\ UNCHANGED <<worldVars, scCache, companions, sideVars, watching, queued,
                   listVars>>

\* Fields an administrator changed are put back; the Update succeeds only on
\* the version the run has listed.
RestoreSpoke(c) ==
    /\ pc = "enroll" /\ c \in todo /\ existing[c] # None
    /\ \/ ~Drifted(c) /\ Visit(c) /\ NoFault /\ UNCHANGED <<sc, scPend, versions>>
       \/ Drifted(c) /\ sc[c] = existing[c] /\ NoFault
          /\ PutSpec(c, Restored(c)) /\ Visit(c)
       \/ Drifted(c) /\ sc[c] # existing[c] /\ NoFault /\ Collect(c)
       \/ Drifted(c) /\ Fault /\ Collect(c)
    /\ UNCHANGED <<worldVars, scCache, companions, sideVars, watching, queued,
                   listVars>>

NewSpoke(url) == [version |-> 1, manual |-> FALSE, url |-> url, mce |-> TRUE,
                  finalizer |-> FALSE, deleting |-> FALSE]

\* A SpokeCluster of that name, cached or live, is left alone, and so are its
\* companions.
CreateSpoke(c) ==
    /\ pc = "enroll" /\ c \in todo /\ existing[c] = None
    /\ \/ (scCache[c] # None \/ sc[c] # None) /\ Skip(c)
       \/ scCache[c] = None /\ sc[c] = None /\ NoFault
          /\ PutSpec(c, NewSpoke(desired[c])) /\ Visit(c)
       \/ scCache[c] = None /\ Fault /\ Collect(c)
    /\ UNCHANGED <<worldVars, scCache, companions, sideVars, watching, queued,
                   listVars>>

\* A companion is created unless an object of that name is there, which must
\* then be discovery's own; the namespace exists as long as the ManagedCluster.
Ensurable(state) == state \in Owned \/ (state = "none" /\ mc[at] # None)

ensureMSA ==
    /\ pc = "account"
    /\ \/ Ensurable(msa[at]) /\ NoFault
          /\ msa' = [msa EXCEPT ![at] = "own"] /\ Go("work", todo, at, errs)
       \/ ~Ensurable(msa[at]) /\ NoFault /\ UNCHANGED msa /\ EndVisit(at, TRUE)
       \/ Fault /\ UNCHANGED msa /\ EndVisit(at, TRUE)
    /\ UNCHANGED <<worldVars, spokeVars, work, sideVars, watching, queued, listVars>>

\* Mutant: an existing ManifestWork is taken as it is.
ensureMSARBAC_NoUpdate ==
    /\ pc = "work"
    /\ \/ Ensurable(work[at]) /\ NoFault
          /\ work' = [work EXCEPT ![at] = IF @ = "none" THEN "own" ELSE @]
          /\ EndVisit(at, FALSE)
       \/ ~Ensurable(work[at]) /\ NoFault /\ UNCHANGED work /\ EndVisit(at, TRUE)
       \/ Fault /\ UNCHANGED work /\ EndVisit(at, TRUE)
    /\ UNCHANGED <<worldVars, spokeVars, msa, sideVars, watching, queued, listVars>>

\* Manifests of an older release are brought up to date.
ensureMSARBAC ==
    /\ pc = "work"
    /\ \/ Ensurable(work[at]) /\ NoFault
          /\ work' = [work EXCEPT ![at] = "own"] /\ EndVisit(at, FALSE)
       \/ ~Ensurable(work[at]) /\ NoFault /\ UNCHANGED work /\ EndVisit(at, TRUE)
       \/ Fault /\ UNCHANGED work /\ EndVisit(at, TRUE)
    /\ UNCHANGED <<worldVars, spokeVars, msa, sideVars, watching, queued, listVars>>

StartPrune ==
    /\ pc = "enroll" /\ todo = {}
    /\ Go("prune", {c \in Clusters : /\ existing[c] # None /\ desired[c] = None
                                     /\ ~existing[c].deleting}, None, errs)
    /\ ForgetLists
    /\ UNCHANGED <<worldVars, spokeVars, companions, sideVars, watching, queued,
                   events>>

Prune(c) ==
    /\ pc = "prune" /\ c \in todo
    /\ \/ NoFault /\ Delete(c) /\ Go("prune", todo \ {c}, None, errs)
       \/ Fault /\ Go("prune", todo \ {c}, None, TRUE) /\ UNCHANGED spokeVars
    /\ UNCHANGED <<worldVars, companions, sideVars, watching, queued, listVars>>

\* cleanupOrphanedCompanions: the accounts are the record of what is left.
ListAccounts ==
    /\ pc \in {"retire", "prune"} /\ todo = {}
    /\ \/ NoFault /\ Go("orphans", OwnAccounts, None, errs)
          /\ UNCHANGED <<listVars, queued>>
       \/ Fault /\ Return(TRUE)
    /\ UNCHANGED <<worldVars, spokeVars, companions, sideVars, watching>>

\* Mutant: the companions of a SpokeCluster that was taken over are kept.
CheckOrphan_GoneOnly(c) ==
    /\ pc = "orphans" /\ c \in todo
    /\ IF scCache[c] # None THEN Go("orphans", todo \ {c}, None, errs)
       ELSE Go("orphanWork", todo \ {c}, c, errs)
    /\ UNCHANGED <<worldVars, spokeVars, companions, sideVars, watching, queued,
                   listVars, events>>

CheckOrphan(c) ==
    /\ pc = "orphans" /\ c \in todo
    /\ IF Labelled(scCache[c]) THEN Go("orphans", todo \ {c}, None, errs)
       ELSE Go("orphanWork", todo \ {c}, c, errs)
    /\ UNCHANGED <<worldVars, spokeVars, companions, sideVars, watching, queued,
                   listVars, events>>

\* cleanupAllDiscoveryCompanions: a standing kubeconfig is a spoke that is
\* not yet unmanaged.
CheckStanding(c) ==
    /\ pc = "companions" /\ c \in todo
    /\ IF kcCache[c] # "none" THEN Go("companions", todo \ {c}, None, TRUE)
       ELSE Go("companionWork", todo \ {c}, c, errs)
    /\ UNCHANGED <<worldVars, spokeVars, companions, sideVars, watching, queued,
                   listVars, events>>

\* Mutant: an error is logged and the run goes on to the account.
deleteMSARBAC_LogOnly ==
    /\ pc \in {"orphanWork", "companionWork"}
    /\ \/ /\ NoFault
          /\ work' = [work EXCEPT ![at] = IF @ \in Owned THEN "none" ELSE @]
       \/ Fault /\ UNCHANGED work
    /\ Go(IF pc = "orphanWork" THEN "orphanAccount" ELSE "companionAccount",
          todo, at, errs)
    /\ UNCHANGED <<worldVars, spokeVars, msa, sideVars, watching, listVars,
                   queued>>

\* In both loops the ManifestWork goes first and the first error ends the run.
deleteMSARBAC ==
    /\ pc \in {"orphanWork", "companionWork"}
    /\ \/ /\ NoFault
          /\ work' = [work EXCEPT ![at] = IF @ \in Owned THEN "none" ELSE @]
          /\ Go(IF pc = "orphanWork" THEN "orphanAccount" ELSE "companionAccount",
                todo, at, errs)
          /\ UNCHANGED <<listVars, queued>>
       \/ Fault /\ Return(TRUE) /\ UNCHANGED work
    /\ UNCHANGED <<worldVars, spokeVars, msa, sideVars, watching>>

\* With the account its tokens end.
Expired(k, c) == [k EXCEPT ![c] = IF @ = "mce" THEN "dead" ELSE @]

deleteMSA ==
    /\ pc \in {"orphanAccount", "companionAccount"}
    /\ \/ /\ NoFault
          /\ IF msa[at] = "own"
             THEN /\ msa' = [msa EXCEPT ![at] = "none"]
                  /\ kc' = Expired(kc, at) /\ kcCache' = Expired(kcCache, at)
             ELSE UNCHANGED <<msa, kc, kcCache>>
          /\ Go(IF pc = "orphanAccount" THEN "orphans" ELSE "companions",
                todo, None, errs)
          /\ UNCHANGED <<listVars, queued>>
       \/ Fault /\ Return(TRUE) /\ UNCHANGED <<msa, kc, kcCache>>
    /\ UNCHANGED <<worldVars, spokeVars, work, granted, run, watching>>

Finish ==
    /\ pc \in {"orphans", "companions"} /\ todo = {}
    /\ Return(errs)
    /\ UNCHANGED <<worldVars, spokeVars, companions, sideVars, watching, events>>

Discover ==
    \/ StartRetire \/ StartCompanions \/ StartDiscovery \/ ListSpokes
    \/ ensureMSA \/ ensureMSARBAC \/ StartPrune \/ ListAccounts
    \/ deleteMSARBAC \/ deleteMSA \/ Finish
    \/ \E c \in Clusters :
           \/ Retire(c) \/ RestoreSpoke(c) \/ CreateSpoke(c) \/ Prune(c)
           \/ CheckOrphan(c) \/ CheckStanding(c)

-----------------------------------------------------------------------------
(* The SpokeCluster controller on one SpokeCluster.  Errors are retried with *)
(* backoff and events of HubConfig and SpokeCluster start it, so a run may   *)
(* start whenever there is something left to do.                             *)

\* An access made from an mce kubeconfig goes through the MCE proxy with the
\* account's token and needs the RBAC the ManifestWork puts on the spoke.
Access(c, k) == k = "secret" \/ (k = "mce" /\ work[c] \in Owned)

\* GetRESTConfig of the mce source: token, exactly one MultiClusterEngine,
\* its proxy service's port, the proxy CA.
MCECredential(c) == /\ msa[c] # "none"
                    /\ proxy.engines = 1 /\ proxy.port /\ proxy.ca

\* The source of the run's mode yields a credential; a Secret source always
\* does here.
GetRESTConfig(c) == run[c] = "mce" => MCECredential(c)

sourceMatchesMode(s) == hub.mode = (IF s.mce THEN "mce" ELSE "secret")

Step(c, s) == run' = [run EXCEPT ![c] = s]

\* An Update of the cached object: it succeeds if that is still the latest.
AddFinalizer(c) ==
    /\ run[c] = "idle"
    /\ scCache[c] # None /\ ~scCache[c].deleting /\ ~scCache[c].finalizer
    /\ scPend[c] = <<>>
    /\ Put(c, [scCache[c] EXCEPT !.finalizer = TRUE])
    /\ UNCHANGED <<worldVars, scCache, versions, companions, sideVars, watching,
                   queued, runVars, events>>

StartManage(c) ==
    /\ run[c] = "idle"
    /\ scCache[c] # None /\ ~scCache[c].deleting /\ scCache[c].finalizer
    /\ sourceMatchesMode(scCache[c])
    /\ ~granted[c] \/ kc[c] # hub.mode
    /\ Step(c, hub.mode)
    /\ UNCHANGED <<worldVars, spokeVars, companions, kc, kcCache, granted, watching,
                   queued, runVars, events>>

\* The Secret is created, or brought up to date from the cached version.
Storable(c) == kc[c] = "none" \/ kcCache[c] \in {kc[c], run[c]}

StoreKubeconfig(c) ==
    /\ run[c] \in {"mce", "secret"}
    /\ IF GetRESTConfig(c) /\ Storable(c)
       THEN /\ kc' = [kc EXCEPT ![c] = IF @ # "none" /\ kcCache[c] = run[c] THEN @
                                       ELSE run[c]]
            /\ Step(c, "grant")
       ELSE Step(c, "idle") /\ UNCHANGED kc
    /\ UNCHANGED <<worldVars, spokeVars, companions, kcCache, granted, watching,
                   queued, runVars, events>>

Provision(c) ==
    /\ run[c] = "grant"
    /\ granted' = [granted EXCEPT ![c] = @ \/ Access(c, kcCache[c])]
    /\ Step(c, "idle")
    /\ UNCHANGED <<worldVars, spokeVars, companions, kc, kcCache, watching, queued,
                   runVars, events>>

StartCleanup(c) ==
    /\ run[c] = "idle"
    /\ scCache[c] # None /\ scCache[c].finalizer
    /\ \/ scCache[c].deleting /\ Step(c, "delete")
       \/ ~scCache[c].deleting /\ ~sourceMatchesMode(scCache[c]) /\ kc[c] # "none"
          /\ Step(c, "unmanage")
    /\ UNCHANGED <<worldVars, spokeVars, companions, kc, kcCache, granted, watching,
                   queued, runVars, events>>

\* Best effort: without access the resources stay and the run goes on.
Deprovision(c) ==
    /\ run[c] \in {"unmanage", "delete"}
    /\ granted' = [granted EXCEPT ![c] = @ /\ ~Access(c, kcCache[c])]
    /\ Step(c, IF run[c] = "delete" THEN "forgetDelete" ELSE "forget")
    /\ UNCHANGED <<worldVars, spokeVars, companions, kc, kcCache, watching, queued,
                   runVars, events>>

ForgetKubeconfig(c) ==
    /\ run[c] \in {"forget", "forgetDelete"}
    /\ kc' = [kc EXCEPT ![c] = "none"]
    /\ Step(c, IF run[c] = "forgetDelete" THEN "release" ELSE "idle")
    /\ UNCHANGED <<worldVars, spokeVars, companions, kcCache, granted, watching,
                   queued, runVars, events>>

\* An Update too, of the object on its way out.  After a conflict the run is
\* made again and finds its other steps done.
RemoveFinalizer(c) ==
    /\ run[c] = "release"
    /\ IF scPend[c] = <<>> /\ scCache[c] # None /\ scCache[c].deleting
       THEN Put(c, None) ELSE UNCHANGED <<sc, scPend>>
    /\ Step(c, "idle")
    /\ UNCHANGED <<worldVars, scCache, versions, companions, kc, kcCache, granted,
                   watching, queued, runVars, events>>

Manage(c) ==
    \/ AddFinalizer(c) \/ StartManage(c) \/ StoreKubeconfig(c) \/ Provision(c)
    \/ StartCleanup(c) \/ Deprovision(c) \/ ForgetKubeconfig(c)
    \/ RemoveFinalizer(c)

-----------------------------------------------------------------------------
(* Informers.                                                               *)

\* Creations, deletions and changes of the generation, of labelled objects;
\* an update event is mapped for its old and its new object.
Triggers(old, new) ==
    /\ Labelled(old) \/ Labelled(new)
    /\ \/ old = None \/ new = None
       \/ old # None /\ new # None
          /\ (old.version # new.version \/ old.deleting # new.deleting)

SyncSpoke(c) ==
    /\ scPend[c] # <<>>
    /\ scCache' = [scCache EXCEPT ![c] = Head(scPend[c])]
    /\ scPend' = [scPend EXCEPT ![c] = Tail(@)]
    /\ queued' = (queued \/ Triggers(scCache[c], Head(scPend[c])))
    /\ UNCHANGED <<worldVars, sc, versions, companions, sideVars, watching, runVars,
                   events>>

SyncStanding(c) ==
    /\ kcCache[c] # kc[c]
    /\ kcCache' = [kcCache EXCEPT ![c] = kc[c]]
    /\ UNCHANGED <<worldVars, spokeVars, companions, kc, granted, run, watching,
                   queued, runVars, events>>

\* The resync of a HubConfig is not filtered, that of a SpokeCluster is: its
\* generation has not changed.
Resync ==
    /\ ~queued /\ hub.mode # "none"
    /\ queued' = TRUE
    /\ UNCHANGED <<worldVars, spokeVars, companions, sideVars, watching, runVars,
                   events>>

-----------------------------------------------------------------------------
(* Administrator, MCE and crashes.                                          *)

Event(name) == name \in EnvEvents /\ events < MaxEvents /\ events' = events + 1

\* ManagedCluster events reach the queue once the watch is there.
Notify == queued' = (queued \/ watching)

AdminCreate(c) ==
    /\ Event("create") /\ sc[c] = None
    /\ \E u \in Urls, m \in BOOLEAN :
           PutSpec(c, [NewSpoke(u) EXCEPT !.manual = TRUE, !.mce = m])
    /\ UNCHANGED <<worldVars, scCache, companions, sideVars, watching, queued,
                   runVars>>

AdminEdit(c) ==
    /\ Event("edit") /\ sc[c] # None
    /\ \E u \in Urls, m \in BOOLEAN :
           /\ u # sc[c].url \/ m # sc[c].mce
           /\ PutSpec(c, [sc[c] EXCEPT !.url = u, !.mce = m])
    /\ UNCHANGED <<worldVars, scCache, companions, sideVars, watching, queued,
                   runVars>>

\* The administrator takes a discovered SpokeCluster over.
AdminUnlabel(c) ==
    /\ Event("unlabel") /\ Labelled(sc[c])
    /\ Put(c, [sc[c] EXCEPT !.manual = TRUE])
    /\ UNCHANGED <<worldVars, scCache, versions, companions, sideVars, watching,
                   queued, runVars>>

AdminDelete(c) ==
    /\ Event("delete") /\ sc[c] # None /\ ~sc[c].deleting
    /\ Delete(c)
    /\ UNCHANGED <<worldVars, companions, sideVars, watching, queued, runVars>>

SetCluster(c, m) ==
    /\ Event("cluster") /\ Notify
    /\ mc' = [mc EXCEPT ![c] = m]

\* An import may find objects of another owner under the companions' names.
\* A namespace takes longer to go and come back than discovery takes from one
\* companion to the next.
ImportCluster(c) ==
    /\ mc[c] = None
    /\ ~(pc = "work" /\ at = c)
    /\ \E m \in Imports : SetCluster(c, m)
    /\ \/ UNCHANGED companions
       \/ "foreign" \in EnvEvents
          /\ msa' = [msa EXCEPT ![c] = "foreign"] /\ UNCHANGED work
       \/ "foreign" \in EnvEvents
          /\ work' = [work EXCEPT ![c] = "foreign"] /\ UNCHANGED msa
    /\ UNCHANGED <<hub, proxy, spokeVars, sideVars, watching, runVars>>

ChangeCluster(c) ==
    /\ mc[c] # None /\ ~mc[c].deleting
    /\ \E m \in (Imports \ {mc[c]}) \cup {[mc[c] EXCEPT !.deleting = TRUE]} :
           SetCluster(c, m)
    /\ UNCHANGED <<hub, proxy, spokeVars, companions, sideVars, watching, runVars>>

\* The end of a detach: the cluster's namespace goes with all that is in it.
RemoveCluster(c) ==
    /\ mc[c] # None /\ mc[c].deleting
    /\ SetCluster(c, None)
    /\ msa' = [msa EXCEPT ![c] = "none"] /\ work' = [work EXCEPT ![c] = "none"]
    /\ kc' = Expired(kc, c) /\ kcCache' = Expired(kcCache, c)
    /\ UNCHANGED <<hub, proxy, spokeVars, granted, run, watching, runVars>>

\* A HubConfig has a finalizer: it is terminating before it is gone.
ChangeHubConfig ==
    /\ Event("hub")
    /\ hub' \in HubConfigs \ {hub}
    /\ (hub.mode = "terminating") <=> (hub'.mode = "none")
    /\ hub.mode = "none" => hub'.mode # "terminating"
    /\ queued' = TRUE
    /\ UNCHANGED <<mc, proxy, spokeVars, companions, sideVars, watching, runVars>>

ChangeProxy ==
    /\ Event("proxy")
    /\ proxy' \in Proxies \ {proxy}
    /\ UNCHANGED <<mc, hub, spokeVars, companions, sideVars, watching, queued,
                   runVars>>

\* The new process starts from fresh lists; an upgrade may change manifests.
Crash ==
    /\ Fault
    /\ pc' = "idle" /\ todo' = {} /\ at' = None /\ errs' = FALSE
    /\ ForgetLists
    /\ run' = [c \in Clusters |-> "idle"]
    /\ watching' = FALSE
    /\ scCache' = sc /\ scPend' = [c \in Clusters |-> <<>>] /\ kcCache' = kc
    /\ queued' = (hub.mode # "none" \/ \E c \in Clusters : Labelled(sc[c]))
    /\ \/ UNCHANGED work
       \/ "upgrade" \in EnvEvents
          /\ work' = [c \in Clusters |-> IF work[c] = "own" THEN "stale" ELSE work[c]]
    /\ UNCHANGED <<worldVars, sc, versions, msa, kc, granted>>

Surroundings ==
    \/ ChangeHubConfig \/ ChangeProxy \/ Crash
    \/ \E c \in Clusters :
           \/ AdminCreate(c) \/ AdminEdit(c) \/ AdminUnlabel(c) \/ AdminDelete(c)
           \/ ImportCluster(c) \/ ChangeCluster(c) \/ RemoveCluster(c)

Next ==
    \/ Discover \/ Resync \/ Surroundings
    \/ \E c \in Clusters : Manage(c) \/ SyncSpoke(c) \/ SyncStanding(c)

\* Workers run what is queued, informers deliver, and each informer resyncs
\* again and again.
Fairness ==
    /\ WF_vars(Discover) /\ WF_vars(Resync)
    /\ \A c \in Clusters :
           WF_vars(Manage(c)) /\ WF_vars(SyncSpoke(c)) /\ WF_vars(SyncStanding(c))

Spec == Init /\ [][Next]_vars /\ Fairness

-----------------------------------------------------------------------------
(* Properties.                                                              *)

\* Discovery's ManifestWork, which gives the account its rights on the spoke,
\* is never left without discovery's ManagedServiceAccount: the accounts are
\* all that cleanupOrphanedCompanions and cleanupAllDiscoveryCompanions look
\* for, so a ManifestWork without one would keep its rights for ever.
WorkHasAccount ==
    \A c \in Clusters : work[c] \in Owned => msa[c] = "own"

\* Cleared: a deletion run has been through the cleanup and its Update will
\* not conflict.
Life(c) ==
    IF sc[c] = None THEN "absent"
    ELSE IF ~sc[c].deleting THEN IF sc[c].finalizer THEN "held" ELSE "open"
    ELSE IF run[c] = "release" /\ scPend[c] = <<>> THEN "cleared" ELSE "leaving"

Reg(c) == INSTANCE Registration
              WITH life <- Life(c), stored <- kc[c] # "none", granted <- granted[c]

\* With discovery creating, restoring and deleting SpokeClusters from lists
\* that may be old, each of them still lives as Registration says: no
\* finalizer is lost, none disappears before a deletion run has been through
\* the cleanup, and only a held or leaving one is given credentials or
\* resources.
KeepsRegistrations ==
    /\ \A c \in Clusters : Reg(c)!Init
    /\ [][\A c \in Clusters : [Reg(c)!Next]_(Reg(c)!vars)]_vars

\* Discovery never rewrites the spec of a SpokeCluster that does not carry its
\* label, not even one that lost the label after discovery listed it.
ManualSpecStands ==
    [][Discover =>
           \A c \in Clusters :
               sc[c] # None /\ sc[c].manual =>
                   \/ sc'[c] = None
                   \/ sc'[c].version = sc[c].version /\ sc'[c].manual]_vars

Wanted(c) ==
    /\ hub.mode = "mce" /\ Eligible(mc[c], hub.selector)
    /\ extractAPIServer(mc[c]) # None
    /\ "foreign" \notin {msa[c], work[c]}
    /\ sc[c] = None \/ Labelled(sc[c])
    /\ proxy.engines = 1 /\ proxy.port /\ proxy.ca

Enrolled(c) ==
    /\ Labelled(sc[c]) /\ ~sc[c].deleting /\ sc[c].mce
    /\ mc[c] # None /\ sc[c].url = extractAPIServer(mc[c])
    /\ msa[c] = "own" /\ work[c] = "own"
    /\ kc[c] = "mce" /\ granted[c]

CompanionsGone(c) == msa[c] # "own" /\ work[c] \notin Owned

\* A ManagedCluster that keeps matching the selector, with an API server URL
\* and no other owner in the way, ends as a managed spoke with current
\* companions, whatever was left of earlier registrations.
EnrolmentSettles ==
    \A c \in Clusters : <>[]Wanted(c) => <>[]Enrolled(c)

\* A cluster that stays out of the selection, or a HubConfig that stays on its
\* way out, ends with no discovered SpokeCluster and with neither companion,
\* also when a crash or a failed call interrupts the removal.
DepartureSettles ==
    \A c \in Clusters :
        <>[](\/ hub.mode = "terminating"
             \/ hub.mode = "mce" /\ ~Eligible(mc[c], hub.selector))
            => <>[](~Labelled(sc[c]) /\ CompanionsGone(c))

\* After a switch to secret mode the companions of a spoke that keeps its mce
\* source go once the SpokeCluster controller is done with it.
SwitchSettles ==
    \A c \in Clusters :
        <>[](hub.mode = "secret" /\ sc[c] # None /\ sc[c].mce) => <>[]CompanionsGone(c)

\* After a switch to secret mode all companions go.
SwitchRevokes ==
    \A c \in Clusters : <>[](hub.mode = "secret") => <>[]CompanionsGone(c)
=============================================================================

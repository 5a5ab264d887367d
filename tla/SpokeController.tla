--------------------------- MODULE SpokeController ---------------------------
(***************************************************************************)
(* The life of one SpokeCluster key on the hub: the SpokeCluster           *)
(* reconciler (internal/controller/spokecluster_controller.go, one worker  *)
(* per key), the spoke health handler (spoke_health_handler.go, a          *)
(* goroutine of the same process), the informers that feed both, and their *)
(* surroundings: administrator, HubConfig, credential source, spoke API    *)
(* server, garbage collector and the alerts adapter.                       *)
(*                                                                         *)
(* The manager's client reads typed objects from informer caches and       *)
(* writes to the API server.  Each cached object is therefore three        *)
(* variables: the live object, the cached one, and the sequence of         *)
(* versions the watch has still to deliver (scPend, kcPend).  An Update    *)
(* carries the resourceVersion it was read at and fails on any later       *)
(* version; a status Patch and a Delete carry none.                        *)
(***************************************************************************)
EXTENDS Integers, Sequences

CONSTANTS
    None,         \* no such object
    MaxUid,       \* bound: incarnations of the SpokeCluster
    MaxGen,       \* bound: generations of one incarnation's spec
    MaxSource,    \* bound: versions of the spoke's credential
    MaxLag,       \* bound: versions a cache may be behind
    MaxEnv,       \* bound: environment events
    MaxFaults,    \* bound: failed API calls and operator crashes
    Kind,         \* Kind[g]: credential source of the spec at generation g
    GoodServers,  \* generations whose apiServer is the spoke's address
    Modes,        \* HubConfig states of this instance
    EnvEvents     \* environment events of this instance

ASSUME ConstantsAssumption ==
    /\ {MaxUid, MaxGen, MaxSource} \subseteq Nat \ {0}
    /\ {MaxLag, MaxEnv, MaxFaults} \subseteq Nat
    /\ Kind \in [1..MaxGen -> {"secret", "mce"}]
    /\ GoodServers \subseteq 1..MaxGen
    /\ Modes \subseteq {"none", "terminating", "secret", "mce"}

Uids == 1..MaxUid
Gens == 1..MaxGen

(***************************************************************************)
(* Status conditions, each told by its reason; the reason determines the   *)
(* status.  gen is ObservedGeneration.  Messages and timestamps are left   *)
(* out (see PatchStatus for the one place where a message decides).        *)
(***************************************************************************)
CondTypes == {"Ready", "Connected", "Provisioned", "AdaptersReady"}

TrueReasons == {"Managed", "ConnectionSucceeded", "ProvisioningSucceeded",
                "AdaptersReady"}

FalseReasons == {"HubConfigMissing", "CredentialSourceMismatch",
                 "ConnectionFailed", "CredentialError",
                 "ProvisioningFailed", "AdaptersFailed"}

Conditions == [reason : TrueReasons \cup FalseReasons \cup {"Absent"},
               gen : 0..MaxGen]

Absent == [reason |-> "Absent", gen |-> 0]

NoConditions == [t \in CondTypes |-> Absent]

StatusOf(c) ==
    IF c.reason = "Absent" THEN "Absent"
    ELSE IF c.reason \in TrueReasons THEN "True" ELSE "False"

\* Mutant: the observed generation is one ahead.
SetCondition_Ahead(list, type, reason, gen) ==
    [list EXCEPT ![type] = [reason |-> reason, gen |-> gen + 1]]

SetCondition(list, type, reason, gen) ==
    [list EXCEPT ![type] = [reason |-> reason, gen |-> gen]]

(***************************************************************************)
(* The SpokeCluster object and the standing kubeconfig Secret.  server 0   *)
(* is the MCE proxy endpoint, server g the apiServer of generation g.      *)
(***************************************************************************)
SpokeClusters ==
    [uid : Uids, gen : Gens, deleting : BOOLEAN, finalizer : BOOLEAN,
     label : BOOLEAN, conditions : [CondTypes -> Conditions]]

\* What the health handler keeps of a listed SpokeCluster.
Snapshots == [gen : 0..MaxGen, conditions : [CondTypes -> Conditions]]

NoSnapshot == [gen |-> 0, conditions |-> NoConditions]

Kubeconfigs == [server : 0..MaxGen, source : 1..MaxSource, owner : Uids]

MaybeSC == SpokeClusters \cup {None}

MaybeKC == Kubeconfigs \cup {None}

ASSUME NoneAssumption == None \notin SpokeClusters /\ None \notin Kubeconfigs

Extent == {"none", "partial", "full"}

CleanupPcs == {"deprovision", "deleteStanding", "deleteAdapter",
               "restartAfterCleanup"}

ManagePcs == {"kubeconfig", "probe", "provision", "adapters", "credential",
              "label", "restart"}

VARIABLES
    sc, scCache, scPend,   \* SpokeCluster: live, cached, still to deliver
    kc, kcCache, kcPend,   \* standing kubeconfig Secret, likewise
    ac,                    \* owner of the adapter credential Secret, or 0
    hub,                   \* HubConfig as the cache shows it
    src,                   \* credential the source yields, 0: an error
    good,                  \* credential the spoke accepts
    up,                    \* the spoke API server answers
    base, adp,             \* reader and adapter resources on the spoke
    warned,                \* a SpokeCleanupFailed Event stands for them
    polling,               \* adapter: not deployed, or has this spoke as target
    queued,                \* the key is in the workqueue
    pc,                    \* reconciler: next step of the current run
    loc,                   \* its local copy of the SpokeCluster
    current,               \* loc's resourceVersion is still the live one
    after,                 \* what the run does or returns next
    cfg,                   \* standing kubeconfig loaded by this run
    cleanup,               \* outcome of the latest spoke-side cleanup
    hpc, hsnap, hnew,      \* health handler: step, listed copy, new reason
    uids, env, faults      \* bounded counters

scVars     == <<sc, scCache, scPend>>
kcVars     == <<kc, kcCache, kcPend>>
spokeVars  == <<src, good, up>>
remoteVars == <<base, adp, warned>>
runVars    == <<pc, loc, after, cfg, cleanup>>
healthVars == <<hpc, hsnap, hnew>>
bounds     == <<uids, env, faults>>

vars == <<scVars, kcVars, ac, hub, spokeVars, remoteVars, polling, queued,
          runVars, current, healthVars, bounds>>

TypeOK ==
    /\ sc \in MaybeSC
    /\ scCache \in MaybeSC
    /\ scPend \in Seq(MaybeSC)
    /\ kc \in MaybeKC
    /\ kcCache \in MaybeKC
    /\ kcPend \in Seq(MaybeKC)
    /\ ac \in 0..MaxUid
    /\ hub \in Modes
    /\ src \in 0..MaxSource /\ good \in 1..MaxSource /\ up \in BOOLEAN
    /\ base \in Extent /\ adp \in Extent /\ warned \in BOOLEAN
    /\ polling \in {"down", "no", "yes"} /\ queued \in BOOLEAN
    /\ pc \in {"idle", "patch", "removeFinalizer"} \cup CleanupPcs \cup ManagePcs
    /\ loc \in MaybeSC
    /\ pc # "idle" => loc # None
    /\ pc \in CleanupPcs =>
           after \in {"delete", "HubConfigMissing", "CredentialSourceMismatch"}
    /\ current \in BOOLEAN
    /\ after \in {"-", "ok", "error", "delete", "HubConfigMissing",
                  "CredentialSourceMismatch"}
    /\ cfg \in MaybeKC
    /\ cleanup \in {"-", "skipped", "failed", "done"}
    /\ hpc \in {"idle", "probe", "patch"}
    /\ hsnap \in Snapshots
    /\ hnew \in {"-", "ConnectionSucceeded", "ConnectionFailed"}
    /\ hpc = "patch" => hnew # "-"
    /\ uids \in 0..MaxUid /\ env \in 0..MaxEnv /\ faults \in 0..MaxFaults

Init ==
    /\ sc = None /\ scCache = None /\ scPend = <<>>
    /\ kc = None /\ kcCache = None /\ kcPend = <<>>
    /\ ac = 0
    /\ hub \in Modes \ {"terminating"}
    /\ src = 1 /\ good = 1 /\ up = TRUE
    /\ base = "none" /\ adp = "none" /\ warned = FALSE
    /\ polling = (IF hub = "none" THEN "down" ELSE "no")
    /\ queued = FALSE /\ pc = "idle" /\ loc = None /\ current = FALSE
    /\ after = "-" /\ cfg = None /\ cleanup = "-"
    /\ hpc = "idle" /\ hsnap = NoSnapshot /\ hnew = "-"
    /\ uids = 0 /\ env = 0 /\ faults = 0

-----------------------------------------------------------------------------
(* Writes to the API server.  A write that changes nothing makes no version. *)

PutSC(v) ==
    IF v = sc THEN UNCHANGED <<sc, scPend>>
    ELSE /\ Len(scPend) < MaxLag
         /\ sc' = v
         /\ scPend' = Append(scPend, v)

PutKubeconfig(v) ==
    IF v = kc THEN UNCHANGED <<kc, kcPend>>
    ELSE /\ Len(kcPend) < MaxLag
         /\ kc' = v
         /\ kcPend' = Append(kcPend, v)

\* Any write of another actor to the live object outdates loc.
Outdate == current' = (current /\ sc' = sc)

Fault == faults < MaxFaults /\ faults' = faults + 1

NoFault == faults' = faults

\* A call to the spoke with kubeconfig k gets through.
Reachable(k) ==
    /\ up
    /\ k.source = good
    /\ k.server = 0 \/ k.server \in GoodServers

\* The adapter lists labelled SpokeClusters and reads their Secrets as it
\* starts.
Target == sc # None /\ sc.label /\ ac # 0

Listing == IF Target THEN "yes" ELSE "no"

\* A restart makes a deployed adapter list again; without a Deployment there
\* is nothing to do.
Restarted == IF polling = "down" THEN "down" ELSE Listing

-----------------------------------------------------------------------------
(* Informers: deliver the next version; the predicates of SetupWithManager  *)
(* decide whether it enqueues the key.                                      *)

\* Mutant: all status-only updates are filtered.
Passes_NoStatus(old, new) ==
    \/ old = None
    \/ new = None
    \/ old.gen # new.gen
    \/ ~old.deleting /\ new.deleting

\* Mutant: the start of a deletion is filtered.
Passes_NoDeletion(old, new) ==
    \/ old = None
    \/ new = None
    \/ old.gen # new.gen
    \/ StatusOf(old.conditions["Connected"]) # StatusOf(new.conditions["Connected"])

Passes(old, new) ==
    \/ old = None
    \/ new = None
    \/ old.gen # new.gen
    \/ ~old.deleting /\ new.deleting
    \/ StatusOf(old.conditions["Connected"]) # StatusOf(new.conditions["Connected"])

SyncSpokeCluster ==
    /\ scPend # <<>>
    /\ scCache' = Head(scPend)
    /\ scPend' = Tail(scPend)
    /\ queued' = (queued \/ Passes(scCache, Head(scPend)))
    /\ UNCHANGED <<sc, kcVars, ac, hub, spokeVars, remoteVars, polling, runVars,
                   current, healthVars, bounds>>

SyncKubeconfig ==
    /\ kcPend # <<>>
    /\ kcCache' = Head(kcPend)
    /\ kcPend' = Tail(kcPend)
    /\ UNCHANGED <<scVars, kc, ac, hub, spokeVars, remoteVars, polling, queued,
                   runVars, current, healthVars, bounds>>

-----------------------------------------------------------------------------
(* Reconcile: from the queue to the first external effect.                  *)

credentialSourceMatchesMode(g, mode) == Kind[g] = mode

\* Mutant: an error is returned as success.
Return_NoRetry(requeue) ==
    /\ pc' = "idle" /\ loc' = None /\ after' = "-" /\ cfg' = None
    /\ queued' = queued /\ current' = FALSE /\ cleanup' = "-"

\* The end of a run: it returns, and an error puts the key back.
Return(requeue) ==
    /\ pc' = "idle" /\ loc' = None /\ after' = "-" /\ cfg' = None
    /\ queued' = (queued \/ requeue)
    /\ current' = FALSE
    /\ cleanup' = "-"

Begin(step, next, rv) ==
    /\ pc' = step /\ loc' = scCache /\ after' = next /\ current' = rv
    /\ queued' = FALSE
    /\ UNCHANGED <<cfg, cleanup>>

ReconcileNothing ==
    /\ pc = "idle" /\ queued
    /\ \/ scCache = None
       \/ scCache # None /\ scCache.deleting /\ ~scCache.finalizer
    /\ queued' = FALSE
    /\ UNCHANGED <<scVars, kcVars, ac, hub, spokeVars, remoteVars, polling,
                   runVars, current, healthVars, bounds>>

\* The Update succeeds only if the cached object is the live one; on success
\* the run asks to be requeued, on a conflict the error requeues it.
AddFinalizer ==
    /\ pc = "idle" /\ queued
    /\ scCache # None /\ ~scCache.deleting /\ ~scCache.finalizer
    /\ \/ scPend = <<>> /\ NoFault /\ PutSC([scCache EXCEPT !.finalizer = TRUE])
       \/ scPend # <<>> /\ NoFault /\ UNCHANGED <<sc, scPend>>
       \/ Fault /\ UNCHANGED <<sc, scPend>>
    /\ UNCHANGED <<scCache, kcVars, ac, hub, spokeVars, remoteVars, polling, queued,
                   runVars, current, healthVars, uids, env>>

\* Mutant: the spoke-side part of the cleanup is left out.
StartDelete_HubOnly ==
    /\ pc = "idle" /\ queued
    /\ scCache # None /\ scCache.deleting /\ scCache.finalizer
    /\ Begin("deleteStanding", "delete", scPend = <<>>)
    /\ UNCHANGED <<scVars, kcVars, ac, hub, spokeVars, remoteVars, polling,
                   healthVars, bounds>>

StartDelete ==
    /\ pc = "idle" /\ queued
    /\ scCache # None /\ scCache.deleting /\ scCache.finalizer
    /\ Begin("deprovision", "delete", scPend = <<>>)
    /\ UNCHANGED <<scVars, kcVars, ac, hub, spokeVars, remoteVars, polling,
                   healthVars, bounds>>

StartUnmanage ==
    /\ pc = "idle" /\ queued
    /\ scCache # None /\ ~scCache.deleting /\ scCache.finalizer
    /\ \/ hub \in {"none", "terminating"}
          /\ Begin("deprovision", "HubConfigMissing", FALSE)
       \/ hub \in {"secret", "mce"} /\ ~credentialSourceMatchesMode(scCache.gen, hub)
          /\ Begin("deprovision", "CredentialSourceMismatch", FALSE)
    /\ UNCHANGED <<scVars, kcVars, ac, hub, spokeVars, remoteVars, polling,
                   healthVars, bounds>>

\* Mutant: a run goes on without the finalizer.
StartManage_NoFinalizer ==
    /\ pc = "idle" /\ queued
    /\ scCache # None /\ ~scCache.deleting
    /\ credentialSourceMatchesMode(scCache.gen, hub)
    /\ Begin("kubeconfig", "-", FALSE)
    /\ UNCHANGED <<scVars, kcVars, ac, hub, spokeVars, remoteVars, polling,
                   healthVars, bounds>>

StartManage ==
    /\ pc = "idle" /\ queued
    /\ scCache # None /\ ~scCache.deleting /\ scCache.finalizer
    /\ credentialSourceMatchesMode(scCache.gen, hub)
    /\ Begin("kubeconfig", "-", FALSE)
    /\ UNCHANGED <<scVars, kcVars, ac, hub, spokeVars, remoteVars, polling,
                   healthVars, bounds>>

-----------------------------------------------------------------------------
(* Reconcile: the managed path.                                             *)

\* Mutant: Ready is left as it was.
FailWith_ReadyKept(type, reason, result) ==
    /\ loc' = [loc EXCEPT !.conditions = SetCondition(@, type, reason, loc.gen)]
    /\ pc' = "patch"
    /\ after' = result
    /\ UNCHANGED <<cfg, cleanup, queued, current>>

\* failWithCondition and handleConnectivityFailure: the failed condition and
\* Ready become False in the local copy; result is what the run returns if
\* the status can be written.
FailWith(type, reason, result) ==
    /\ loc' = [loc EXCEPT !.conditions =
                  SetCondition(SetCondition(@, type, reason, loc.gen),
                               "Ready", reason, loc.gen)]
    /\ pc' = "patch"
    /\ after' = result
    /\ UNCHANGED <<cfg, cleanup, queued, current>>

Proceed(step) ==
    /\ pc' = step
    /\ UNCHANGED <<loc, after, cfg, cleanup, queued, current>>

\* Mutant: the owner reference of an existing Secret is kept.
BuildStandingKubeconfig_OldOwner(s, c) ==
    [server |-> IF Kind[s.gen] = "mce" THEN 0 ELSE s.gen,
     source |-> c,
     owner  |-> IF kcCache # None THEN kcCache.owner ELSE s.uid]

\* Mutant: the contents of an existing Secret are kept.
BuildStandingKubeconfig_OldData(s, c) ==
    IF kcCache # None THEN [kcCache EXCEPT !.owner = s.uid]
    ELSE [server |-> IF Kind[s.gen] = "mce" THEN 0 ELSE s.gen,
          source |-> c,
          owner  |-> s.uid]

\* BuildStandingKubeconfig: the apiServer of the spec for a Secret source,
\* the proxy host of the credential for an MCE one.
BuildStandingKubeconfig(s, c) ==
    [server |-> IF Kind[s.gen] = "mce" THEN 0 ELSE s.gen,
     source |-> c,
     owner  |-> s.uid]

\* GetRESTConfig and ensureStandingKubeconfig: Create; if the Secret exists,
\* compare with the cached one and Update it when data or owner differ.
EnsureStandingKubeconfig ==
    LET desired == BuildStandingKubeconfig(loc, src) IN
    /\ pc = "kubeconfig"
    /\ \/ /\ src = 0 /\ NoFault
          /\ UNCHANGED <<kc, kcPend>>
          /\ FailWith("Connected", "CredentialError", "error")
       \/ /\ src # 0 /\ NoFault
          /\ \/ kc = None /\ PutKubeconfig(desired)
             \/ kc # None /\ kcCache = desired /\ UNCHANGED <<kc, kcPend>>
             \/ /\ kc # None /\ kcCache # None /\ kcCache # desired
                /\ kcPend = <<>>
                /\ PutKubeconfig(desired)
          /\ Proceed("probe")
       \/ /\ src # 0 /\ NoFault
          /\ kc # None
          /\ kcCache = None \/ (kcCache # desired /\ kcPend # <<>>)
          /\ UNCHANGED <<kc, kcPend>>
          /\ FailWith("Connected", "CredentialError", "error")
       \/ /\ src # 0 /\ Fault
          /\ UNCHANGED <<kc, kcPend>>
          /\ FailWith("Connected", "CredentialError", "error")
    /\ UNCHANGED <<scVars, kcCache, ac, hub, spokeVars, remoteVars, polling,
                   healthVars, uids, env>>

\* loadStandingKubeconfig (a cached read) and CheckConnectivity.
CheckConnectivity ==
    /\ pc = "probe"
    /\ \/ kcCache = None /\ FailWith("Connected", "CredentialError", "error")
       \/ /\ kcCache # None /\ ~Reachable(kcCache)
          /\ FailWith("Connected", "ConnectionFailed", "ok")
       \/ /\ kcCache # None /\ Reachable(kcCache)
          /\ cfg' = kcCache
          /\ loc' = [loc EXCEPT !.conditions =
                        SetCondition(@, "Connected", "ConnectionSucceeded", loc.gen)]
          /\ pc' = "provision"
          /\ UNCHANGED <<after, cleanup, queued, current>>
    /\ UNCHANGED <<scVars, kcVars, ac, hub, spokeVars, remoteVars, polling,
                   healthVars, bounds>>

\* A spoke that does not answer fails the first call; a fault may also stop a
\* run of creates half way.
Part(x) == IF x = "full" THEN {"full"} ELSE {x, "partial"}

\* provisioner.Provision: namespace, ServiceAccount and two bindings.
Provision ==
    /\ pc = "provision"
    /\ \/ /\ Reachable(cfg) /\ NoFault
          /\ base' = "full"
          /\ loc' = [loc EXCEPT !.conditions =
                        SetCondition(@, "Provisioned", "ProvisioningSucceeded", loc.gen)]
          /\ pc' = "adapters"
          /\ UNCHANGED <<after, cfg, cleanup, queued, current>>
       \/ /\ \/ ~Reachable(cfg) /\ NoFault /\ base' = base
             \/ Reachable(cfg) /\ Fault /\ base' \in Part(base)
          /\ FailWith("Provisioned", "ProvisioningFailed", "error")
    /\ warned' = (warned /\ base' = base)
    /\ UNCHANGED <<scVars, kcVars, ac, hub, spokeVars, adp, polling, healthVars,
                   uids, env>>

\* reconcileAdapters up to the hub-side Secret: ProvisionAdapter, token and
\* Alertmanager route, all on the spoke.
ProvisionAdapter ==
    /\ pc = "adapters"
    /\ \/ Reachable(cfg) /\ NoFault /\ adp' = "full" /\ Proceed("credential")
       \/ /\ \/ ~Reachable(cfg) /\ NoFault /\ adp' = adp
             \/ Reachable(cfg) /\ Fault /\ adp' \in Part(adp) \cup {"full"}
          /\ FailWith("AdaptersReady", "AdaptersFailed", "error")
    /\ warned' = (warned /\ adp' = adp)
    /\ UNCHANGED <<scVars, kcVars, ac, hub, spokeVars, base, polling, healthVars,
                   uids, env>>

\* The read-compare-Update of an existing Secret, with its stale cached read
\* and its conflicts, is SpokeAccess's; here any failure of it is a fault.
EnsureAdapterCredentialSecret ==
    /\ pc = "credential"
    /\ \/ NoFault /\ ac' = loc.uid /\ Proceed("label")
       \/ Fault /\ ac' = ac /\ FailWith("AdaptersReady", "AdaptersFailed", "error")
    /\ UNCHANGED <<scVars, kcVars, hub, spokeVars, remoteVars, polling,
                   healthVars, uids, env>>

\* All checks passed: the last two conditions, then the status write.
Succeed ==
    /\ loc' = [loc EXCEPT !.conditions =
                  SetCondition(SetCondition(@, "AdaptersReady", "AdaptersReady", loc.gen),
                               "Ready", "Managed", loc.gen)]
    /\ pc' = "patch"
    /\ after' = "ok"
    /\ UNCHANGED <<cfg, cleanup, queued, current>>

\* ensureAdapterLabel: nothing to do, no restart, when the local copy has the
\* label; otherwise a fresh cached copy gets it by an Update.
EnsureAdapterLabel ==
    /\ pc = "label"
    /\ \/ loc.label /\ NoFault /\ UNCHANGED <<sc, scPend>> /\ Succeed
       \/ /\ ~loc.label /\ scCache # None /\ scPend = <<>> /\ NoFault
          /\ PutSC([scCache EXCEPT !.label = TRUE])
          /\ pc' = "restart"
          /\ loc' = [loc EXCEPT !.label = TRUE]
          /\ UNCHANGED <<after, cfg, cleanup, queued, current>>
       \/ /\ ~loc.label
          /\ \/ (scCache = None \/ scPend # <<>>) /\ NoFault
             \/ scCache # None /\ scPend = <<>> /\ Fault
          /\ UNCHANGED <<sc, scPend>>
          /\ FailWith("AdaptersReady", "AdaptersFailed", "error")
    /\ UNCHANGED <<scCache, kcVars, ac, hub, spokeVars, remoteVars, polling,
                   healthVars, uids, env>>

RestartAdapter ==
    /\ pc = "restart"
    /\ \/ NoFault /\ polling' = Restarted /\ Succeed
       \/ Fault /\ polling' = polling
          /\ FailWith("AdaptersReady", "AdaptersFailed", "error")
    /\ UNCHANGED <<scVars, kcVars, ac, hub, spokeVars, remoteVars,
                   healthVars, uids, env>>

\* patchStatus: the cached object's list is turned into the local one and sent
\* whole, without a resourceVersion; nothing is sent if the cached object
\* already has it.  A False condition's message is the text of an error, so
\* two False conditions with one reason may still differ.
PatchStatus ==
    LET equal   == scCache # None /\ scCache.conditions = loc.conditions
        settled == \A t \in CondTypes : StatusOf(loc.conditions[t]) # "False"
    IN
    /\ pc = "patch"
    /\ \/ /\ equal /\ NoFault
          /\ UNCHANGED <<sc, scPend>> /\ Return(after = "error")
       \/ /\ scCache # None /\ sc # None /\ ~(equal /\ settled) /\ NoFault
          /\ PutSC([sc EXCEPT !.conditions = loc.conditions])
          /\ Return(after = "error")
       \/ /\ \/ (scCache = None \/ sc = None) /\ NoFault
             \/ scCache # None /\ sc # None /\ ~(equal /\ settled) /\ Fault
          /\ UNCHANGED <<sc, scPend>> /\ Return(TRUE)
    /\ UNCHANGED <<scCache, kcVars, ac, hub, spokeVars, remoteVars, polling,
                   healthVars, uids, env>>

-----------------------------------------------------------------------------
(* cleanupSpokeResources, shared by reconcileDelete and unmanageSpoke: best  *)
(* effort, so no failure stops it.                                           *)

CleanupStep(step) ==
    /\ pc' = step
    /\ UNCHANGED <<loc, after, cfg, queued>>

\* What a run of deletes that stops half way may leave.
Rest(x) == IF x = "none" THEN {"none"} ELSE {x, "partial", "none"}

\* With no cached standing kubeconfig the spoke is not contacted and nothing
\* is reported; a failed attempt is reported by a Warning Event.
DeprovisionSpoke ==
    /\ pc = "deprovision"
    /\ \/ /\ kcCache = None /\ NoFault
          /\ cleanup' = "skipped"
          /\ UNCHANGED remoteVars
       \/ /\ kcCache # None /\ Reachable(kcCache) /\ NoFault
          /\ cleanup' = "done"
          /\ base' = "none" /\ adp' = "none" /\ warned' = FALSE
       \/ /\ kcCache # None
          /\ \/ ~Reachable(kcCache) /\ NoFault /\ UNCHANGED <<base, adp>>
             \/ /\ Reachable(kcCache) /\ Fault
                /\ base' \in Rest(base) /\ adp' \in Rest(adp)
          /\ cleanup' = "failed" /\ warned' = TRUE
    /\ CleanupStep("deleteStanding")
    /\ UNCHANGED <<scVars, kcVars, ac, hub, spokeVars, polling, current,
                   healthVars, uids, env>>

DeleteStandingKubeconfig ==
    /\ pc = "deleteStanding"
    /\ \/ NoFault /\ PutKubeconfig(None)
       \/ Fault /\ UNCHANGED <<kc, kcPend>>
    /\ CleanupStep("deleteAdapter")
    /\ UNCHANGED <<scVars, kcCache, ac, hub, spokeVars, remoteVars, polling,
                   cleanup, current, healthVars, uids, env>>

DeleteAdapterCredential ==
    /\ pc = "deleteAdapter"
    /\ \/ NoFault /\ ac' = 0
       \/ Fault /\ ac' = ac
    /\ CleanupStep("restartAfterCleanup")
    /\ UNCHANGED <<scVars, kcVars, hub, spokeVars, remoteVars, polling, cleanup,
                   current, healthVars, uids, env>>

\* The last step of the cleanup; then reconcileDelete goes on to the
\* finalizer and unmanageSpoke to the conditions.
RestartAfterCleanup ==
    /\ pc = "restartAfterCleanup"
    /\ \/ NoFault /\ polling' = Restarted
       \/ Fault /\ polling' = polling
    /\ \/ /\ after = "delete"
          /\ CleanupStep("removeFinalizer")
       \/ /\ after # "delete"
          /\ loc' = [loc EXCEPT !.conditions =
                        SetCondition(NoConditions, "Ready", after, loc.gen)]
          /\ pc' = "patch"
          /\ after' = "ok"
          /\ UNCHANGED <<cfg, queued>>
    /\ UNCHANGED <<scVars, kcVars, ac, hub, spokeVars, remoteVars, cleanup,
                   current, healthVars, uids, env>>

\* The Update that removes the last finalizer of a deleted object removes it.
RemoveFinalizer ==
    /\ pc = "removeFinalizer"
    /\ \/ current /\ NoFault /\ PutSC(None) /\ Return(FALSE)
       \/ ~current /\ NoFault /\ UNCHANGED <<sc, scPend>> /\ Return(TRUE)
       \/ current /\ Fault /\ UNCHANGED <<sc, scPend>> /\ Return(TRUE)
    /\ UNCHANGED <<scCache, kcVars, ac, hub, spokeVars, remoteVars, polling,
                   healthVars, uids, env>>

-----------------------------------------------------------------------------
(* The health handler: CheckAll lists from the cache; checkSpoke probes with *)
(* the cached standing kubeconfig and patches the listed copy's conditions.  *)

HealthIdle == hpc' = "idle" /\ hsnap' = NoSnapshot /\ hnew' = "-"

\* Mutant: spokes known to be disconnected are not checked.
CheckAll_NotFailed ==
    /\ hpc = "idle"
    /\ scCache # None /\ StatusOf(scCache.conditions["Connected"]) # "False"
    /\ hpc' = "probe"
    /\ hsnap' = [gen |-> scCache.gen, conditions |-> scCache.conditions]
    /\ UNCHANGED hnew
    /\ UNCHANGED <<scVars, kcVars, ac, hub, spokeVars, remoteVars, polling,
                   queued, runVars, current, bounds>>

CheckAll ==
    /\ hpc = "idle"
    /\ scCache # None
    /\ hpc' = "probe"
    /\ hsnap' = [gen |-> scCache.gen, conditions |-> scCache.conditions]
    /\ UNCHANGED hnew
    /\ UNCHANGED <<scVars, kcVars, ac, hub, spokeVars, remoteVars, polling,
                   queued, runVars, current, bounds>>

ProbeReason(k) ==
    IF Reachable(k) THEN "ConnectionSucceeded" ELSE "ConnectionFailed"

ProbeStatus(k) == IF Reachable(k) THEN "True" ELSE "False"

CheckSpoke ==
    /\ hpc = "probe"
    /\ \/ kcCache = None /\ HealthIdle
       \/ /\ kcCache # None
          /\ StatusOf(hsnap.conditions["Connected"]) = ProbeStatus(kcCache)
          /\ HealthIdle
       \/ /\ kcCache # None
          /\ StatusOf(hsnap.conditions["Connected"]) # ProbeStatus(kcCache)
          /\ hpc' = "patch" /\ hnew' = ProbeReason(kcCache)
          /\ UNCHANGED hsnap
    /\ UNCHANGED <<scVars, kcVars, ac, hub, spokeVars, remoteVars, polling,
                   queued, runVars, current, bounds>>

\* The list the handler sends: the one it listed, with Connected replaced.
HealthConditions ==
    SetCondition(hsnap.conditions, "Connected", hnew, hsnap.gen)

PatchConnected ==
    /\ hpc = "patch"
    /\ \/ /\ sc # None /\ NoFault
          /\ PutSC([sc EXCEPT !.conditions = HealthConditions])
       \/ sc = None /\ NoFault /\ UNCHANGED <<sc, scPend>>
       \/ sc # None /\ Fault /\ UNCHANGED <<sc, scPend>>
    /\ Outdate
    /\ HealthIdle
    /\ UNCHANGED <<scCache, kcVars, ac, hub, spokeVars, remoteVars, polling,
                   queued, runVars, uids, env>>

-----------------------------------------------------------------------------
(* The surroundings.                                                        *)

EnvStep(event) == event \in EnvEvents /\ env < MaxEnv /\ env' = env + 1

AdminCreate ==
    /\ sc = None /\ uids < MaxUid
    /\ uids' = uids + 1
    /\ PutSC([uid |-> uids + 1, gen |-> 1, deleting |-> FALSE,
              finalizer |-> FALSE, label |-> FALSE, conditions |-> NoConditions])
    /\ Outdate
    /\ UNCHANGED <<scCache, kcVars, ac, hub, spokeVars, remoteVars, polling, queued,
                   runVars, healthVars, env, faults>>

AdminEdit ==
    /\ sc # None /\ sc.gen < MaxGen
    /\ EnvStep("edit")
    /\ PutSC([sc EXCEPT !.gen = @ + 1])
    /\ Outdate
    /\ UNCHANGED <<scCache, kcVars, ac, hub, spokeVars, remoteVars, polling, queued,
                   runVars, healthVars, uids, faults>>

AdminDelete ==
    /\ sc # None /\ ~sc.deleting
    /\ EnvStep("delete")
    /\ PutSC(IF sc.finalizer THEN [sc EXCEPT !.deleting = TRUE] ELSE None)
    /\ Outdate
    /\ UNCHANGED <<scCache, kcVars, ac, hub, spokeVars, remoteVars, polling, queued,
                   runVars, healthVars, uids, faults>>

\* mapHubConfigToSpokeClusters lists the cache.  The HubConfig reconciler
\* tears the adapter down before it lets a HubConfig go (AdapterStack).
ChangeHubConfig ==
    /\ EnvStep("hub")
    /\ hub' \in Modes \ {hub}
    /\ hub = "terminating" => hub' = "none"
    /\ hub = "none" => hub' # "terminating"
    /\ queued' = (queued \/ scCache # None)
    /\ polling' \in IF hub' = "none" THEN {"down"}
                    ELSE IF hub' = "terminating" THEN {polling, "down"}
                    ELSE {polling}
    /\ UNCHANGED <<scVars, kcVars, ac, spokeVars, remoteVars, runVars,
                   current, healthVars, uids, faults>>

\* And deploys it for a HubConfig that stays.
StartAdapter ==
    /\ polling = "down" /\ hub \in {"secret", "mce"}
    /\ polling' = Listing
    /\ UNCHANGED <<scVars, kcVars, ac, hub, spokeVars, remoteVars, queued, runVars,
                   current, healthVars, bounds>>

\* The HubConfig informer redelivers its object every resync period and the
\* watch on it has no predicate.
Resync ==
    /\ "resync" \in EnvEvents
    /\ hub # "none" /\ scCache # None /\ ~queued
    /\ queued' = TRUE
    /\ UNCHANGED <<scVars, kcVars, ac, hub, spokeVars, remoteVars, polling, runVars,
                   current, healthVars, bounds>>

\* The spoke comes and goes; the credential source fails, recovers with the
\* credential the spoke accepts, or the spoke stops accepting the old one.
SpokeUpDown == EnvStep("spoke") /\ up' = ~up /\ UNCHANGED <<src, good>>

SourceChange ==
    /\ EnvStep("source")
    /\ src' \in {0, good} \ {src}
    /\ UNCHANGED <<good, up>>

Rotate ==
    /\ EnvStep("rotate")
    /\ good < MaxSource
    /\ good' = good + 1
    /\ src' \in {src, good'}
    /\ UNCHANGED up

SpokeSide ==
    /\ SpokeUpDown \/ SourceChange \/ Rotate
    /\ UNCHANGED <<scVars, kcVars, ac, hub, remoteVars, polling, queued, runVars,
                   current, healthVars, uids, faults>>

Owned(uid) == sc # None /\ sc.uid = uid

CollectGarbage ==
    /\ \/ kc # None /\ ~Owned(kc.owner) /\ PutKubeconfig(None) /\ UNCHANGED ac
       \/ ac # 0 /\ ~Owned(ac) /\ ac' = 0 /\ UNCHANGED <<kc, kcPend>>
    /\ UNCHANGED <<scVars, kcCache, hub, spokeVars, remoteVars, polling, queued,
                   runVars, current, healthVars, bounds>>

\* The operator dies and starts again: runs are lost, informers list the live
\* objects, and every SpokeCluster is enqueued by its create event.
Crash ==
    /\ Fault
    /\ pc' = "idle" /\ loc' = None /\ after' = "-" /\ cfg' = None
    /\ current' = FALSE /\ cleanup' = "-"
    /\ HealthIdle
    /\ scCache' = sc /\ scPend' = <<>>
    /\ kcCache' = kc /\ kcPend' = <<>>
    /\ queued' = (sc # None)
    /\ UNCHANGED <<sc, kc, ac, hub, spokeVars, remoteVars, polling, uids, env>>

-----------------------------------------------------------------------------
Reconciler ==
    \/ ReconcileNothing \/ AddFinalizer
    \/ StartDelete \/ StartUnmanage \/ StartManage
    \/ EnsureStandingKubeconfig \/ CheckConnectivity \/ Provision
    \/ ProvisionAdapter \/ EnsureAdapterCredentialSecret \/ EnsureAdapterLabel
    \/ RestartAdapter \/ PatchStatus
    \/ DeprovisionSpoke \/ DeleteStandingKubeconfig \/ DeleteAdapterCredential
    \/ RestartAfterCleanup \/ RemoveFinalizer

HealthHandler == CheckAll \/ CheckSpoke \/ PatchConnected

Environment ==
    \/ AdminCreate \/ AdminEdit \/ AdminDelete \/ ChangeHubConfig \/ Resync
    \/ SpokeSide \/ Crash

Next ==
    \/ Reconciler \/ HealthHandler
    \/ SyncSpokeCluster \/ SyncKubeconfig
    \/ CollectGarbage \/ StartAdapter
    \/ Environment

\* Each goroutine, informer and cluster controller keeps running.  Nothing is
\* assumed of the administrator, the spoke, faults or the resync timer.
Fairness ==
    /\ WF_vars(Reconciler) /\ WF_vars(HealthHandler)
    /\ WF_vars(SyncSpokeCluster) /\ WF_vars(SyncKubeconfig)
    /\ WF_vars(CollectGarbage) /\ WF_vars(StartAdapter)

Spec == Init /\ [][Next]_vars /\ Fairness

\* The resync timer too, which fires every ten hours or so.
ResyncSpec == Spec /\ WF_vars(Resync)

-----------------------------------------------------------------------------
(* Properties.                                                              *)

\* Status of a condition of the live object.
Status(type) == IF sc = None THEN "Absent" ELSE StatusOf(sc.conditions[type])

\* Hub-side credentials are written and spoke-side grants are made only for a
\* live SpokeCluster that carries the cleanup finalizer, the very incarnation
\* the run is for, however stale the cache Reconcile started from: nothing is
\* handed out that a deletion would not come back for.
GrantsUnderFinalizer ==
    [][ \/ kc' # kc /\ kc' # None
        \/ ac' # ac /\ ac' # 0
        \/ base' # base /\ pc = "provision"
        \/ adp' # adp /\ pc = "adapters"
        => sc # None /\ sc.finalizer /\ sc.uid = loc.uid ]_vars

\* The SpokeCluster as Registration sees it: cleared once a deletion run has
\* been through the cleanup, its attempt at the spoke included, for as long as
\* that run may still remove the finalizer.
Life ==
    IF sc = None THEN "absent"
    ELSE IF ~sc.finalizer THEN "open"
    ELSE IF ~sc.deleting THEN "held"
    ELSE IF pc = "removeFinalizer" /\ current /\ cleanup # "-" THEN "cleared"
    ELSE "leaving"

Reg == INSTANCE Registration WITH
    life    <- Life,
    stored  <- (kc # None \/ ac # 0),
    granted <- (base # "none" \/ adp # "none")

\* The controller implements Registration: through every interleaving of the
\* reconciler's stale Updates, the handler's patches, crashes and the
\* administrator, a SpokeCluster that carries the finalizer loses it only to a
\* deletion run that has been through the cleanup itself (which skips a spoke
\* whose standing Secret the cache does not show); credentials and grants
\* appear only under the finalizer, and none between the cleanup and its
\* removal.
KeepsRegistration == Reg!Safety

\* Ready=True never stands without Provisioned=True and AdaptersReady=True,
\* although two writers (patchStatus and the health handler) replace the whole
\* condition list from copies of different ages, across re-creations too.
ReadyIsEarned ==
    Status("Ready") = "True"
        => /\ Status("Provisioned") = "True"
           /\ Status("AdaptersReady") = "True"

\* From the moment ensureStandingKubeconfig has returned until the run ends, a
\* standing Secret that exists belongs to the live SpokeCluster, so the garbage
\* collector never takes the credential of a spoke that is being managed.
StandingOwnerIsLive ==
    pc \in ManagePcs \ {"kubeconfig"} /\ kc # None => Owned(kc.owner)

\* Spoke-side resources that no finalizer protects any more were reported by a
\* SpokeCleanupFailed Event.  cleanupSpokeResources decides on the cached
\* standing Secret, so this holds while that cache is at most one version
\* behind, whatever failed calls, outages and crashes the deletion meets; with
\* two versions to deliver it fails (run SpokeOrphan).
NoSilentOrphan ==
    (base # "none" \/ adp # "none") /\ ~(sc # None /\ sc.finalizer) => warned

\* No deletion is forgotten: while a SpokeCluster is being deleted, its key is
\* queued, a deletion run is under way, or the watch has yet to deliver.
\* Status patches of the health handler and of the run itself, which the
\* predicates drop, must not use up the event that started it, nor may a run
\* begun on an older version.
DeletionNeverStalls ==
    sc # None /\ sc.deleting => queued \/ after = "delete" \/ scPend # <<>>

\* A deleted SpokeCluster goes away, whatever conflicts with the health handler,
\* failed calls and crashes its cleanup meets: reconcileDelete always gets its
\* finalizer removed in the end.
DeleteCompletes ==
    \A u \in Uids : (Owned(u) /\ sc.deleting) ~> ~Owned(u)

Live == sc # None /\ ~sc.deleting

Unmanaged == Live /\ ~(hub = Kind[sc.gen])

Serviceable ==
    /\ Live /\ hub = Kind[sc.gen]
    /\ src = good /\ up
    /\ Kind[sc.gen] = "mce" \/ sc.gen \in GoodServers

\* A spoke that stays out of the HubConfig's mode ends with no standing
\* kubeconfig and with Ready=False and no Connected condition for good, even
\* if unmanageSpoke's Delete failed or a late health patch brought an old
\* condition list back.
UnmanagedSettles ==
    <>[]Unmanaged =>
        <>[](/\ kc = None
             /\ Status("Ready") = "False"
             /\ Status("Connected") = "Absent")

\* A spoke that stays reachable with a working credential source ends with
\* Connected=True for good: a run that failed on a stale cached kubeconfig
\* (it does not retry) is made good by the health handler.
ConnectedSettles ==
    <>[]Serviceable => <>[](Status("Connected") = "True")

\* A spoke that stays serviceable ends fully managed with the current
\* credential stored, whatever a late whole-list status patch, a rotation at an
\* unlucky moment or a failed call did before: every divergence is repaired at
\* the latest by the next redelivery of the HubConfig.
ManagedSettles ==
    <>[]Serviceable =>
        <>[](/\ \A t \in CondTypes : Status(t) = "True"
             /\ kc = BuildStandingKubeconfig(sc, good)
             /\ base = "full" /\ adp = "full" /\ ac = sc.uid)

-----------------------------------------------------------------------------
(* What the documentation and the comments of the code say, and the code     *)
(* does not keep: each is checked by a run that ends in a counterexample.    *)

\* The health handler "patches the `Connected` status condition": its patch
\* leaves the other conditions as they are.  (checkSpoke sends the whole list
\* it listed before the probe.)
HealthChangesOnlyConnected ==
    [][ hpc = "patch" /\ hpc' = "idle" /\ sc # None /\ sc' # None
        => \A t \in CondTypes \ {"Connected"} :
               sc'.conditions[t] = sc.conditions[t] ]_vars

\* "The hub operator restarts the adapter when the spoke target set changes":
\* a spoke that stays a target of a HubConfig that stays ends among the running
\* adapter's targets.  (The label outlives unmanageSpoke and a failed restart,
\* and suppresses the next.)
AdapterFollowsTargets ==
    <>[](Target /\ hub \in {"secret", "mce"}) => <>[](polling = "yes")
=============================================================================

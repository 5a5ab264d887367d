----------------------------- MODULE AdapterStack -----------------------------
(***************************************************************************)
(* The alerts-adapter stack on the hub: the HubConfig reconciler           *)
(* (internal/controller/hubconfig_controller.go), which creates the stack, *)
(* keeps it up to date and tears it down under a finalizer, and the        *)
(* restarts of its Deployment that SpokeCluster reconciles ask for         *)
(* (internal/controller/adapter_deployment.go).                            *)
(*                                                                         *)
(* Resources are numbered in the order ensureAdapterStack creates them;    *)
(* teardownAdapterStack deletes them in the reverse order.  A resource is  *)
(* represented by the operator release that wrote it, 0 if it is absent.   *)
(* Reads are cached reads, as in SpokeController: pend[r] are the versions *)
(* of r the watch has still to deliver.                                    *)
(***************************************************************************)
EXTENDS Integers, Sequences

CONSTANTS
    None,         \* no HubConfig
    Parts,        \* number of resources before the Deployment
    Updated,      \* those whose existing object is updated
    MaxUid,       \* bound: incarnations of the HubConfig
    MaxEdit,      \* bound: spec edits of one incarnation
    MaxRelease,   \* bound: operator releases
    MaxLag,       \* bound: versions a cache may be behind
    MaxRestarts,  \* bound: restarts asked for by SpokeCluster reconciles
    MaxFaults     \* bound: failed API calls and operator crashes

ASSUME StackAssumption ==
    /\ {Parts, MaxUid, MaxRelease} \subseteq Nat \ {0}
    /\ {MaxEdit, MaxLag, MaxRestarts, MaxFaults} \subseteq Nat
    /\ Updated \subseteq 1..Parts

Deployment == Parts + 1

Resources == 1..Deployment

HubConfigs == [uid : 1..MaxUid, edit : 0..MaxEdit, deleting : BOOLEAN,
               finalizer : BOOLEAN]

ASSUME NoHubConfigAssumption == None \notin HubConfigs

MaybeHC == HubConfigs \cup {None}

Versions == 0..MaxRelease

VARIABLES
    hc, hcCache, hcPend,  \* HubConfig: live, cached, still to deliver
    stack, cached, pend,  \* adapter resources, likewise
    release,              \* the adapter image this operator runs with
    queued,               \* the HubConfig is in the workqueue
    pc, at,               \* reconciler: phase and resource it is at
    current,              \* its HubConfig's resourceVersion is the live one
    failed,               \* a delete of this teardown failed
    uids, restarts, faults  \* bounded counters

hcVars    == <<hc, hcCache, hcPend>>
stackVars == <<stack, cached, pend>>
runVars   == <<pc, at, current, failed>>

vars == <<hcVars, stackVars, release, queued, runVars, uids, restarts, faults>>

TypeOK ==
    /\ hc \in MaybeHC /\ hcCache \in MaybeHC /\ hcPend \in Seq(MaybeHC)
    /\ stack \in [Resources -> Versions] /\ cached \in [Resources -> Versions]
    /\ pend \in [Resources -> Seq(Versions)]
    /\ release \in 1..MaxRelease
    /\ queued \in BOOLEAN
    /\ pc \in {"idle", "ensure", "teardown", "release"}
    /\ at \in 0..Deployment
    /\ pc \in {"ensure", "teardown"} => at \in Resources
    /\ current \in BOOLEAN /\ failed \in BOOLEAN
    /\ uids \in 0..MaxUid /\ restarts \in 0..MaxRestarts /\ faults \in 0..MaxFaults

Init ==
    /\ hc = None /\ hcCache = None /\ hcPend = <<>>
    /\ stack = [r \in Resources |-> 0] /\ cached = stack
    /\ pend = [r \in Resources |-> <<>>]
    /\ release = 1
    /\ queued = FALSE
    /\ pc = "idle" /\ at = 0 /\ current = FALSE /\ failed = FALSE
    /\ uids = 0 /\ restarts = 0 /\ faults = 0

-----------------------------------------------------------------------------
(* The API server, its caches and the workqueue.                            *)

PutHubConfig(v) ==
    /\ Len(hcPend) < MaxLag
    /\ hc' = v
    /\ hcPend' = Append(hcPend, v)

Put(r, v) ==
    /\ Len(pend[r]) < MaxLag
    /\ stack' = [stack EXCEPT ![r] = v]
    /\ pend' = [pend EXCEPT ![r] = Append(@, v)]

Fault == faults < MaxFaults /\ faults' = faults + 1

NoFault == faults' = faults

\* Every event of the HubConfig enqueues it: the watch has no predicate.
SyncHubConfig ==
    /\ hcPend # <<>>
    /\ hcCache' = Head(hcPend)
    /\ hcPend' = Tail(hcPend)
    /\ queued' = TRUE
    /\ UNCHANGED <<hc, stackVars, release, runVars, uids, restarts, faults>>

Sync(r) ==
    /\ pend[r] # <<>>
    /\ cached' = [cached EXCEPT ![r] = Head(pend[r])]
    /\ pend' = [pend EXCEPT ![r] = Tail(@)]
    /\ UNCHANGED <<hcVars, stack, release, queued, runVars, uids, restarts, faults>>

-----------------------------------------------------------------------------
(* HubConfigReconciler.Reconcile                                            *)

Begin(phase, r, rv) ==
    /\ pc' = phase /\ at' = r /\ current' = rv /\ failed' = FALSE
    /\ queued' = FALSE

\* Mutant: an error is logged and not returned.
Return_NoRetry(requeue) ==
    /\ pc' = "idle" /\ at' = 0 /\ current' = FALSE /\ failed' = FALSE
    /\ queued' = queued

Return(requeue) ==
    /\ pc' = "idle" /\ at' = 0 /\ current' = FALSE /\ failed' = FALSE
    /\ queued' = (queued \/ requeue)

ReconcileNothing ==
    /\ pc = "idle" /\ queued
    /\ \/ hcCache = None
       \/ hcCache # None /\ hcCache.deleting /\ ~hcCache.finalizer
    /\ queued' = FALSE
    /\ UNCHANGED <<hcVars, stackVars, release, runVars, uids, restarts, faults>>

\* Unlike the SpokeCluster reconciler's, this run goes on after its Update.
AddFinalizer ==
    /\ pc = "idle" /\ queued
    /\ hcCache # None /\ ~hcCache.deleting /\ ~hcCache.finalizer
    /\ \/ /\ hcPend = <<>> /\ NoFault
          /\ PutHubConfig([hcCache EXCEPT !.finalizer = TRUE])
          /\ Begin("ensure", 1, FALSE)
       \/ /\ \/ hcPend # <<>> /\ NoFault
             \/ hcPend = <<>> /\ Fault
          /\ UNCHANGED <<hc, hcPend, runVars, queued>>
    /\ UNCHANGED <<hcCache, stackVars, release, uids, restarts>>

StartEnsure ==
    /\ pc = "idle" /\ queued
    /\ hcCache # None /\ ~hcCache.deleting /\ hcCache.finalizer
    /\ Begin("ensure", 1, FALSE)
    /\ UNCHANGED <<hcVars, stackVars, release, uids, restarts, faults>>

StartTeardown ==
    /\ pc = "idle" /\ queued
    /\ hcCache # None /\ hcCache.deleting /\ hcCache.finalizer
    /\ Begin("teardown", Deployment, hcPend = <<>>)
    /\ UNCHANGED <<hcVars, stackVars, release, uids, restarts, faults>>

-----------------------------------------------------------------------------
(* ensureAdapterStack: create in order; what exists is read from the cache   *)
(* and updated, which fails if the cache has no copy or an old one.          *)

NextPart ==
    /\ at' = at + 1
    /\ UNCHANGED <<pc, current, failed, queued>>

EnsureResource ==
    /\ pc = "ensure" /\ at # Deployment
    /\ \/ /\ stack[at] = 0 /\ NoFault
          /\ Put(at, release)
          /\ NextPart
       \/ /\ stack[at] # 0 /\ at \notin Updated /\ NoFault
          /\ UNCHANGED <<stack, pend>>
          /\ NextPart
       \/ /\ stack[at] # 0 /\ at \in Updated /\ NoFault
          /\ cached[at] # 0 /\ pend[at] = <<>>
          /\ IF stack[at] = release THEN UNCHANGED <<stack, pend>>
             ELSE Put(at, release)
          /\ NextPart
       \/ /\ \/ /\ stack[at] # 0 /\ at \in Updated /\ NoFault
                /\ cached[at] = 0 \/ pend[at] # <<>>
             \/ Fault
          /\ UNCHANGED <<stack, pend>>
          /\ Return(TRUE)
    /\ UNCHANGED <<hcVars, cached, release, uids, restarts>>

\* Mutant: an existing Deployment is left as it is.
EnsureDeployment_Keep ==
    /\ pc = "ensure" /\ at = Deployment
    /\ \/ stack[at] = 0 /\ NoFault /\ Put(at, release) /\ Return(FALSE)
       \/ stack[at] # 0 /\ NoFault /\ UNCHANGED <<stack, pend>> /\ Return(FALSE)
       \/ Fault /\ UNCHANGED <<stack, pend>> /\ Return(TRUE)
    /\ UNCHANGED <<hcVars, cached, release, uids, restarts>>

\* ensureAdapterDeployment: only the image of an existing one is updated.
EnsureDeployment ==
    /\ pc = "ensure" /\ at = Deployment
    /\ \/ stack[at] = 0 /\ NoFault /\ Put(at, release) /\ Return(FALSE)
       \/ /\ stack[at] # 0 /\ cached[at] = release /\ NoFault
          /\ UNCHANGED <<stack, pend>> /\ Return(FALSE)
       \/ /\ stack[at] # 0 /\ cached[at] \notin {0, release} /\ pend[at] = <<>>
          /\ NoFault /\ Put(at, release) /\ Return(FALSE)
       \/ /\ \/ /\ stack[at] # 0 /\ NoFault
                /\ \/ cached[at] = 0
                   \/ cached[at] # release /\ pend[at] # <<>>
             \/ Fault
          /\ UNCHANGED <<stack, pend>> /\ Return(TRUE)
    /\ UNCHANGED <<hcVars, cached, release, uids, restarts>>

-----------------------------------------------------------------------------
(* teardownAdapterStack: delete in reverse order, past failures; the first    *)
(* error is returned at the end and keeps the finalizer.                      *)

\* Mutant: the errors of the deletes are only logged.
EndTeardown_Logged(bad) ==
    pc' = "release" /\ at' = 0 /\ failed' = bad /\ UNCHANGED <<current, queued>>

EndTeardown(bad) ==
    \/ bad /\ Return(TRUE)
    \/ ~bad /\ pc' = "release" /\ at' = 0 /\ UNCHANGED <<current, failed, queued>>

\* Mutant: the reverse loop runs one index too far.
TeardownResource_OffByOne ==
    /\ pc = "teardown" /\ NoFault
    /\ IF stack[at] = 0 THEN UNCHANGED <<stack, pend>> ELSE Put(at, 0)
    /\ \/ at >= 1 /\ at' = at - 1 /\ UNCHANGED <<pc, current, failed, queued>>
       \/ at = 0 /\ EndTeardown(failed)
    /\ UNCHANGED <<hcVars, cached, release, uids, restarts>>

TeardownResource ==
    /\ pc = "teardown"
    /\ \/ /\ NoFault
          /\ IF stack[at] = 0 THEN UNCHANGED <<stack, pend>> ELSE Put(at, 0)
          /\ \/ at > 1 /\ at' = at - 1 /\ UNCHANGED <<pc, current, failed, queued>>
             \/ at = 1 /\ EndTeardown(failed)
       \/ /\ Fault
          /\ UNCHANGED <<stack, pend>>
          /\ \/ /\ at > 1 /\ at' = at - 1 /\ failed' = TRUE
                /\ UNCHANGED <<pc, current, queued>>
             \/ at = 1 /\ EndTeardown(TRUE)
    /\ UNCHANGED <<hcVars, cached, release, uids, restarts>>

\* Mutant: a failed Update is not an error.
RemoveFinalizer_NoRetry ==
    /\ pc = "release"
    /\ \/ current /\ NoFault /\ PutHubConfig(None)
       \/ ~current /\ NoFault /\ UNCHANGED <<hc, hcPend>>
       \/ current /\ Fault /\ UNCHANGED <<hc, hcPend>>
    /\ Return(FALSE)
    /\ UNCHANGED <<hcCache, stackVars, release, uids, restarts>>

RemoveFinalizer ==
    /\ pc = "release"
    /\ \/ current /\ NoFault /\ PutHubConfig(None) /\ Return(FALSE)
       \/ /\ \/ ~current /\ NoFault
             \/ current /\ Fault
          /\ UNCHANGED <<hc, hcPend>> /\ Return(TRUE)
    /\ UNCHANGED <<hcCache, stackVars, release, uids, restarts>>

-----------------------------------------------------------------------------
(* restartAdapterDeployment, called by SpokeCluster reconciles whenever the   *)
(* target set changes: a cached read and an Update of the pod template.       *)

\* Mutant: the Deployment is written without a resourceVersion.
RestartAdapterDeployment_Apply ==
    /\ restarts < MaxRestarts
    /\ restarts' = restarts + 1
    /\ cached[Deployment] # 0
    /\ Put(Deployment, cached[Deployment])
    /\ UNCHANGED <<hcVars, cached, release, queued, runVars, uids, faults>>

RestartAdapterDeployment ==
    /\ restarts < MaxRestarts
    /\ restarts' = restarts + 1
    /\ cached[Deployment] # 0 /\ pend[Deployment] = <<>>
    /\ Put(Deployment, cached[Deployment])
    /\ UNCHANGED <<hcVars, cached, release, queued, runVars, uids, faults>>

-----------------------------------------------------------------------------
(* The administrator and the operator's own restarts.                         *)

Outdate == current' = FALSE /\ UNCHANGED <<pc, at, failed>>

AdminCreate ==
    /\ hc = None /\ uids < MaxUid
    /\ uids' = uids + 1
    /\ PutHubConfig([uid |-> uids + 1, edit |-> 0, deleting |-> FALSE,
                     finalizer |-> FALSE])
    /\ Outdate
    /\ UNCHANGED <<hcCache, stackVars, release, queued, restarts, faults>>

AdminEdit ==
    /\ hc # None /\ hc.edit < MaxEdit
    /\ PutHubConfig([hc EXCEPT !.edit = @ + 1])
    /\ Outdate
    /\ UNCHANGED <<hcCache, stackVars, release, queued, uids, restarts, faults>>

AdminDelete ==
    /\ hc # None /\ ~hc.deleting
    /\ PutHubConfig(IF hc.finalizer THEN [hc EXCEPT !.deleting = TRUE] ELSE None)
    /\ Outdate
    /\ UNCHANGED <<hcCache, stackVars, release, queued, uids, restarts, faults>>

\* The operator dies, or is replaced by a newer release, and starts again.
StartOver(newRelease) ==
    /\ release' = newRelease
    /\ pc' = "idle" /\ at' = 0 /\ current' = FALSE /\ failed' = FALSE
    /\ hcCache' = hc /\ hcPend' = <<>>
    /\ cached' = stack /\ pend' = [r \in Resources |-> <<>>]
    /\ queued' = (hc # None)
    /\ UNCHANGED <<hc, stack, uids, restarts>>

Crash == Fault /\ StartOver(release)

Upgrade == release < MaxRelease /\ StartOver(release + 1) /\ NoFault

-----------------------------------------------------------------------------
Reconciler ==
    \/ ReconcileNothing \/ AddFinalizer \/ StartEnsure \/ StartTeardown
    \/ EnsureResource \/ EnsureDeployment
    \/ TeardownResource \/ RemoveFinalizer

Informers == SyncHubConfig \/ \E r \in Resources : Sync(r)

Surroundings ==
    \/ RestartAdapterDeployment
    \/ AdminCreate \/ AdminEdit \/ AdminDelete
    \/ Crash \/ Upgrade

Next == Reconciler \/ Informers \/ Surroundings

\* The worker and every informer keep running; nothing else is assumed.
Fairness ==
    /\ WF_vars(Reconciler)
    /\ WF_vars(SyncHubConfig)
    /\ \A r \in Resources : WF_vars(Sync(r))

Spec == Init /\ [][Next]_vars /\ Fairness

-----------------------------------------------------------------------------
(* Properties.                                                                *)

Standing(r) == stack[r] # 0

\* No part of the adapter stack, whose ClusterRole reads across the hub,
\* outlives the HubConfig: while one stands, a HubConfig with the cleanup
\* finalizer does, through stale caches, restarts of the Deployment by
\* SpokeCluster reconciles, failed deletes and crashes half way.
StackUnderFinalizer ==
    (\E r \in Resources : Standing(r)) => hc # None /\ hc.finalizer

\* An adapter of a HubConfig that is not being deleted runs with its
\* ServiceAccount, RBAC and ConfigMap complete: the Deployment is created last
\* and a teardown is never left half done for the next HubConfig to find.
AdapterIsEquipped ==
    hc # None /\ ~hc.deleting /\ Standing(Deployment)
        => \A r \in Resources : Standing(r)

UpToDate(r) == stack[r] = release

\* A reconciler at rest has nothing left to do: when no run is under way, none
\* is queued and no event of the HubConfig is on its way, the whole stack
\* stands, up to date, for a HubConfig that stays, or there is neither.  What
\* failed, conflicted, was read too early or was cut short by a crash or an
\* upgrade has left an event or a retry behind.
RestIsSettled ==
    pc = "idle" /\ ~queued /\ hcPend = <<>>
        => IF hc = None THEN \A r \in Resources : ~Standing(r)
           ELSE /\ ~hc.deleting
                /\ \A r \in Resources : Standing(r)
                /\ \A r \in Updated \cup {Deployment} : UpToDate(r)

\* A deleted HubConfig goes away, with the whole stack, whatever conflicts,
\* failed deletes and crashes the teardown meets.
DeletionCompletes ==
    \A u \in 1..MaxUid :
        (hc # None /\ hc.uid = u /\ hc.deleting)
            ~> (/\ \A r \in Resources : ~Standing(r)
                /\ ~(hc # None /\ hc.uid = u))

\* A HubConfig that stays ends with the whole stack, its RBAC and its image
\* those of the running release, although a new release only meets the objects
\* of the old one through its caches and restarts keep changing the Deployment.
StackSettles ==
    <>[](hc # None /\ ~hc.deleting)
        => <>[](/\ \A r \in Resources : Standing(r)
                /\ \A r \in Updated \cup {Deployment} : UpToDate(r))
=============================================================================

------------------------------ MODULE SpokeAccess ------------------------------
(***************************************************************************)
(* The objects the hub keeps on one spoke and the adapter token that       *)
(* depends on them, hour by hour: provisioner.Provision, ProvisionAdapter  *)
(* and their reverses object by object (internal/provisioner), the choice  *)
(* between the stored token and a new one, and the Secret the alerts       *)
(* adapter reads (internal/controller/spokecluster_controller.go,          *)
(* internal/credential/adapter.go).  SpokeController has the same run with *)
(* these objects drawn together and with the caches of the SpokeCluster    *)
(* and the standing kubeconfig, which are current here: the SpokeCluster   *)
(* is managed or not, and of its conditions only Connected decides when a  *)
(* run follows.                                                            *)
(*                                                                         *)
(* Nothing reconciles a managed spoke that stays as it is but the resync   *)
(* of the HubConfig informer, whose period is drawn around 10 hours when   *)
(* the operator starts, and a change of Connected.  A run that finds the   *)
(* spoke unreachable is not retried: the health handler sees the spoke     *)
(* return.  The token lives 24 hours and ends early with the               *)
(* ServiceAccount it was made for.  Runs, health checks, caches and        *)
(* namespace deletions take less than an hour.                             *)
(***************************************************************************)
EXTENDS Integers, Sequences

CONSTANTS
    None,        \* no such Secret
    Periods,     \* resync periods of this instance, in hours
    MaxEvents    \* bound: changes of mode, outages, failed calls, crashes

ASSUME AccessAssumption ==
    /\ Periods \subseteq Nat \ {0} /\ Periods # {}
    /\ MaxEvents \in Nat

Lifetime == 24

\* A token: whether its ServiceAccount still exists, and its hours left.
Tokens == [live : BOOLEAN, left : 0..Lifetime]

ASSUME NoTokenAssumption == None \notin Tokens

MaybeToken == Tokens \cup {None}

\* Creation order of Provision and ProvisionAdapter.
Creations == <<"namespace", "agent", "readerBinding", "viewBinding",
               "adapter", "adapterBinding">>

\* Deletion order of DeprovisionAdapter and Deprovision.
Deletions == <<"adapterBinding", "adapter", "viewBinding", "readerBinding",
               "agent", "namespace">>

Objects == {"namespace", "agent", "readerBinding", "viewBinding", "adapter",
            "adapterBinding"}

\* ServiceAccounts in the managed namespace; the bindings are outside it.
InNamespace == {"agent", "adapter"}

VARIABLES
    managed,           \* the SpokeCluster's source matches the HubConfig
    up,                \* the spoke API server answers
    standing,          \* the standing kubeconfig exists
    have, terminating, \* objects on the spoke; its namespace is going away
    cred, credCache,   \* token in the adapter credential Secret, and cached
    pc, i, token,      \* run: step, next object, token it will store
    connected,         \* status of the Connected condition
    hnew,              \* health handler: the status it is about to write
    queued,            \* the key is in the workqueue
    period, due,       \* resync period, and hours to the next resync
    events             \* bounded counter

spokeVars == <<have, terminating>>
credVars  == <<cred, credCache>>
runVars   == <<pc, i, token>>
timeVars  == <<period, due>>

vars == <<managed, up, standing, spokeVars, credVars, runVars, connected, hnew,
          queued, timeVars, events>>

TypeOK ==
    /\ managed \in BOOLEAN /\ up \in BOOLEAN
    /\ standing \in BOOLEAN /\ queued \in BOOLEAN
    /\ have \subseteq Objects /\ terminating \in BOOLEAN
    /\ terminating => "namespace" \in have
    /\ cred \in MaybeToken /\ credCache \in MaybeToken /\ token \in MaybeToken
    /\ pc \in {"idle", "probe", "provision", "token", "write", "status",
              "deprovision", "forget", "forgetAdapter"}
    /\ i \in 0..6
    /\ pc \in {"provision", "deprovision"} <=> i # 0
    /\ pc = "write" <=> token # None
    /\ connected \in {"absent", "True", "False"} /\ hnew \in {"-", "True", "False"}
    /\ period \in Periods /\ due \in 0..period
    /\ events \in 0..MaxEvents

Init ==
    /\ managed = TRUE /\ up = TRUE /\ standing = FALSE
    /\ have = {} /\ terminating = FALSE
    /\ cred = None /\ credCache = None
    /\ pc = "idle" /\ i = 0 /\ token = None
    /\ connected = "absent" /\ hnew = "-" /\ queued = TRUE
    /\ period \in Periods /\ due \in 0..period
    /\ events = 0

Fault == events < MaxEvents /\ events' = events + 1

NoFault == events' = events

\* The run ends with Connected as c; an error puts the key back, and so does
\* the watch when the status of Connected has changed.
Return(error, c) ==
    /\ pc' = "idle" /\ i' = 0 /\ token' = None
    /\ connected' = c
    /\ queued' = (queued \/ error \/ connected # c)

\* failWithCondition: the error is returned, also when the status cannot be
\* written.
FailWith(c) ==
    \/ NoFault /\ Return(TRUE, c)
    \/ Fault /\ Return(TRUE, connected)

\* A call fails that need not have, and perhaps the status patch as well.
FaultWith(c) == Fault /\ (Return(TRUE, c) \/ Return(TRUE, connected))

\* A call the spoke does not answer, or not in time.
Unanswered == (NoFault /\ ~up) \/ (Fault /\ up)

GoOn(step) == pc' = step /\ UNCHANGED <<queued, connected>>

-----------------------------------------------------------------------------
(* A run on a managed spoke.                                                *)

\* Credentials are read and the standing kubeconfig is stored and loaded.
StartProvision ==
    /\ pc = "idle" /\ queued /\ managed
    /\ \/ /\ NoFault /\ standing' = TRUE
          /\ pc' = "probe" /\ queued' = FALSE
          /\ UNCHANGED <<i, token, connected>>
       \/ standing' \in {standing, TRUE} /\ FaultWith("False")
    /\ UNCHANGED <<managed, up, spokeVars, credVars, hnew, timeVars>>

\* handleConnectivityFailure returns no error once the status is written: the
\* run is not retried.
CheckConnectivity ==
    /\ pc = "probe"
    /\ \/ NoFault /\ up /\ GoOn("provision") /\ i' = 1 /\ UNCHANGED token
       \/ Unanswered /\ Return(FALSE, "False")
       \/ Fault /\ ~up /\ Return(TRUE, connected)
    /\ UNCHANGED <<managed, up, standing, spokeVars, credVars, hnew, timeVars>>

\* What is there already counts as created.  Nothing is admitted into a
\* namespace that is missing or going away.
Creatable(o) == o \in InNamespace => "namespace" \in have /\ ~terminating

\* Mutant: an object that exists is an error.
CreateNext_NotIdempotent ==
    /\ pc = "provision"
    /\ \/ /\ NoFault /\ up /\ Creatable(Creations[i]) /\ Creations[i] \notin have
          /\ have' = have \cup {Creations[i]}
          /\ IF i = 6 THEN GoOn("token") /\ i' = 0 ELSE GoOn(pc) /\ i' = i + 1
          /\ UNCHANGED token
       \/ /\ ~(up /\ Creatable(Creations[i]) /\ Creations[i] \notin have)
          /\ FailWith("True") /\ UNCHANGED have
       \/ FaultWith("True") /\ UNCHANGED have
    /\ UNCHANGED <<managed, up, standing, terminating, credVars, hnew, timeVars>>

\* The first error ends the run.
CreateNext ==
    /\ pc = "provision"
    /\ \/ /\ NoFault /\ up /\ Creatable(Creations[i])
          /\ have' = have \cup {Creations[i]}
          /\ IF i = 6 THEN GoOn("token") /\ i' = 0 ELSE GoOn(pc) /\ i' = i + 1
          /\ UNCHANGED token
       \/ /\ ~(up /\ Creatable(Creations[i]))
          /\ FailWith("True") /\ UNCHANGED have
       \/ FaultWith("True") /\ UNCHANGED have
    /\ UNCHANGED <<managed, up, standing, terminating, credVars, hnew, timeVars>>

\* Mutant: a token is kept until it has expired.
Reusable_UntilExpiry(t) == t # None /\ t.left > 0

\* More than a fifth of the lifetime is left.
Reusable(t) == t # None /\ 5 * t.left > Lifetime

NewToken == [live |-> TRUE, left |-> Lifetime]

\* Mutant: a failed token request is not noticed.
resolveAdapterToken_IgnoreError ==
    /\ pc = "token"
    /\ \/ /\ NoFault /\ up
          /\ token' = (IF Reusable(credCache) THEN credCache ELSE NewToken)
       \/ Unanswered /\ UNCHANGED token
    /\ GoOn("write") /\ UNCHANGED i
    /\ UNCHANGED <<managed, up, standing, spokeVars, credVars, hnew, timeVars>>

\* The token in the cached Secret, or a new one for the adapter account; then
\* the spoke is asked for its Alertmanager.
resolveAdapterToken ==
    /\ pc = "token"
    /\ \/ /\ NoFault /\ up /\ (Reusable(credCache) \/ "adapter" \in have)
          /\ token' = (IF Reusable(credCache) THEN credCache ELSE NewToken)
          /\ GoOn("write") /\ UNCHANGED i
       \/ /\ ~(up /\ (Reusable(credCache) \/ "adapter" \in have))
          /\ FailWith("True")
       \/ FaultWith("True")
    /\ UNCHANGED <<managed, up, standing, spokeVars, credVars, hnew, timeVars>>

\* Create, or update the cached version if it differs.  Where the live Secret
\* is not the cached one the Update conflicts.
ensureAdapterCredentialSecret ==
    /\ pc = "write"
    /\ \/ /\ NoFault
          /\ \/ cred = None /\ cred' = token
             \/ cred # None /\ credCache = token /\ UNCHANGED cred
             \/ cred # None /\ credCache = cred /\ cred' = token
          /\ GoOn("status") /\ token' = None /\ UNCHANGED i
       \/ /\ cred # None /\ credCache \notin {cred, token}
          /\ FailWith("True") /\ UNCHANGED cred
       \/ FaultWith("True") /\ UNCHANGED cred
    /\ UNCHANGED <<managed, up, standing, spokeVars, credCache, hnew, timeVars>>

\* The label, the restart of the adapter and the conditions.
FinishProvision ==
    /\ pc = "status"
    /\ \/ NoFault /\ Return(FALSE, "True")
       \/ FaultWith("True")
    /\ UNCHANGED <<managed, up, standing, spokeVars, credVars, hnew, timeVars>>

-----------------------------------------------------------------------------
(* A run on a spoke that is not managed, or no longer.                      *)

Killed(t) == IF t = None THEN None ELSE [t EXCEPT !.live = FALSE]

\* Tokens end with the adapter's ServiceAccount.
Remove(objects) ==
    /\ have' = have \ objects
    /\ IF "adapter" \in objects \cap have
       THEN cred' = Killed(cred) /\ credCache' = Killed(credCache)
            /\ token' = Killed(token)
       ELSE UNCHANGED <<cred, credCache, token>>

\* Without a standing kubeconfig, or when it cannot be read, the spoke is not
\* contacted.
StartCleanup ==
    /\ pc = "idle" /\ queued /\ ~managed
    /\ queued' = FALSE
    /\ \/ NoFault /\ standing /\ pc' = "deprovision" /\ i' = 1
       \/ ((NoFault /\ ~standing) \/ Fault) /\ pc' = "forget" /\ UNCHANGED i
    /\ UNCHANGED <<managed, up, standing, spokeVars, credVars, token, connected,
                   hnew, timeVars>>

\* Every object is tried, whatever became of the one before.
DeleteNext ==
    /\ pc = "deprovision"
    /\ \/ /\ NoFault /\ up /\ Deletions[i] # "namespace"
          /\ Remove({Deletions[i]}) /\ UNCHANGED terminating
       \/ /\ NoFault /\ up /\ Deletions[i] = "namespace"
          /\ IF "namespace" \in have THEN terminating' = TRUE ELSE UNCHANGED terminating
          /\ UNCHANGED <<have, credVars, token>>
       \/ Unanswered /\ UNCHANGED <<spokeVars, credVars, token>>
    /\ IF i = 6 THEN GoOn("forget") /\ i' = 0 ELSE GoOn(pc) /\ i' = i + 1
    /\ UNCHANGED <<managed, up, standing, hnew, timeVars>>

\* The standing kubeconfig goes; a failure is logged.
ForgetStanding ==
    /\ pc = "forget"
    /\ \/ NoFault /\ standing' = FALSE
       \/ Fault /\ UNCHANGED standing
    /\ GoOn("forgetAdapter")
    /\ UNCHANGED <<managed, up, spokeVars, credVars, i, token, hnew, timeVars>>

\* So does the adapter credential, and unmanageSpoke drops Connected.
ForgetCredential ==
    /\ pc = "forgetAdapter"
    /\ \/ NoFault /\ cred' = None /\ Return(FALSE, "absent")
       \/ Fault /\ UNCHANGED cred /\ Return(FALSE, "absent")
       \/ Fault /\ cred' = None /\ Return(TRUE, connected)
    /\ UNCHANGED <<managed, up, standing, spokeVars, credCache, hnew, timeVars>>

Reconcile ==
    \/ StartProvision \/ CheckConnectivity \/ CreateNext \/ resolveAdapterToken
    \/ ensureAdapterCredentialSecret \/ FinishProvision
    \/ StartCleanup \/ DeleteNext \/ ForgetStanding \/ ForgetCredential

-----------------------------------------------------------------------------
(* The health handler.                                                      *)

Answer == IF up THEN "True" ELSE "False"

\* A spoke with a standing kubeconfig is probed; a change is to be written.
CheckSpoke ==
    /\ hnew = "-" /\ standing /\ connected # Answer
    /\ hnew' = Answer
    /\ UNCHANGED <<managed, up, standing, spokeVars, credVars, runVars, connected,
                   queued, timeVars, events>>

PatchConnected ==
    /\ hnew # "-" /\ hnew' = "-"
    /\ \/ NoFault /\ connected' = hnew /\ queued' = (queued \/ connected # hnew)
       \/ Fault /\ UNCHANGED <<connected, queued>>
    /\ UNCHANGED <<managed, up, standing, spokeVars, credVars, runVars, timeVars>>

HealthHandler == CheckSpoke \/ PatchConnected

-----------------------------------------------------------------------------
(* Surroundings.                                                            *)

\* The spoke's namespace controller removes what the namespace holds.
FinishNamespace ==
    /\ terminating /\ terminating' = FALSE
    /\ Remove(InNamespace \cup {"namespace"})
    /\ UNCHANGED <<managed, up, standing, pc, i, connected, hnew, queued, timeVars,
                   events>>

SyncCredential ==
    /\ credCache # cred /\ credCache' = cred
    /\ UNCHANGED <<managed, up, standing, spokeVars, cred, runVars, connected, hnew,
                   queued, timeVars, events>>

Older(t) == IF t = None \/ t.left = 0 THEN t ELSE [t EXCEPT !.left = t.left - 1]

\* An hour passes.
Tick ==
    /\ pc = "idle" /\ ~queued /\ ~terminating /\ credCache = cred
    /\ hnew = "-" /\ (standing => connected = Answer)
    /\ due > 0 /\ due' = due - 1
    /\ cred' = Older(cred) /\ credCache' = Older(credCache)
    /\ UNCHANGED <<managed, up, standing, spokeVars, runVars, connected, hnew,
                   queued, period, events>>

\* Mutant: the handler ignores an update that changes nothing.
Resync_Filtered ==
    /\ due = 0 /\ due' = period
    /\ UNCHANGED <<managed, up, standing, spokeVars, credVars, runVars, connected,
                   hnew, queued, period, events>>

Resync ==
    /\ due = 0 /\ due' = period
    /\ queued' = TRUE
    /\ UNCHANGED <<managed, up, standing, spokeVars, credVars, runVars, connected,
                   hnew, period, events>>

ChangeMode ==
    /\ Fault
    /\ managed' = ~managed /\ queued' = TRUE
    /\ UNCHANGED <<up, standing, spokeVars, credVars, runVars, connected, hnew,
                   timeVars>>

SpokeUpDown ==
    /\ Fault
    /\ up' = ~up
    /\ UNCHANGED <<managed, standing, spokeVars, credVars, runVars, connected, hnew,
                   queued, timeVars>>

\* A new process lists everything and draws a new period.
Crash ==
    /\ Fault
    /\ pc' = "idle" /\ i' = 0 /\ token' = None /\ hnew' = "-" /\ queued' = TRUE
    /\ credCache' = cred
    /\ period' \in Periods /\ due' = period'
    /\ UNCHANGED <<managed, up, standing, spokeVars, cred, connected>>

Next ==
    \/ Reconcile \/ HealthHandler \/ FinishNamespace \/ SyncCredential
    \/ Tick \/ Resync \/ ChangeMode \/ SpokeUpDown \/ Crash

\* Workers work, the handler's ticker ticks, informers deliver, namespaces
\* end, time passes.
Fairness ==
    /\ WF_vars(Reconcile) /\ WF_vars(HealthHandler)
    /\ WF_vars(FinishNamespace) /\ WF_vars(SyncCredential)
    /\ WF_vars(Tick) /\ WF_vars(Resync)

Spec == Init /\ [][Next]_vars /\ Fairness

-----------------------------------------------------------------------------
(* Properties.                                                              *)

\* A run that has stored the adapter credential leaves it with more than a
\* fifth of its lifetime, however old the cached Secret it started from.
FreshAfterReconcile ==
    [][pc = "write" /\ pc' = "status"
           => cred' # None /\ 5 * cred'.left > Lifetime]_vars

\* Between runs a managed spoke that is Connected=True has a credential, and
\* the token has lost no more than the hours since the last resync from more
\* than a fifth of its lifetime.  Outages, failed calls, crashes, changes of
\* mode and the connectivity failure that is not retried leave no older token
\* waiting for the next resync behind Connected=True; behind Connected=False
\* they may.
TokenLastsFromResync ==
    managed /\ connected = "True" /\ pc = "idle" /\ ~queued
        => cred # None /\ 5 * (cred.left + period - due) > Lifetime

\* A spoke that stays managed and reachable ends with every object in place
\* and a token of the present ServiceAccount, also when it is managed again
\* while its namespace is still going away, when its last resync met an outage
\* or when a stale cache brought back the token of a deleted account; and it
\* is never again left with an expired token for good.  (Between two resyncs
\* the token may expire: run TokenExpires.)
AccessSettles ==
    <>[](managed /\ up) =>
        /\ <>[](have = Objects /\ ~terminating /\ cred # None /\ cred.live)
        /\ []<>(cred # None /\ cred.left > 0)

================================================================================

--------------------------- MODULE SpokeAccessProofs ---------------------------
(***************************************************************************)
(* Proofs about the adapter token of SpokeAccess: what a run leaves in the *)
(* credential Secret and how long that lasts, for every set of resync      *)
(* periods, every number of outages, failed calls, crashes and changes of  *)
(* mode.                                                                   *)
(***************************************************************************)
EXTENDS SpokeAccess, TLAPS

Fresh(t) == 5 * t.left > Lifetime

\* A run that is about to write carries a fresh token.
TokenIsFresh == token # None => Fresh(token)

\* A live Secret that is not the cached one was written since the last hour
\* passed, and nothing writes a token that is not fresh.
CachedOrFresh == cred # None /\ cred # credCache => Fresh(cred)

TokenInv == TokenIsFresh /\ CachedOrFresh

-----------------------------------------------------------------------------
(* Tokens.                                                                  *)

\* A token is a record of its two fields.
LEMMA TokenFields ==
    ASSUME NEW t \in Tokens
    PROVE  /\ t = [live |-> t.live, left |-> t.left]
           /\ t.live \in BOOLEAN /\ t.left \in 0..24 /\ t # None
BY NoTokenAssumption DEF Tokens, Lifetime

\* A new token is a token, and fresh.
LEMMA NewTokenFresh ==
    NewToken \in Tokens /\ Fresh(NewToken)
BY DEF NewToken, Tokens, Lifetime, Fresh

\* The end of its account changes only whether a token is live.
LEMMA KilledToken ==
    ASSUME NEW t \in MaybeToken
    PROVE  /\ Killed(t) \in MaybeToken
           /\ Killed(t) = None <=> t = None
           /\ t # None => Killed(t).left = t.left
           /\ t # None /\ Fresh(t) => Fresh(Killed(t))
<1>1. CASE t = None
    BY <1>1 DEF Killed, MaybeToken
<1>2. CASE t # None
    <2>1. t \in Tokens
        BY <1>2 DEF MaybeToken
    <2>2. Killed(t) = [live |-> FALSE, left |-> t.left]
        BY <1>2, <2>1, TokenFields DEF Killed, Tokens
    <2>3. Killed(t) \in Tokens /\ Killed(t).left = t.left
        BY <2>1, <2>2, TokenFields DEF Tokens, Lifetime
    <2> QED
        BY <1>2, <2>3, TokenFields DEF MaybeToken, Fresh
<1> QED
    BY <1>1, <1>2

\* An hour takes at most one hour off a token.
LEMMA OlderToken ==
    ASSUME NEW t \in MaybeToken
    PROVE  /\ Older(t) \in MaybeToken
           /\ t # None => Older(t) # None /\ Older(t).left >= t.left - 1
<1>1. CASE t = None \/ t.left = 0
    <2>1. t # None => t.left \in 0..24
        BY TokenFields DEF MaybeToken
    <2> QED
        BY <1>1, <2>1 DEF Older
<1>2. CASE t # None /\ t.left # 0
    <2>1. t \in Tokens
        BY <1>2 DEF MaybeToken
    <2>2. Older(t) = [live |-> t.live, left |-> t.left - 1]
        BY <1>2, <2>1, TokenFields DEF Older, Tokens
    <2>3. t.left - 1 \in 0..24
        BY <1>2, <2>1, TokenFields
    <2>4. Older(t) \in Tokens /\ Older(t).left = t.left - 1
        BY <2>1, <2>2, <2>3, TokenFields DEF Tokens, Lifetime
    <2> QED
        BY <2>3, <2>4, TokenFields DEF MaybeToken
<1> QED
    BY <1>1, <1>2

\* Both lists hold the six objects.
LEMMA Lists ==
    ASSUME NEW n \in 1..6
    PROVE  Creations[n] \in Objects /\ Deletions[n] \in Objects
<1>1. n = 1 \/ n = 2 \/ n = 3 \/ n = 4 \/ n = 5 \/ n = 6
    OBVIOUS
<1> QED
    BY <1>1 DEF Creations, Deletions, Objects

-----------------------------------------------------------------------------
(* Types.                                                                   *)

\* Removing objects keeps the types of what it touches.
LEMMA RemoveTypes ==
    ASSUME TypeOK, NEW objects, Remove(objects)
    PROVE  /\ have' \subseteq Objects
           /\ cred' \in MaybeToken /\ credCache' \in MaybeToken
           /\ token' \in MaybeToken /\ (token' = None <=> token = None)
BY KilledToken DEF TypeOK, Remove

\* However a run ends, it leaves no step, position or token behind.
LEMMA EndTypes ==
    ASSUME TypeOK, NEW c \in {"absent", "True", "False"},
           \/ Return(TRUE, c) \/ Return(FALSE, c)
           \/ FailWith(c) \/ FaultWith(c)
    PROVE  /\ pc' = "idle" /\ i' = 0 /\ token' = None
           /\ connected' \in {"absent", "True", "False"} /\ queued' \in BOOLEAN
<1>1. PICK e \in BOOLEAN, d \in {"absent", "True", "False"} : Return(e, d)
    BY DEF FailWith, FaultWith, TypeOK
<1> QED
    BY <1>1 DEF Return

\* Init establishes the types.
LEMMA InitTypes == Init => TypeOK
<1> SUFFICES ASSUME Init PROVE TypeOK
    OBVIOUS
<1>1. /\ managed \in BOOLEAN /\ up \in BOOLEAN
      /\ standing \in BOOLEAN /\ queued \in BOOLEAN
      /\ terminating \in BOOLEAN /\ (terminating => "namespace" \in have)
    BY Zenon DEF Init
<1>2. /\ cred \in MaybeToken /\ credCache \in MaybeToken /\ token \in MaybeToken
      /\ have \subseteq Objects
    BY DEF Init, MaybeToken
<1>3. /\ i \in 0..6 /\ period \in Periods /\ due \in 0..period
      /\ events \in 0..MaxEvents
    BY AccessAssumption DEF Init
<1>4. /\ pc = "idle" /\ i = 0 /\ token = None /\ connected = "absent" /\ hnew = "-"
    BY DEF Init
<1> QED
    BY <1>1, <1>2, <1>3, <1>4 DEF TypeOK

\* Every step keeps the types.
LEMMA NextTypes == TypeOK /\ [Next]_vars => TypeOK'
<1> SUFFICES ASSUME TypeOK, [Next]_vars PROVE TypeOK'
    OBVIOUS
<1> USE AccessAssumption
<1> DEFINE Statuses == {"absent", "True", "False"}
<1>0. (Fault \/ NoFault) => events' \in 0..MaxEvents
    BY DEF TypeOK, Fault, NoFault
<1>e. \A c : FailWith(c) \/ FaultWith(c) => Fault \/ NoFault
    BY DEF FailWith, FaultWith
<1>1. CASE StartProvision
    <2>1. standing' \in BOOLEAN /\ events' \in 0..MaxEvents
        BY <1>0, <1>1, <1>e DEF StartProvision, TypeOK
    <2>2. CASE pc' = "probe" /\ queued' = FALSE /\ UNCHANGED <<i, token, connected>>
        <3>1. i = 0 /\ token = None
            BY <1>1 DEF StartProvision, TypeOK
        <3>2. queued' \in BOOLEAN
            BY <2>2
        <3> QED
            BY <1>1, <2>1, <2>2, <3>1, <3>2
            DEF StartProvision, TypeOK, spokeVars, credVars, timeVars
    <2>3. CASE FaultWith("False")
        BY <1>1, <2>1, <2>3, EndTypes
        DEF StartProvision, TypeOK, spokeVars, credVars, timeVars, MaybeToken
    <2> QED
        BY <1>1, <2>2, <2>3 DEF StartProvision
<1>2. CASE CheckConnectivity
    <2>1. events' \in 0..MaxEvents
        BY <1>0, <1>2 DEF CheckConnectivity, Unanswered
    <2>2. CASE GoOn("provision") /\ i' = 1 /\ UNCHANGED token
        <3>1. token = None
            BY <1>2 DEF CheckConnectivity, TypeOK
        <3> QED
            BY <1>2, <2>1, <2>2, <3>1
            DEF CheckConnectivity, GoOn, TypeOK, spokeVars, credVars, timeVars
    <2>3. CASE Return(FALSE, "False") \/ Return(TRUE, connected)
        <3>1. /\ pc' = "idle" /\ i' = 0 /\ token' = None
              /\ connected' \in Statuses /\ queued' \in BOOLEAN
            BY <2>3, EndTypes DEF TypeOK
        <3> QED
            BY <1>2, <2>1, <3>1
            DEF CheckConnectivity, TypeOK, spokeVars, credVars, timeVars, MaybeToken
    <2> QED
        BY <1>2, <2>2, <2>3 DEF CheckConnectivity
<1>3. CASE CreateNext
    <2>1. i \in 1..6 /\ Creations[i] \in Objects /\ token = None
        BY <1>3, Lists DEF CreateNext, TypeOK
    <2>2. /\ have' \subseteq Objects /\ have \subseteq have'
          /\ events' \in 0..MaxEvents
        BY <1>0, <1>3, <1>e, <2>1 DEF CreateNext, TypeOK
    <2>3. CASE FailWith("True") \/ FaultWith("True")
        <3>1. /\ pc' = "idle" /\ i' = 0 /\ token' = None
              /\ connected' \in Statuses /\ queued' \in BOOLEAN
            BY <2>3, EndTypes
        <3> QED
            BY <1>3, <2>2, <3>1
            DEF CreateNext, TypeOK, credVars, timeVars, MaybeToken
    <2>4. CASE /\ IF i = 6 THEN GoOn("token") /\ i' = 0
                  ELSE GoOn(pc) /\ i' = i + 1
               /\ UNCHANGED token
        <3>1. /\ pc' \in {"provision", "token"} /\ i' \in 0..6
              /\ pc' = "provision" <=> i' # 0
              /\ token' = None
            BY <1>3, <2>1, <2>4 DEF CreateNext, GoOn
        <3>2. UNCHANGED <<queued, connected>>
            BY <2>4 DEF GoOn
        <3> QED
            BY <1>3, <2>2, <3>1, <3>2
            DEF CreateNext, TypeOK, credVars, timeVars, MaybeToken
    <2> QED
        BY <1>3, <2>3, <2>4 DEF CreateNext
<1>4. CASE resolveAdapterToken
    <2>1. events' \in 0..MaxEvents /\ i = 0
        BY <1>0, <1>4, <1>e DEF resolveAdapterToken, TypeOK
    <2>2. CASE FailWith("True") \/ FaultWith("True")
        BY <1>4, <2>1, <2>2, EndTypes
        DEF resolveAdapterToken, TypeOK, spokeVars, credVars, timeVars, MaybeToken
    <2>3. CASE /\ token' = (IF Reusable(credCache) THEN credCache ELSE NewToken)
               /\ GoOn("write") /\ UNCHANGED i
        <3>1. token' \in MaybeToken /\ token' # None
            BY <2>3, NewTokenFresh, TokenFields DEF TypeOK, MaybeToken, Reusable
        <3> QED
            BY <1>4, <2>1, <2>3, <3>1
            DEF resolveAdapterToken, GoOn, TypeOK, spokeVars, credVars, timeVars
    <2> QED
        BY <1>4, <2>2, <2>3 DEF resolveAdapterToken
<1>5. CASE ensureAdapterCredentialSecret
    <2>1. /\ cred' \in MaybeToken /\ events' \in 0..MaxEvents /\ i = 0
        BY <1>0, <1>5, <1>e DEF ensureAdapterCredentialSecret, TypeOK
    <2>2. CASE FailWith("True") \/ FaultWith("True")
        BY <1>5, <2>1, <2>2, EndTypes
        DEF ensureAdapterCredentialSecret, TypeOK, spokeVars, timeVars, MaybeToken
    <2>3. CASE GoOn("status") /\ token' = None /\ UNCHANGED i
        BY <1>5, <2>1, <2>3
        DEF ensureAdapterCredentialSecret, GoOn, TypeOK, spokeVars, timeVars,
            MaybeToken
    <2> QED
        BY <1>5, <2>2, <2>3 DEF ensureAdapterCredentialSecret
<1>6. CASE FinishProvision
    <2>1. events' \in 0..MaxEvents
        BY <1>0, <1>6, <1>e DEF FinishProvision
    <2>2. /\ pc' = "idle" /\ i' = 0 /\ token' = None
          /\ connected' \in Statuses /\ queued' \in BOOLEAN
        BY <1>6, EndTypes DEF FinishProvision
    <2> QED
        BY <1>6, <2>1, <2>2
        DEF FinishProvision, TypeOK, spokeVars, credVars, timeVars, MaybeToken
<1>7. CASE StartCleanup
    <2>1. queued' \in BOOLEAN /\ events' \in 0..MaxEvents
        BY <1>0, <1>7 DEF StartCleanup
    <2>2. (pc' = "deprovision" /\ i' = 1) \/ (pc' = "forget" /\ i' = 0)
        BY <1>7 DEF StartCleanup, TypeOK
    <2>3. token' = token /\ token = None
        BY <1>7 DEF StartCleanup, TypeOK
    <2> QED
        BY <1>7, <2>1, <2>2, <2>3
        DEF StartCleanup, TypeOK, spokeVars, credVars, timeVars
<1>8. CASE DeleteNext
    <2>1. /\ have' \subseteq Objects /\ cred' \in MaybeToken
          /\ credCache' \in MaybeToken /\ token' \in MaybeToken
          /\ token' = None <=> token = None
        BY <1>8, RemoveTypes DEF DeleteNext, TypeOK, spokeVars, credVars
    <2>2. terminating' \in BOOLEAN /\ (terminating' => "namespace" \in have')
        <3>1. CASE Remove({Deletions[i]}) /\ Deletions[i] # "namespace"
                   /\ UNCHANGED terminating
            BY <3>1 DEF Remove, TypeOK
        <3>2. CASE terminating' = TRUE /\ "namespace" \in have /\ have' = have
            BY <3>2
        <3>3. CASE UNCHANGED spokeVars
            BY <3>3 DEF TypeOK, spokeVars
        <3> QED
            BY <1>8, <3>1, <3>2, <3>3 DEF DeleteNext, spokeVars
    <2>3. /\ pc' \in {"deprovision", "forget"} /\ i' \in 0..6
          /\ pc' = "deprovision" <=> i' # 0
          /\ UNCHANGED <<queued, connected>>
        BY <1>8 DEF DeleteNext, GoOn, TypeOK
    <2>4. token = None /\ events' \in 0..MaxEvents
        BY <1>0, <1>8 DEF DeleteNext, Unanswered, TypeOK
    <2> QED
        BY <1>8, <2>1, <2>2, <2>3, <2>4 DEF DeleteNext, TypeOK, timeVars
<1>9. CASE ForgetStanding
    <2>1. i = 0 /\ token = None /\ events' \in 0..MaxEvents
        BY <1>0, <1>9 DEF ForgetStanding, TypeOK
    <2>2. standing' \in BOOLEAN
        BY <1>9 DEF ForgetStanding, TypeOK
    <2> QED
        BY <1>9, <2>1, <2>2
        DEF ForgetStanding, GoOn, TypeOK, spokeVars, credVars, timeVars
<1>10. CASE ForgetCredential
    <2>1. cred' \in MaybeToken /\ events' \in 0..MaxEvents
        BY <1>0, <1>10 DEF ForgetCredential, TypeOK, MaybeToken
    <2>2. /\ pc' = "idle" /\ i' = 0 /\ token' = None
          /\ connected' \in Statuses /\ queued' \in BOOLEAN
        BY <1>10, EndTypes DEF ForgetCredential, TypeOK
    <2> QED
        BY <1>10, <2>1, <2>2
        DEF ForgetCredential, TypeOK, spokeVars, timeVars, MaybeToken
<1>11. CASE HealthHandler
    <2>1. /\ hnew' \in {"-", "True", "False"} /\ connected' \in Statuses
          /\ queued' \in BOOLEAN /\ events' \in 0..MaxEvents
        BY <1>0, <1>11
        DEF HealthHandler, CheckSpoke, PatchConnected, Answer, TypeOK
    <2>2. UNCHANGED <<managed, up, standing, spokeVars, credVars, runVars, timeVars>>
        BY <1>11 DEF HealthHandler, CheckSpoke, PatchConnected
    <2> QED
        BY <2>1, <2>2 DEF TypeOK, spokeVars, credVars, runVars, timeVars
<1>12. CASE FinishNamespace
    <2>1. /\ have' \subseteq Objects /\ cred' \in MaybeToken
          /\ credCache' \in MaybeToken /\ token' \in MaybeToken
          /\ token' = None <=> token = None
        BY <1>12, RemoveTypes DEF FinishNamespace
    <2> QED
        BY <1>12, <2>1 DEF FinishNamespace, TypeOK, timeVars
<1>13. CASE SyncCredential
    BY <1>13 DEF SyncCredential, TypeOK, spokeVars, runVars, timeVars
<1>14. CASE Tick
    <2>1. cred' \in MaybeToken /\ credCache' \in MaybeToken
        BY <1>14, OlderToken DEF Tick, TypeOK
    <2>2. due' \in 0..period
        BY <1>14 DEF Tick, TypeOK
    <2> QED
        BY <1>14, <2>1, <2>2 DEF Tick, TypeOK, spokeVars, runVars
<1>15. CASE Resync
    BY <1>15 DEF Resync, TypeOK, spokeVars, credVars, runVars
<1>16. CASE ChangeMode \/ SpokeUpDown
    <2>1. managed' \in BOOLEAN /\ up' \in BOOLEAN /\ queued' \in BOOLEAN
        BY <1>16, Zenon DEF ChangeMode, SpokeUpDown, TypeOK
    <2> QED
        BY <1>0, <1>16, <2>1
        DEF ChangeMode, SpokeUpDown, TypeOK, spokeVars, credVars, runVars, timeVars
<1>17. CASE Crash
    BY <1>0, <1>17 DEF Crash, TypeOK, spokeVars, MaybeToken
<1>18. CASE UNCHANGED vars
    BY <1>18 DEF vars, TypeOK, spokeVars, credVars, runVars, timeVars
<1> QED
    BY <1>1, <1>2, <1>3, <1>4, <1>5, <1>6, <1>7, <1>8, <1>9, <1>10, <1>11, <1>12,
       <1>13, <1>14, <1>15, <1>16, <1>17, <1>18
    DEF Next, Reconcile

\* Every state is well typed, for all periods and numbers of events: a run
\* holds a token exactly while it is about to write it, and a namespace that
\* is going away is still there.
THEOREM AccessTypeCorrect == Spec => []TypeOK
<1>1. Init => TypeOK
    BY InitTypes
<1>2. TypeOK /\ [Next]_vars => TypeOK'
    BY NextTypes
<1> QED
    BY <1>1, <1>2, PTL DEF Spec

-----------------------------------------------------------------------------
(* Freshness.                                                               *)

\* Removing objects leaves a fresh token fresh.
LEMMA RemoveFresh ==
    ASSUME TypeOK, TokenInv, NEW objects, Remove(objects)
    PROVE  TokenInv'
<1>1. CASE UNCHANGED <<cred, credCache, token>>
    BY <1>1 DEF TokenInv, TokenIsFresh, CachedOrFresh
<1>2. CASE /\ cred' = Killed(cred) /\ credCache' = Killed(credCache)
           /\ token' = Killed(token)
    <2>1. TokenIsFresh'
        BY <1>2, KilledToken DEF TypeOK, TokenInv, TokenIsFresh
    <2>2. CachedOrFresh'
        BY <1>2, KilledToken DEF TypeOK, TokenInv, CachedOrFresh
    <2> QED
        BY <2>1, <2>2 DEF TokenInv
<1> QED
    BY <1>1, <1>2 DEF Remove

\* A run that ends carries no token any more.
LEMMA EndToken ==
    ASSUME NEW c,
           Return(TRUE, c) \/ Return(FALSE, c) \/ FailWith(c) \/ FaultWith(c)
    PROVE  pc' = "idle" /\ token' = None
BY DEF FailWith, FaultWith, Return

\* Every step keeps the token of a run fresh and a Secret the cache has not
\* seen yet as well.
LEMMA NextFresh == TypeOK /\ TokenInv /\ [Next]_vars => TokenInv'
<1> SUFFICES ASSUME TypeOK, TokenInv, [Next]_vars PROVE TokenInv'
    OBVIOUS
<1> USE DEF TokenInv, TokenIsFresh, CachedOrFresh
<1>1. CASE \/ StartProvision \/ CheckConnectivity \/ CreateNext \/ FinishProvision
           \/ StartCleanup \/ ForgetStanding
    <2>1. UNCHANGED <<cred, credCache>>
        BY <1>1 DEF StartProvision, CheckConnectivity, CreateNext, FinishProvision,
                    StartCleanup, ForgetStanding, credVars
    <2>2. token' \in {token, None}
        BY <1>1, EndToken
        DEF StartProvision, CheckConnectivity, CreateNext, FinishProvision,
            StartCleanup, ForgetStanding
    <2> QED
        BY <2>1, <2>2
<1>2. CASE resolveAdapterToken
    <2>1. token' # None => Fresh(token')
        BY <1>2, NewTokenFresh, EndToken
        DEF resolveAdapterToken, Reusable, Fresh
    <2> QED
        BY <1>2, <2>1 DEF resolveAdapterToken, credVars
<1>3. CASE ensureAdapterCredentialSecret
    <2>1. token # None /\ token' = None /\ credCache' = credCache
        BY <1>3, EndToken DEF ensureAdapterCredentialSecret, TypeOK
    <2>2. cred' \in {cred, token}
        BY <1>3 DEF ensureAdapterCredentialSecret
    <2> QED
        BY <2>1, <2>2
<1>4. CASE DeleteNext
    BY <1>4, RemoveFresh DEF DeleteNext, spokeVars, credVars
<1>5. CASE FinishNamespace
    BY <1>5, RemoveFresh DEF FinishNamespace
<1>6. CASE ForgetCredential
    BY <1>6, EndToken DEF ForgetCredential
<1>7. CASE SyncCredential \/ Crash
    BY <1>7 DEF SyncCredential, Crash, runVars
<1>8. CASE Tick
    BY <1>8 DEF Tick, runVars
<1>9. CASE HealthHandler \/ Resync \/ ChangeMode \/ SpokeUpDown
    BY <1>9 DEF HealthHandler, CheckSpoke, PatchConnected, Resync, ChangeMode,
                SpokeUpDown, credVars, runVars
<1>10. CASE UNCHANGED vars
    BY <1>10 DEF vars, credVars, runVars
<1> QED
    BY <1>1, <1>2, <1>3, <1>4, <1>5, <1>6, <1>7, <1>8, <1>9, <1>10
    DEF Next, Reconcile

\* A run that goes on from its write leaves a fresh token, written or found.
LEMMA WriteLeavesFresh ==
    ASSUME TypeOK, TokenInv, ensureAdapterCredentialSecret, pc' = "status"
    PROVE  cred' # None /\ Fresh(cred')
<1>1. token # None /\ Fresh(token)
    BY DEF ensureAdapterCredentialSecret, TypeOK, TokenInv, TokenIsFresh
<1>2. \/ cred' = token
      \/ cred' = cred /\ cred # None /\ credCache = token
    BY EndToken DEF ensureAdapterCredentialSecret
<1> QED
    BY <1>1, <1>2 DEF TokenInv, CachedOrFresh

\* However far the cached Secret is behind, and whatever failed before, a run
\* that has stored the adapter credential leaves a token with more than a
\* fifth of its lifetime: it wrote a fresh one, or found its fresh one in a
\* Secret it need not write.
THEOREM RunsLeaveFreshTokens == Spec => FreshAfterReconcile
<1>1. Init => TypeOK /\ TokenInv
    BY InitTypes DEF Init, TokenInv, TokenIsFresh, CachedOrFresh
<1>2. TypeOK /\ TokenInv /\ [Next]_vars => (TypeOK /\ TokenInv)'
    BY NextTypes, NextFresh
<1>3. TypeOK /\ TokenInv /\ [Next]_vars
          => [pc = "write" /\ pc' = "status"
                  => cred' # None /\ 5 * cred'.left > Lifetime]_vars
    <2> SUFFICES ASSUME TypeOK, TokenInv, [Next]_vars,
                        pc = "write", pc' = "status"
                 PROVE  cred' # None /\ 5 * cred'.left > Lifetime
        BY DEF vars
    <2>1. ensureAdapterCredentialSecret
        BY DEF Next, Reconcile, HealthHandler, StartProvision, CheckConnectivity,
               CreateNext, resolveAdapterToken, FinishProvision, StartCleanup,
               DeleteNext, ForgetStanding, ForgetCredential, CheckSpoke,
               PatchConnected, FinishNamespace, SyncCredential, Tick, Resync,
               ChangeMode, SpokeUpDown, Crash, vars, runVars
    <2> QED
        BY <2>1, WriteLeavesFresh DEF Fresh
<1> QED
    BY <1>1, <1>2, <1>3, PTL DEF Spec, FreshAfterReconcile

-----------------------------------------------------------------------------
(* How long a token lasts.                                                  *)

\* The hours of a token, and of the clock, are numbers.
LEMMA Hours ==
    ASSUME TypeOK
    PROVE  /\ cred # None => cred.left \in Nat
           /\ period \in Nat /\ due \in Nat /\ due <= period
<1>1. cred # None => cred.left \in 0..24
    BY TokenFields DEF TypeOK, MaybeToken
<1>2. period \in Nat /\ due \in 0..period
    BY AccessAssumption DEF TypeOK
<1> QED
    BY <1>1, <1>2

\* Removing objects takes no hours off a token.
LEMMA RemoveLasts ==
    ASSUME TypeOK, NEW objects, Remove(objects)
    PROVE  cred # None => cred' # None /\ cred'.left = cred.left
BY KilledToken DEF Remove, TypeOK

\* The token a run has stored still has its fifth when the run writes the
\* status: no hour passes, and only the end of its account touches it.
StoredIsFresh == pc = "status" => cred # None /\ Fresh(cred)

LastingInv == StoredIsFresh /\ TokenLastsFromResync

\* A run that fails is followed by another.
LEMMA FailureFollowed ==
    ASSUME NEW c, FailWith(c) \/ FaultWith(c)
    PROVE  queued' /\ pc' = "idle"
BY DEF FailWith, FaultWith, Return

\* Every step keeps a stored token fresh until the status is written.
LEMMA NextStored ==
    TypeOK /\ TokenInv /\ StoredIsFresh /\ [Next]_vars => StoredIsFresh'
<1> SUFFICES ASSUME TypeOK, TokenInv, StoredIsFresh, [Next]_vars, pc' = "status"
             PROVE  cred' # None /\ Fresh(cred')
    BY DEF StoredIsFresh
<1>1. CASE ensureAdapterCredentialSecret
    BY <1>1, WriteLeavesFresh
<1>2. CASE Reconcile /\ ~ensureAdapterCredentialSecret
    BY <1>2, EndToken
    DEF Reconcile, StartProvision, CheckConnectivity, CreateNext,
        resolveAdapterToken, FinishProvision, StartCleanup, DeleteNext,
        ForgetStanding, ForgetCredential, GoOn
<1>3. CASE FinishNamespace
    BY <1>3, KilledToken DEF FinishNamespace, Remove, TypeOK, StoredIsFresh
<1>4. CASE Tick \/ Crash
    BY <1>4 DEF Tick, Crash, runVars
<1>5. CASE \/ HealthHandler \/ SyncCredential \/ Resync \/ ChangeMode
           \/ SpokeUpDown \/ UNCHANGED vars
    <2>1. pc' = pc /\ cred' = cred
        BY <1>5 DEF HealthHandler, CheckSpoke, PatchConnected, SyncCredential,
                    Resync, ChangeMode, SpokeUpDown, vars, credVars, runVars
    <2> QED
        BY <2>1 DEF StoredIsFresh
<1> QED
    BY <1>1, <1>2, <1>3, <1>4, <1>5 DEF Next

\* Every step keeps the token of a managed, connected spoke as young as the
\* last resync demands.  A run that ends with nothing to follow has either
\* stored a fresh token or leaves Connected other than True, a change of
\* Connected is always followed by a run, and an hour moves the token and the
\* clock alike.
LEMMA NextLasts ==
    TypeOK /\ TokenInv /\ LastingInv /\ [Next]_vars => LastingInv'
<1> SUFFICES ASSUME TypeOK, TokenInv, LastingInv, [Next]_vars PROVE LastingInv'
    OBVIOUS
<1>0. StoredIsFresh'
    BY NextStored DEF LastingInv
<1> SUFFICES ASSUME managed', connected' = "True", pc' = "idle", ~queued'
             PROVE  cred' # None /\ 5 * (cred'.left + period' - due') > Lifetime
    BY <1>0 DEF LastingInv, TokenLastsFromResync
<1> USE DEF LastingInv, TokenLastsFromResync
<1>1. CASE StartProvision \/ CreateNext \/ resolveAdapterToken
    BY <1>1, FailureFollowed DEF StartProvision, CreateNext, resolveAdapterToken, GoOn
<1>2. CASE ensureAdapterCredentialSecret
    BY <1>2, FailureFollowed DEF ensureAdapterCredentialSecret, GoOn
<1>3. CASE CheckConnectivity \/ ForgetCredential
    BY <1>3 DEF CheckConnectivity, ForgetCredential, GoOn, Return
<1>4. CASE FinishProvision
    <2>1. /\ UNCHANGED <<cred, period, due>> /\ pc = "status"
        BY <1>4 DEF FinishProvision, credVars, timeVars
    <2>2. cred # None /\ 5 * cred.left > Lifetime
        BY <2>1 DEF StoredIsFresh, Fresh
    <2> QED
        BY <2>1, <2>2, Hours DEF Lifetime
<1>5. CASE StartCleanup \/ DeleteNext \/ ForgetStanding
    BY <1>5 DEF StartCleanup, DeleteNext, ForgetStanding, GoOn
<1>6. CASE FinishNamespace
    BY <1>6, RemoveLasts DEF FinishNamespace, timeVars
<1>7. CASE Tick
    <2>1. /\ pc = "idle" /\ managed /\ connected = "True" /\ ~queued
          /\ due' = due - 1 /\ period' = period /\ cred' = Older(cred)
        BY <1>7 DEF Tick, runVars
    <2>2. cred # None => cred' # None /\ cred'.left >= cred.left - 1
        BY <2>1, OlderToken DEF TypeOK
    <2>3. TypeOK'
        BY NextTypes
    <2>4. cred' # None => cred'.left \in Nat
        BY <2>3, TokenFields DEF TypeOK, MaybeToken
    <2> QED
        BY <2>1, <2>2, <2>4, Hours DEF Lifetime
<1>8. CASE Resync \/ ChangeMode \/ Crash
    BY <1>8 DEF Resync, ChangeMode, Crash
<1>9. CASE HealthHandler \/ SyncCredential \/ SpokeUpDown \/ UNCHANGED vars
    <2>1. UNCHANGED <<managed, pc, cred, period, due>>
        BY <1>9 DEF HealthHandler, CheckSpoke, PatchConnected, SyncCredential,
                    SpokeUpDown, vars, credVars, runVars, timeVars
    <2>2. connected = "True" /\ ~queued
        <3>1. CASE PatchConnected
            <4>1. CASE connected' = hnew /\ queued' = (queued \/ connected # hnew)
                <5>1. ~queued /\ connected = hnew
                    BY <4>1, Zenon
                <5> QED
                    BY <4>1, <5>1
            <4>2. CASE UNCHANGED <<connected, queued>>
                BY <4>2
            <4> QED
                BY <3>1, <4>1, <4>2 DEF PatchConnected
        <3>2. CASE ~PatchConnected
            <4>1. UNCHANGED <<connected, queued>>
                BY <1>9, <3>2
                DEF HealthHandler, CheckSpoke, SyncCredential, SpokeUpDown, vars
            <4> QED
                BY <4>1
        <3> QED
            BY <3>1, <3>2
    <2> QED
        BY <2>1, <2>2
<1> QED
    BY <1>1, <1>2, <1>3, <1>4, <1>5, <1>6, <1>7, <1>8, <1>9 DEF Next, Reconcile

\* For all resync periods, outages, failures, crashes and changes of mode:
\* between runs a managed spoke that is Connected=True has a credential, and
\* what it has lost of the fifth of its lifetime the last run left it is at
\* most the time since the resync.
THEOREM TokenAlwaysLastsFromResync == Spec => []TokenLastsFromResync
<1>1. Init => TypeOK /\ TokenInv /\ LastingInv
    BY InitTypes
    DEF Init, TokenInv, TokenIsFresh, CachedOrFresh, LastingInv, StoredIsFresh,
        TokenLastsFromResync
<1>2. TypeOK /\ TokenInv /\ LastingInv /\ [Next]_vars
          => (TypeOK /\ TokenInv /\ LastingInv)'
    BY NextTypes, NextFresh, NextLasts
<1>3. LastingInv => TokenLastsFromResync
    BY DEF LastingInv
<1> QED
    BY <1>1, <1>2, <1>3, PTL DEF Spec
=============================================================================

------------------------- MODULE MCERegistrationProofs -------------------------
(***************************************************************************)
(* For every set of clusters and every value of the bounds: discovery and  *)
(* the SpokeCluster controller together keep each registration as          *)
(* Registration says.  As for a single SpokeCluster, the argument is that  *)
(* a version with the finalizer that is not being deleted is in            *)
(* circulation only while the live object carries the finalizer.  Then the *)
(* types of the whole module, and that discovery leaves the spec of a      *)
(* SpokeCluster without its label alone.                                   *)
(***************************************************************************)
EXTENDS MCEDiscoveryProofs, WellFoundedInduction

\* Types of the objects and lists the argument is about.
SpokeTypes ==
    /\ sc \in [Clusters -> MaybeSpoke] /\ scCache \in [Clusters -> MaybeSpoke]
    /\ scPend \in [Clusters -> Seq(MaybeSpoke)]
    /\ versions \in [Clusters -> 0..MaxVersion]

Enrolling == {"enroll", "account", "work"}

ListTypes ==
    /\ seen \in [Clusters -> MaybeCluster] /\ existing \in [Clusters -> MaybeSpoke]
    /\ desired \in [Clusters -> Urls \cup {None}]
    /\ pc \in Enrolling => \A c \in todo : desired[c] \in Urls

SideTypes ==
    /\ kc \in [Clusters -> Kubeconfigs] /\ kcCache \in [Clusters -> Kubeconfigs]
    /\ granted \in [Clusters -> BOOLEAN] /\ run \in [Clusters -> SideSteps]

DiscoveryTypes == CompanionTypes /\ SpokeTypes /\ ListTypes /\ SideTypes

Held(c) == sc[c] # None /\ sc[c].finalizer

Backed(c, v) == v # None /\ v.finalizer /\ ~v.deleting => Held(c)

VersionsBacked ==
    \A c \in Clusters :
        /\ Backed(c, scCache[c])
        /\ \A n \in 1..Len(scPend[c]) : Backed(c, scPend[c][n])

WatchEndsLive ==
    \A c \in Clusters :
        IF scPend[c] = <<>> THEN scCache[c] = sc[c]
        ELSE scPend[c][Len(scPend[c])] = sc[c]

\* A managing run of the SpokeCluster controller has the finalizer under it.
Managing == {"mce", "secret", "grant"}

ManagedHeld == \A c \in Clusters : run[c] \in Managing => Held(c)

HeldInv == VersionsBacked /\ WatchEndsLive /\ ManagedHeld

-----------------------------------------------------------------------------
(* SpokeClusters and the versions of one.                                   *)

\* The fields of a SpokeCluster have their types.
LEMMA SpokeFields ==
    ASSUME NEW s \in Spokes
    PROVE  /\ s.finalizer \in BOOLEAN /\ s.deleting \in BOOLEAN
           /\ s.manual \in BOOLEAN /\ s.mce \in BOOLEAN /\ s.url \in Urls
           /\ s.version \in 1..MaxVersion /\ s # None
BY NoSpokeAssumption DEF Spokes

\* What a spec edit may change leaves finalizer and deletion alone.
LEMMA EditedSpoke ==
    ASSUME NEW s \in Spokes, NEW u \in Urls, NEW m \in BOOLEAN
    PROVE  LET w == [s EXCEPT !.url = u, !.mce = m] IN
           /\ w \in Spokes /\ w.finalizer = s.finalizer
           /\ w.deleting = s.deleting
BY DEF Spokes

\* So does a new version number.
LEMMA NumberedSpoke ==
    ASSUME NEW s \in Spokes, NEW n \in 1..MaxVersion
    PROVE  LET w == [s EXCEPT !.version = n] IN
           /\ w \in Spokes /\ w.finalizer = s.finalizer
           /\ w.deleting = s.deleting
BY DEF Spokes

\* And the loss of the discovery label.
LEMMA UnlabelledSpoke ==
    ASSUME NEW s \in Spokes
    PROVE  LET w == [s EXCEPT !.manual = TRUE] IN
           /\ w \in Spokes /\ w.finalizer = s.finalizer
           /\ w.deleting = s.deleting
BY DEF Spokes

\* Deletion of a finalized SpokeCluster marks it.
LEMMA MarkedSpoke ==
    ASSUME NEW s \in Spokes
    PROVE  LET w == [s EXCEPT !.deleting = TRUE] IN
           w \in Spokes /\ w.finalizer = s.finalizer /\ w.deleting
BY DEF Spokes

\* The finalizer is all that AddFinalizer adds.
LEMMA FinalizedSpoke ==
    ASSUME NEW s \in Spokes
    PROVE  LET w == [s EXCEPT !.finalizer = TRUE] IN
           w \in Spokes /\ w.finalizer /\ w.deleting = s.deleting
BY DEF Spokes

\* A SpokeCluster created by discovery or by the administrator has neither
\* finalizer nor deletion mark.
LEMMA CreatedSpoke ==
    ASSUME NEW u \in Urls, NEW m \in BOOLEAN, MaxVersion >= 1
    PROVE  /\ NewSpoke(u) \in Spokes
           /\ ~NewSpoke(u).finalizer /\ ~NewSpoke(u).deleting
           /\ LET w == [NewSpoke(u) EXCEPT !.manual = TRUE, !.mce = m] IN
              w \in Spokes /\ ~w.finalizer /\ ~w.deleting
<1>1. 1 \in 1..MaxVersion
    BY DiscoveryAssumption
<1> QED
    BY <1>1 DEF NewSpoke, Spokes

-----------------------------------------------------------------------------
(* Writes.                                                                  *)

\* What a write to a SpokeCluster may do to its registration.
Allowed(old, w) ==
    \/ /\ old # None /\ w # None
       /\ w.finalizer = old.finalizer /\ w.deleting = old.deleting
    \/ old = None /\ w # None /\ ~w.finalizer /\ ~w.deleting
    \/ /\ old # None /\ ~old.deleting /\ old.finalizer
       /\ w # None /\ w.finalizer /\ w.deleting
    \/ old # None /\ ~old.deleting /\ ~old.finalizer /\ w = None
    \/ /\ old # None /\ ~old.deleting /\ ~old.finalizer
       /\ w # None /\ ~w.deleting /\ w.finalizer

\* Put changes one SpokeCluster and its watch.
LEMMA PutTypes ==
    ASSUME SpokeTypes, NEW c \in Clusters, NEW w \in MaybeSpoke, Put(c, w)
    PROVE  /\ sc' \in [Clusters -> MaybeSpoke]
           /\ scPend' \in [Clusters -> Seq(MaybeSpoke)]
           /\ sc'[c] = w /\ scPend'[c] = Append(scPend[c], w)
           /\ \A d \in Clusters : d # c => sc'[d] = sc[d] /\ scPend'[d] = scPend[d]
BY DEF SpokeTypes, Put

\* An Append keeps what was there and ends with what was appended.
LEMMA Appended ==
    ASSUME NEW q \in Seq(MaybeSpoke), NEW w \in MaybeSpoke
    PROVE  /\ Append(q, w) # <<>>
           /\ Len(Append(q, w)) = Len(q) + 1 /\ Len(q) \in Nat
           /\ Append(q, w)[Len(q) + 1] = w
           /\ \A n \in 1..Len(q) : Append(q, w)[n] = q[n]
OBVIOUS

\* A write that leaves a held SpokeCluster held keeps the invariant.
LEMMA PutHeld ==
    ASSUME SpokeTypes, HeldInv, NEW c \in Clusters, NEW w \in MaybeSpoke, Put(c, w),
           Held(c) => w # None /\ w.finalizer,
           UNCHANGED <<scCache, run>>
    PROVE  HeldInv'
<1>1. /\ sc'[c] = w /\ scPend'[c] = Append(scPend[c], w)
      /\ \A d \in Clusters : d # c => sc'[d] = sc[d] /\ scPend'[d] = scPend[d]
    BY PutTypes
<1>2. /\ scPend[c] \in Seq(MaybeSpoke)
      /\ scPend'[c] # <<>>
      /\ Len(scPend'[c]) = Len(scPend[c]) + 1 /\ Len(scPend[c]) \in Nat
      /\ scPend'[c][Len(scPend[c]) + 1] = w
      /\ \A n \in 1..Len(scPend[c]) : scPend'[c][n] = scPend[c][n]
    BY <1>1, Appended DEF SpokeTypes
<1>3. \A d \in Clusters : Held(d) => Held(d)'
    BY <1>1 DEF Held
<1>4. VersionsBacked'
    <2> SUFFICES ASSUME NEW d \in Clusters
                 PROVE  /\ Backed(d, scCache[d])'
                        /\ \A n \in 1..Len(scPend'[d]) : Backed(d, scPend[d][n])'
        BY DEF VersionsBacked
    <2>1. Backed(d, scCache[d])'
        BY <1>3 DEF HeldInv, VersionsBacked, Backed
    <2>2. ASSUME NEW n \in 1..Len(scPend'[d]) PROVE Backed(d, scPend[d][n])'
        <3>1. CASE d # c
            BY <1>1, <1>3, <2>2, <3>1 DEF HeldInv, VersionsBacked, Backed
        <3>2. CASE d = c /\ n = Len(scPend[c]) + 1
            BY <1>1, <1>2, <3>2 DEF Backed, Held
        <3>3. CASE d = c /\ n # Len(scPend[c]) + 1
            <4>1. n \in 1..Len(scPend[c]) /\ scPend'[c][n] = scPend[c][n]
                BY <1>2, <2>2, <3>3
            <4> QED
                BY <1>3, <3>3, <4>1 DEF HeldInv, VersionsBacked, Backed
        <3> QED
            BY <3>1, <3>2, <3>3
    <2> QED
        BY <2>1, <2>2
<1>5. WatchEndsLive'
    <2> SUFFICES ASSUME NEW d \in Clusters
                 PROVE  IF scPend'[d] = <<>> THEN scCache'[d] = sc'[d]
                        ELSE scPend'[d][Len(scPend'[d])] = sc'[d]
        BY DEF WatchEndsLive
    <2>1. CASE d = c
        BY <1>1, <1>2, <2>1
    <2>2. CASE d # c
        BY <1>1, <2>2 DEF HeldInv, WatchEndsLive
    <2> QED
        BY <2>1, <2>2
<1>6. ManagedHeld'
    BY <1>3 DEF HeldInv, ManagedHeld
<1> QED
    BY <1>4, <1>5, <1>6 DEF HeldInv

\* A step that leaves the SpokeClusters alone keeps the invariant if a run
\* that begins to manage one has the finalizer under it.
LEMMA NoPutHeld ==
    ASSUME HeldInv, UNCHANGED <<sc, scCache, scPend>>,
           \A d \in Clusters : run'[d] \in Managing => run[d] \in Managing \/ Held(d)
    PROVE  HeldInv'
<1>1. \A d \in Clusters : Held(d)' <=> Held(d)
    BY DEF Held
<1>2. VersionsBacked'
    BY <1>1 DEF HeldInv, VersionsBacked, Backed
<1>3. WatchEndsLive'
    BY DEF HeldInv, WatchEndsLive
<1>4. ManagedHeld'
    BY <1>1 DEF HeldInv, ManagedHeld
<1> QED
    BY <1>2, <1>3, <1>4 DEF HeldInv

-----------------------------------------------------------------------------
(* Steps of Registration.                                                   *)

\* A registration stays where it is, is cleared, or has to be cleared again.
Turn(d) ==
    \/ Life(d)' = Life(d)
    \/ Life(d) = "leaving" /\ Life(d)' = "cleared"
    \/ Life(d) = "cleared" /\ Life(d)' = "leaving"

\* That is all that happens to it while its object stays as it is.
LEMMA SameObject ==
    ASSUME NEW d \in Clusters, sc'[d] = sc[d]
    PROVE  Turn(d)
BY DEF Turn, Life

\* A registration nothing is added to.
LEMMA Still ==
    ASSUME NEW d \in Clusters, Turn(d),
           kc'[d] # "none" => kc[d] # "none", granted'[d] => granted[d]
    PROVE  Reg(d)!Next
BY DEF Turn, Reg!Next, Reg!TakeBack, Reg!Clear, Reg!Retry, Reg!NothingNew

\* A registration that is not touched at all.
LEMMA Elsewhere ==
    ASSUME NEW d \in Clusters, sc'[d] = sc[d], kc'[d] = kc[d],
           granted'[d] = granted[d]
    PROVE  Reg(d)!Next
BY SameObject, Still

\* An allowed write is a step of the registration it is about.
LEMMA AllowedStep ==
    ASSUME NEW c \in Clusters, Allowed(sc[c], sc'[c]), scPend'[c] # <<>>,
           sc[c] # None => sc[c] \in Spokes, sc'[c] # None => sc'[c] \in Spokes,
           kc'[c] = kc[c], granted'[c] = granted[c]
    PROVE  Reg(c)!Next
<1>1. \/ Turn(c)
      \/ Life(c) = "absent" /\ Life(c)' = "open"
      \/ Life(c) = "held" /\ Life(c)' = "leaving"
      \/ Life(c) = "open" /\ Life(c)' = "absent"
      \/ Life(c) = "open" /\ Life(c)' = "held"
    BY SpokeFields DEF Allowed, Life, Turn
<1>2. CASE Turn(c)
    BY <1>2, Still
<1>3. CASE Life(c) = "absent" /\ Life(c)' = "open"
    BY <1>3 DEF Reg!Next, Reg!Register, Reg!Move
<1>4. CASE Life(c) = "held" /\ Life(c)' = "leaving"
    BY <1>4 DEF Reg!Next, Reg!Leave, Reg!Move
<1>5. CASE Life(c) = "open" /\ Life(c)' = "absent"
    BY <1>5 DEF Reg!Next, Reg!Abandon, Reg!Move
<1>6. CASE Life(c) = "open" /\ Life(c)' = "held"
    BY <1>6 DEF Reg!Next, Reg!Hold, Reg!Move
<1> QED
    BY <1>1, <1>2, <1>3, <1>4, <1>5, <1>6

Registered == \A d \in Clusters : Reg(d)!Next

\* All that a step must do.
Good == SpokeTypes' /\ HeldInv' /\ Registered

\* An allowed write is good.
LEMMA WriteStep ==
    ASSUME SpokeTypes, HeldInv, NEW c \in Clusters, NEW w \in MaybeSpoke, Put(c, w),
           Allowed(sc[c], w), UNCHANGED <<scCache, kc, granted, run>>,
           versions' \in [Clusters -> 0..MaxVersion]
    PROVE  Good
<1>1. /\ sc' \in [Clusters -> MaybeSpoke]
      /\ scPend' \in [Clusters -> Seq(MaybeSpoke)]
      /\ sc'[c] = w /\ scPend'[c] # <<>>
      /\ \A d \in Clusters : d # c => sc'[d] = sc[d]
    BY PutTypes, Appended DEF SpokeTypes
<1>2. SpokeTypes'
    BY <1>1 DEF SpokeTypes
<1>3. Held(c) => w # None /\ w.finalizer
    BY DEF Held, Allowed
<1>4. HeldInv'
    BY <1>3, PutHeld
<1>5. ASSUME NEW d \in Clusters PROVE Reg(d)!Next
    <2>1. CASE d = c
        <3>1. /\ sc[c] # None => sc[c] \in Spokes
              /\ sc'[c] # None => sc'[c] \in Spokes
            BY <1>1 DEF SpokeTypes, MaybeSpoke
        <3> QED
            BY <1>1, <2>1, <3>1, AllowedStep
    <2>2. CASE d # c
        BY <1>1, <2>2, Elsewhere
    <2> QED
        BY <2>1, <2>2
<1> QED
    BY <1>2, <1>4, <1>5 DEF Good, Registered

\* So is an allowed write of a new spec.
LEMMA WriteSpecStep ==
    ASSUME SpokeTypes, HeldInv, NEW c \in Clusters, NEW w \in Spokes, PutSpec(c, w),
           Allowed(sc[c], w), UNCHANGED <<scCache, kc, granted, run>>
    PROVE  Good
<1>1. versions[c] \in 0..MaxVersion /\ MaxVersion \in Nat
    BY DiscoveryAssumption DEF SpokeTypes
<1>2. versions[c] + 1 \in 1..MaxVersion
    BY <1>1 DEF PutSpec
<1>3. versions' \in [Clusters -> 0..MaxVersion]
    BY <1>2 DEF PutSpec, SpokeTypes
<1> DEFINE v == [w EXCEPT !.version = versions[c] + 1]
<1>4. v \in Spokes /\ v.finalizer = w.finalizer /\ v.deleting = w.deleting
    BY <1>2, NumberedSpoke
<1>5. Put(c, v)
    BY DEF PutSpec
<1> HIDE DEF v
<1>6. w # None /\ v # None
    BY <1>4, SpokeFields
<1>7. Allowed(sc[c], v)
    BY <1>4, <1>6 DEF Allowed
<1> QED
    BY <1>3, <1>4, <1>5, <1>7, WriteStep DEF MaybeSpoke

\* A step that writes no SpokeCluster and adds nothing is good.
LEMMA StillStep ==
    ASSUME SpokeTypes, HeldInv, UNCHANGED spokeVars,
           \A d \in Clusters :
               /\ kc'[d] # "none" => kc[d] # "none"
               /\ granted'[d] => granted[d]
               /\ run'[d] \in Managing => run[d] \in Managing \/ Held(d)
    PROVE  Good
<1>1. UNCHANGED <<sc, scCache, scPend, versions>>
    BY DEF spokeVars
<1>2. SpokeTypes'
    BY <1>1 DEF SpokeTypes
<1>3. HeldInv'
    BY <1>1, NoPutHeld
<1>4. \A d \in Clusters : Turn(d)
    BY <1>1, SameObject
<1> QED
    BY <1>2, <1>3, <1>4, Still DEF Good, Registered

\* A step that touches none of it.
LEMMA IdleStep ==
    ASSUME SpokeTypes, HeldInv, UNCHANGED <<spokeVars, kc, granted, run>>
    PROVE  Good
BY StillStep

\* A step that gives something to a held SpokeCluster is good.
LEMMA GiveStep ==
    ASSUME SpokeTypes, HeldInv, UNCHANGED spokeVars, NEW c \in Clusters, Held(c),
           kc[c] # "none" => kc'[c] # "none", granted[c] => granted'[c],
           \A d \in Clusters :
               d # c => kc'[d] = kc[d] /\ granted'[d] = granted[d],
           \A d \in Clusters : run'[d] \in Managing => run[d] \in Managing,
           run[c] # "release", run'[c] # "release"
    PROVE  Good
<1>1. UNCHANGED <<sc, scCache, scPend, versions>>
    BY DEF spokeVars
<1>2. SpokeTypes' /\ HeldInv'
    BY <1>1, NoPutHeld DEF SpokeTypes
<1>3. Reg(c)!Next
    <2>1. Life(c)' = Life(c) /\ Life(c) \in {"held", "leaving"}
        BY <1>1 DEF Life, Held
    <2> QED
        BY <2>1 DEF Reg!Next, Reg!Provide
<1>4. \A d \in Clusters : d # c => Reg(d)!Next
    BY <1>1, Elsewhere
<1> QED
    BY <1>2, <1>3, <1>4 DEF Good, Registered

-----------------------------------------------------------------------------
(* Discovery.                                                               *)

\* Deleting by name hits whatever is there: an open one is gone, a held one
\* leaves, one that leaves already goes on leaving.
LEMMA DeleteStep ==
    ASSUME SpokeTypes, HeldInv, NEW c \in Clusters, Delete(c),
           UNCHANGED <<kc, granted, run>>
    PROVE  Good
<1>1. UNCHANGED <<scCache, versions>>
    BY DEF Delete
<1>2. versions' \in [Clusters -> 0..MaxVersion]
    BY <1>1 DEF SpokeTypes
<1>3. CASE sc[c] = None \/ sc[c].deleting
    BY <1>1, <1>3, IdleStep DEF Delete, spokeVars
<1>4. CASE sc[c] # None /\ ~sc[c].deleting
    <2>1. sc[c] \in Spokes
        BY <1>4 DEF SpokeTypes, MaybeSpoke
    <2>2. CASE sc[c].finalizer
        <3> DEFINE w == [sc[c] EXCEPT !.deleting = TRUE]
        <3>1. w \in Spokes /\ w.finalizer /\ w.deleting /\ w # None
            BY <2>1, <2>2, MarkedSpoke, SpokeFields
        <3>2. Put(c, w)
            BY <1>4, <2>2 DEF Delete
        <3> HIDE DEF w
        <3>3. Allowed(sc[c], w)
            BY <1>4, <2>2, <3>1 DEF Allowed
        <3> QED
            BY <1>1, <1>2, <3>1, <3>2, <3>3, WriteStep DEF MaybeSpoke
    <2>3. CASE ~sc[c].finalizer
        <3>1. Put(c, None)
            BY <1>4, <2>3 DEF Delete
        <3>2. Allowed(sc[c], None)
            BY <1>4, <2>3 DEF Allowed
        <3> QED
            BY <1>1, <1>2, <3>1, <3>2, WriteStep DEF MaybeSpoke
    <2> QED
        BY <2>2, <2>3
<1> QED
    BY <1>3, <1>4

\* RestoreSpoke writes over the version it has listed, so what it restores is
\* the live object but for the fields it restores.
LEMMA RestoreStep ==
    ASSUME DiscoveryTypes, HeldInv, NEW c \in Clusters, RestoreSpoke(c)
    PROVE  Good
<1>1. UNCHANGED <<scCache, kc, granted, run>>
    BY DEF RestoreSpoke, sideVars
<1>2. CASE UNCHANGED <<sc, scPend, versions>>
    BY <1>1, <1>2, IdleStep DEF DiscoveryTypes, spokeVars
<1>3. CASE sc[c] = existing[c] /\ PutSpec(c, Restored(c))
    <2>1. desired[c] \in Urls /\ existing[c] \in Spokes
        BY DEF RestoreSpoke, DiscoveryTypes, ListTypes, Enrolling, MaybeSpoke
    <2> DEFINE w == [existing[c] EXCEPT !.url = desired[c], !.mce = TRUE]
    <2>2. /\ w \in Spokes /\ w.finalizer = existing[c].finalizer
          /\ w.deleting = existing[c].deleting
        BY <2>1, EditedSpoke
    <2>3. PutSpec(c, w)
        BY <1>3 DEF Restored
    <2> HIDE DEF w
    <2>4. Allowed(sc[c], w)
        BY <1>3, <2>1, <2>2, SpokeFields DEF Allowed
    <2> QED
        BY <1>1, <2>2, <2>3, <2>4, WriteSpecStep DEF DiscoveryTypes
<1> QED
    BY <1>2, <1>3 DEF RestoreSpoke, Collect

\* CreateSpoke creates only where nothing is.
LEMMA CreateStep ==
    ASSUME DiscoveryTypes, HeldInv, NEW c \in Clusters, CreateSpoke(c)
    PROVE  Good
<1>1. UNCHANGED <<scCache, kc, granted, run>>
    BY DEF CreateSpoke, sideVars
<1>2. CASE UNCHANGED <<sc, scPend, versions>>
    BY <1>1, <1>2, IdleStep DEF DiscoveryTypes, spokeVars
<1>3. CASE sc[c] = None /\ PutSpec(c, NewSpoke(desired[c]))
    <2>1. desired[c] \in Urls
        BY DEF CreateSpoke, DiscoveryTypes, ListTypes, Enrolling
    <2>2. versions[c] \in 0..MaxVersion /\ versions[c] < MaxVersion
        BY <1>3 DEF PutSpec, DiscoveryTypes, SpokeTypes
    <2>3. MaxVersion >= 1
        BY <2>2, DiscoveryAssumption
    <2>4. /\ NewSpoke(desired[c]) \in Spokes /\ ~NewSpoke(desired[c]).finalizer
          /\ ~NewSpoke(desired[c]).deleting
        BY <2>1, <2>3, CreatedSpoke
    <2>5. Allowed(sc[c], NewSpoke(desired[c]))
        BY <1>3, <2>4, SpokeFields DEF Allowed
    <2> QED
        BY <1>1, <1>3, <2>4, <2>5, WriteSpecStep DEF DiscoveryTypes
<1> QED
    BY <1>2, <1>3 DEF CreateSpoke, Collect, Skip

\* Every step of discovery is good.
LEMMA DiscoverGood ==
    ASSUME DiscoveryTypes, HeldInv, Discover
    PROVE  Good
<1>1. SpokeTypes
    BY DEF DiscoveryTypes
<1>2. CASE \/ StartRetire \/ StartCompanions \/ StartDiscovery \/ ListSpokes
           \/ StartPrune \/ ListAccounts \/ Finish
    BY <1>1, <1>2, IdleStep
    DEF StartRetire, StartCompanions, StartDiscovery, ListSpokes, StartPrune,
        ListAccounts, Finish, sideVars
<1>3. CASE ensureMSA \/ ensureMSARBAC \/ deleteMSARBAC
    BY <1>1, <1>3, IdleStep DEF ensureMSA, ensureMSARBAC, deleteMSARBAC, sideVars
<1>4. CASE deleteMSA
    <2>1. UNCHANGED <<spokeVars, granted, run>>
        BY <1>4 DEF deleteMSA
    <2>2. kc' = kc \/ kc' = Expired(kc, at)
        BY <1>4 DEF deleteMSA
    <2>3. \A d \in Clusters : kc'[d] # "none" => kc[d] # "none"
        BY <2>2 DEF Expired, DiscoveryTypes, SideTypes
    <2> QED
        BY <1>1, <2>1, <2>3, StillStep
<1>5. ASSUME NEW c \in Clusters, Retire(c) \/ Prune(c) PROVE Good
    <2>1. UNCHANGED <<kc, granted, run>>
        BY <1>5 DEF Retire, Prune, sideVars
    <2>2. Delete(c) \/ UNCHANGED spokeVars
        BY <1>5 DEF Retire, Prune
    <2> QED
        BY <1>1, <2>1, <2>2, DeleteStep, IdleStep
<1>6. ASSUME NEW c \in Clusters, CheckOrphan(c) \/ CheckStanding(c) PROVE Good
    BY <1>1, <1>6, IdleStep DEF CheckOrphan, CheckStanding, sideVars
<1> QED
    BY <1>2, <1>3, <1>4, <1>5, <1>6, RestoreStep, CreateStep DEF Discover

-----------------------------------------------------------------------------
(* The SpokeCluster controller.                                             *)

\* The finalizer of the latest version is removed from an object on its way
\* out: nothing that claims the finalizer is left in the watch.
LEMMA ReleaseStep ==
    ASSUME SpokeTypes, SideTypes, HeldInv, NEW c \in Clusters, RemoveFinalizer(c),
           scPend[c] = <<>>, scCache[c] # None, scCache[c].deleting, Put(c, None)
    PROVE  Good
<1>1. /\ sc[c] = scCache[c] /\ sc[c] \in Spokes /\ sc[c].deleting
    BY DEF HeldInv, WatchEndsLive, SpokeTypes, MaybeSpoke
<1>2. /\ sc' \in [Clusters -> MaybeSpoke]
      /\ scPend' \in [Clusters -> Seq(MaybeSpoke)]
      /\ sc'[c] = None /\ scPend'[c] = Append(scPend[c], None)
      /\ \A d \in Clusters : d # c => sc'[d] = sc[d] /\ scPend'[d] = scPend[d]
    BY PutTypes DEF MaybeSpoke
<1>3. UNCHANGED <<scCache, versions, kc, granted>>
    BY DEF RemoveFinalizer
<1>4. run'[c] = "idle" /\ \A d \in Clusters : d # c => run'[d] = run[d]
    BY DEF RemoveFinalizer, Step, SideTypes
<1>5. scPend'[c] # <<>> /\ Len(scPend'[c]) = 1 /\ scPend'[c][1] = None
    BY <1>2, Appended DEF SpokeTypes, MaybeSpoke
<1>6. VersionsBacked'
    <2> SUFFICES ASSUME NEW d \in Clusters
                 PROVE  /\ Backed(d, scCache[d])'
                        /\ \A n \in 1..Len(scPend'[d]) : Backed(d, scPend[d][n])'
        BY DEF VersionsBacked
    <2>1. CASE d = c
        BY <1>3, <1>5, <2>1 DEF Backed
    <2>2. CASE d # c
        BY <1>2, <1>3, <2>2 DEF HeldInv, VersionsBacked, Backed, Held
    <2> QED
        BY <2>1, <2>2
<1>7. WatchEndsLive'
    <2> SUFFICES ASSUME NEW d \in Clusters
                 PROVE  IF scPend'[d] = <<>> THEN scCache'[d] = sc'[d]
                        ELSE scPend'[d][Len(scPend'[d])] = sc'[d]
        BY DEF WatchEndsLive
    <2>1. CASE d = c
        BY <1>2, <1>5, <2>1
    <2>2. CASE d # c
        BY <1>2, <1>3, <2>2 DEF HeldInv, WatchEndsLive
    <2> QED
        BY <2>1, <2>2
<1>8. ManagedHeld'
    BY <1>2, <1>4 DEF HeldInv, ManagedHeld, Managing, Held
<1>9. Reg(c)!Next
    <2>1. Life(c) = "cleared" /\ Life(c)' = "absent"
        BY <1>1, <1>2, SpokeFields DEF Life, RemoveFinalizer
    <2> QED
        BY <1>3, <2>1 DEF Reg!Next, Reg!Release, Reg!Move
<1>10. \A d \in Clusters : d # c => Reg(d)!Next
    BY <1>2, <1>3, Elsewhere
<1> QED
    BY <1>2, <1>3, <1>6, <1>7, <1>8, <1>9, <1>10
    DEF Good, HeldInv, Registered, SpokeTypes

\* Every step of the SpokeCluster controller is good.
LEMMA ManageGood ==
    ASSUME DiscoveryTypes, HeldInv, NEW c \in Clusters, Manage(c)
    PROVE  Good
<1>1. SpokeTypes /\ SideTypes
    BY DEF DiscoveryTypes
<1>2. CASE AddFinalizer(c)
    <2>1. /\ sc[c] = scCache[c] /\ sc[c] \in Spokes /\ ~sc[c].deleting
          /\ ~sc[c].finalizer
        BY <1>1, <1>2
        DEF AddFinalizer, HeldInv, WatchEndsLive, SpokeTypes, MaybeSpoke
    <2> DEFINE w == [scCache[c] EXCEPT !.finalizer = TRUE]
    <2>2. w \in Spokes /\ w.finalizer /\ ~w.deleting
        BY <2>1, FinalizedSpoke
    <2>3. Put(c, w) /\ UNCHANGED <<scCache, kc, granted, run, versions>>
        BY <1>2 DEF AddFinalizer, sideVars
    <2> HIDE DEF w
    <2>4. Allowed(sc[c], w)
        BY <2>1, <2>2, SpokeFields DEF Allowed
    <2>5. versions' \in [Clusters -> 0..MaxVersion]
        BY <1>1, <2>3 DEF SpokeTypes
    <2> QED
        BY <1>1, <2>2, <2>3, <2>4, <2>5, WriteStep DEF MaybeSpoke
<1>3. CASE StartManage(c)
    <2>1. Held(c)
        BY <1>3 DEF StartManage, HeldInv, VersionsBacked, Backed
    <2>2. UNCHANGED <<spokeVars, kc, granted>>
          /\ \A d \in Clusters : d # c => run'[d] = run[d]
        BY <1>1, <1>3 DEF StartManage, Step, SideTypes
    <2> QED
        BY <1>1, <2>1, <2>2, StillStep
<1>4. CASE StoreKubeconfig(c)
    <2>1. Held(c)
        BY <1>4 DEF StoreKubeconfig, HeldInv, ManagedHeld, Managing
    <2>2. UNCHANGED <<spokeVars, granted>>
        BY <1>4 DEF StoreKubeconfig
    <2>3. /\ \A d \in Clusters : d # c => kc'[d] = kc[d] /\ run'[d] = run[d]
          /\ kc[c] # "none" => kc'[c] # "none"
          /\ run[c] \in Managing
        BY <1>1, <1>4 DEF StoreKubeconfig, Step, SideTypes, Managing
    <2>4. run[c] # "release" /\ run'[c] # "release"
        BY <1>1, <1>4 DEF StoreKubeconfig, Step, SideTypes
    <2> QED
        BY <1>1, <2>1, <2>2, <2>3, <2>4, GiveStep
<1>5. CASE Provision(c)
    <2>1. Held(c)
        BY <1>5 DEF Provision, HeldInv, ManagedHeld, Managing
    <2>2. UNCHANGED <<spokeVars, kc>>
        BY <1>5 DEF Provision
    <2>3. /\ \A d \in Clusters : d # c => granted'[d] = granted[d]
          /\ granted[c] => granted'[c]
        BY <1>1, <1>5 DEF Provision, SideTypes
    <2>4. \A d \in Clusters : run'[d] \in Managing => run[d] \in Managing
        BY <1>1, <1>5 DEF Provision, Step, SideTypes, Managing
    <2>5. run[c] # "release" /\ run'[c] # "release"
        BY <1>1, <1>5 DEF Provision, Step, SideTypes
    <2> QED
        BY <1>1, <2>1, <2>2, <2>3, <2>4, <2>5, GiveStep
<1>6. CASE StartCleanup(c)
    <2>1. UNCHANGED <<spokeVars, kc, granted>>
        BY <1>6 DEF StartCleanup
    <2>2. \A d \in Clusters : run'[d] \in Managing => run[d] \in Managing
        BY <1>1, <1>6 DEF StartCleanup, Step, SideTypes, Managing
    <2> QED
        BY <1>1, <2>1, <2>2, StillStep
<1>7. CASE Deprovision(c)
    <2>1. UNCHANGED <<spokeVars, kc>>
        BY <1>7 DEF Deprovision
    <2>2. \A d \in Clusters : run'[d] \in Managing => run[d] \in Managing
        BY <1>1, <1>7 DEF Deprovision, Step, SideTypes, Managing
    <2>3. \A d \in Clusters : granted'[d] => granted[d]
        BY <1>1, <1>7 DEF Deprovision, SideTypes
    <2> QED
        BY <1>1, <2>1, <2>2, <2>3, StillStep
<1>8. CASE ForgetKubeconfig(c)
    <2>1. UNCHANGED <<spokeVars, granted>>
        BY <1>8 DEF ForgetKubeconfig
    <2>2. \A d \in Clusters : run'[d] \in Managing => run[d] \in Managing
        BY <1>1, <1>8 DEF ForgetKubeconfig, Step, SideTypes, Managing
    <2>3. \A d \in Clusters : kc'[d] # "none" => kc[d] # "none"
        BY <1>1, <1>8 DEF ForgetKubeconfig, SideTypes
    <2> QED
        BY <1>1, <2>1, <2>2, <2>3, StillStep
<1>9. CASE RemoveFinalizer(c)
    <2>1. CASE UNCHANGED <<sc, scPend>>
        <3>1. UNCHANGED <<spokeVars, kc, granted>>
            BY <1>9, <2>1 DEF RemoveFinalizer, spokeVars
        <3>2. \A d \in Clusters : run'[d] \in Managing => run[d] \in Managing
            BY <1>1, <1>9 DEF RemoveFinalizer, Step, SideTypes, Managing
        <3> QED
            BY <1>1, <3>1, <3>2, StillStep
    <2>2. CASE /\ scPend[c] = <<>> /\ scCache[c] # None /\ scCache[c].deleting
               /\ Put(c, None)
        BY <1>1, <1>9, <2>2, ReleaseStep
    <2> QED
        BY <1>9, <2>1, <2>2 DEF RemoveFinalizer
<1> QED
    BY <1>2, <1>3, <1>4, <1>5, <1>6, <1>7, <1>8, <1>9 DEF Manage

-----------------------------------------------------------------------------
(* Informers, administrator, MCE, crashes.                                  *)

\* A delivery takes the first version; the last one stays the last, or was
\* the only one.
LEMMA DeliveredLast ==
    ASSUME NEW q \in Seq(MaybeSpoke), q # <<>>
    PROVE  /\ Tail(q) = <<>> => q[Len(q)] = q[1]
           /\ Tail(q) # <<>> => Tail(q)[Len(Tail(q))] = q[Len(q)]
<1>1. /\ Tail(q) \in Seq(MaybeSpoke) /\ Len(q) \in Nat /\ Len(q) >= 1
      /\ Len(Tail(q)) = Len(q) - 1
      /\ \A n \in 1..Len(Tail(q)) : Tail(q)[n] = q[n + 1]
    OBVIOUS
<1>2. Tail(q) = <<>> => Len(Tail(q)) = 0
    <2>1. Len(<<>>) = 0
        OBVIOUS
    <2> QED
        BY <2>1, Zenon
<1>3. Tail(q) # <<>> => Len(Tail(q)) # 0
    BY <1>1
<1>4. CASE Tail(q) = <<>>
    <2>1. Len(q) = 1
        BY <1>1, <1>2, <1>4
    <2> QED
        BY <1>4, <2>1
<1>5. CASE Tail(q) # <<>>
    <2>1. Len(Tail(q)) \in 1..Len(Tail(q)) /\ Len(Tail(q)) + 1 = Len(q)
        BY <1>1, <1>3, <1>5
    <2> QED
        BY <1>1, <1>5, <2>1
<1> QED
    BY <1>4, <1>5

\* A delivery moves one version from the watch to the cache.
LEMMA SyncGood ==
    ASSUME SpokeTypes, HeldInv, NEW c \in Clusters, SyncSpoke(c)
    PROVE  Good
<1>1. /\ scPend[c] \in Seq(MaybeSpoke) /\ scPend[c] # <<>>
      /\ scCache' = [scCache EXCEPT ![c] = Head(scPend[c])]
      /\ scPend' = [scPend EXCEPT ![c] = Tail(scPend[c])]
      /\ UNCHANGED <<sc, versions, kc, granted, run>>
    BY DEF SyncSpoke, SpokeTypes, sideVars
<1>2. /\ Head(scPend[c]) = scPend[c][1] /\ Head(scPend[c]) \in MaybeSpoke
      /\ Tail(scPend[c]) \in Seq(MaybeSpoke)
      /\ Len(scPend[c]) \in Nat /\ Len(scPend[c]) >= 1
      /\ Len(Tail(scPend[c])) = Len(scPend[c]) - 1
      /\ \A n \in 1..Len(Tail(scPend[c])) : Tail(scPend[c])[n] = scPend[c][n + 1]
    BY <1>1
<1>3. SpokeTypes'
    BY <1>1, <1>2 DEF SpokeTypes
<1>4. /\ scCache'[c] = scPend[c][1] /\ scPend'[c] = Tail(scPend[c])
      /\ \A d \in Clusters :
             d # c => scCache'[d] = scCache[d] /\ scPend'[d] = scPend[d]
    BY <1>1, <1>2 DEF SpokeTypes
<1>5. \A d \in Clusters : Held(d)' <=> Held(d)
    BY <1>1 DEF Held
<1>6. \A n \in 1..Len(scPend[c]) : Backed(c, scPend[c][n])
    BY DEF HeldInv, VersionsBacked
<1>7. VersionsBacked'
    <2> SUFFICES ASSUME NEW d \in Clusters
                 PROVE  /\ Backed(d, scCache[d])'
                        /\ \A n \in 1..Len(scPend'[d]) : Backed(d, scPend[d][n])'
        BY DEF VersionsBacked
    <2>1. CASE d # c
        BY <1>4, <1>5, <2>1 DEF HeldInv, VersionsBacked, Backed
    <2>2. CASE d = c
        <3>1. Backed(c, scPend[c][1])
            BY <1>2, <1>6
        <3>2. Backed(c, scCache[c])'
            BY <1>4, <1>5, <3>1 DEF Backed
        <3>3. ASSUME NEW n \in 1..Len(scPend'[c]) PROVE Backed(c, scPend[c][n])'
            <4>1. n + 1 \in 1..Len(scPend[c]) /\ scPend'[c][n] = scPend[c][n + 1]
                BY <1>2, <1>4, <3>3
            <4>2. Backed(c, scPend[c][n + 1])
                BY <1>6, <4>1
            <4> QED
                BY <1>5, <4>1, <4>2 DEF Backed
        <3> QED
            BY <2>2, <3>2, <3>3
    <2> QED
        BY <2>1, <2>2
<1>8. WatchEndsLive'
    <2> SUFFICES ASSUME NEW d \in Clusters
                 PROVE  IF scPend'[d] = <<>> THEN scCache'[d] = sc'[d]
                        ELSE scPend'[d][Len(scPend'[d])] = sc'[d]
        BY DEF WatchEndsLive
    <2>1. CASE d # c
        BY <1>1, <1>4, <2>1 DEF HeldInv, WatchEndsLive
    <2>2. CASE d = c
        <3>1. scPend[c][Len(scPend[c])] = sc[c]
            BY <1>1 DEF HeldInv, WatchEndsLive
        <3>2. CASE scPend'[c] = <<>>
            BY <1>1, <1>2, <1>4, <2>2, <3>1, <3>2, DeliveredLast
        <3>3. CASE scPend'[c] # <<>>
            BY <1>1, <1>4, <2>2, <3>1, <3>3, DeliveredLast
        <3> QED
            BY <3>2, <3>3
    <2> QED
        BY <2>1, <2>2
<1>9. ManagedHeld'
    BY <1>1, <1>5 DEF HeldInv, ManagedHeld
<1>10. Registered
    BY <1>1, Elsewhere DEF Registered
<1> QED
    BY <1>3, <1>7, <1>8, <1>9, <1>10 DEF Good, HeldInv

\* The administrator's writes are good.
LEMMA AdminGood ==
    ASSUME SpokeTypes, HeldInv, NEW c \in Clusters,
           AdminCreate(c) \/ AdminEdit(c) \/ AdminUnlabel(c) \/ AdminDelete(c)
    PROVE  Good
<1>1. UNCHANGED <<kc, granted, run>>
    BY DEF AdminCreate, AdminEdit, AdminUnlabel, AdminDelete, sideVars
<1>2. CASE AdminCreate(c)
    <2>1. PICK u \in Urls, m \in BOOLEAN :
              PutSpec(c, [NewSpoke(u) EXCEPT !.manual = TRUE, !.mce = m])
        BY <1>2 DEF AdminCreate
    <2>2. versions[c] \in 0..MaxVersion /\ versions[c] < MaxVersion
        BY <2>1 DEF PutSpec, SpokeTypes
    <2>3. MaxVersion >= 1
        BY <2>2, DiscoveryAssumption
    <2> DEFINE w == [NewSpoke(u) EXCEPT !.manual = TRUE, !.mce = m]
    <2>4. w \in Spokes /\ ~w.finalizer /\ ~w.deleting
        BY <2>3, CreatedSpoke
    <2>5. PutSpec(c, w)
        BY <2>1
    <2> HIDE DEF w
    <2>6. Allowed(sc[c], w) /\ scCache' = scCache
        BY <1>2, <2>4, SpokeFields DEF Allowed, AdminCreate
    <2> QED
        BY <1>1, <2>4, <2>5, <2>6, WriteSpecStep
<1>3. CASE AdminEdit(c)
    <2>1. PICK u \in Urls, m \in BOOLEAN :
              PutSpec(c, [sc[c] EXCEPT !.url = u, !.mce = m])
        BY <1>3 DEF AdminEdit
    <2>2. sc[c] \in Spokes
        BY <1>3 DEF AdminEdit, SpokeTypes, MaybeSpoke
    <2> DEFINE w == [sc[c] EXCEPT !.url = u, !.mce = m]
    <2>3. w \in Spokes /\ w.finalizer = sc[c].finalizer /\ w.deleting = sc[c].deleting
        BY <2>2, EditedSpoke
    <2>4. PutSpec(c, w)
        BY <2>1
    <2> HIDE DEF w
    <2>5. Allowed(sc[c], w) /\ scCache' = scCache
        BY <1>3, <2>2, <2>3, SpokeFields DEF Allowed, AdminEdit
    <2> QED
        BY <1>1, <2>3, <2>4, <2>5, WriteSpecStep
<1>4. CASE AdminUnlabel(c)
    <2>1. sc[c] \in Spokes
        BY <1>4 DEF AdminUnlabel, Labelled, SpokeTypes, MaybeSpoke
    <2> DEFINE w == [sc[c] EXCEPT !.manual = TRUE]
    <2>2. w \in Spokes /\ w.finalizer = sc[c].finalizer /\ w.deleting = sc[c].deleting
        BY <2>1, UnlabelledSpoke
    <2>3. Put(c, w) /\ UNCHANGED <<scCache, versions>>
        BY <1>4 DEF AdminUnlabel
    <2> HIDE DEF w
    <2>4. Allowed(sc[c], w)
        BY <2>1, <2>2, SpokeFields DEF Allowed
    <2>5. versions' \in [Clusters -> 0..MaxVersion]
        BY <2>3 DEF SpokeTypes
    <2> QED
        BY <1>1, <2>2, <2>3, <2>4, <2>5, WriteStep DEF MaybeSpoke
<1>5. CASE AdminDelete(c)
    BY <1>1, <1>5, DeleteStep DEF AdminDelete
<1> QED
    BY <1>2, <1>3, <1>4, <1>5

\* After a crash the cache is the live object and no run manages anything.
LEMMA CrashGood ==
    ASSUME SpokeTypes, HeldInv, Crash
    PROVE  Good
<1>1. /\ UNCHANGED <<sc, versions, kc, granted>>
      /\ scCache' = sc /\ scPend' = [c \in Clusters |-> <<>>]
      /\ run' = [c \in Clusters |-> "idle"]
    BY DEF Crash
<1>2. SpokeTypes'
    BY <1>1 DEF SpokeTypes
<1>3. VersionsBacked'
    BY <1>1 DEF VersionsBacked, Backed, Held
<1>4. WatchEndsLive' /\ ManagedHeld'
    BY <1>1 DEF WatchEndsLive, ManagedHeld, Managing
<1>5. Registered
    BY <1>1, Elsewhere DEF Registered
<1> QED
    BY <1>2, <1>3, <1>4, <1>5 DEF Good, HeldInv

\* Every step of the surroundings is good.
LEMMA SurroundingsGood ==
    ASSUME SpokeTypes, SideTypes, HeldInv, Surroundings
    PROVE  Good
<1>1. CASE ChangeHubConfig \/ ChangeProxy
    BY <1>1, IdleStep DEF ChangeHubConfig, ChangeProxy, sideVars
<1>2. ASSUME NEW c \in Clusters, ImportCluster(c) \/ ChangeCluster(c) PROVE Good
    BY <1>2, IdleStep DEF ImportCluster, ChangeCluster, sideVars
<1>3. ASSUME NEW c \in Clusters, RemoveCluster(c) PROVE Good
    <2>1. UNCHANGED <<spokeVars, granted, run>> /\ kc' = Expired(kc, c)
        BY <1>3 DEF RemoveCluster
    <2>2. \A d \in Clusters : kc'[d] # "none" => kc[d] # "none"
        BY <2>1 DEF Expired, SideTypes
    <2> QED
        BY <2>1, <2>2, StillStep
<1> QED
    BY <1>1, <1>2, <1>3, AdminGood, CrashGood DEF Surroundings

\* Every step is good.
LEMMA NextGood ==
    ASSUME DiscoveryTypes, HeldInv, [Next]_vars
    PROVE  Good
<1>1. SpokeTypes /\ SideTypes
    BY DEF DiscoveryTypes
<1>2. CASE Resync \/ UNCHANGED vars
    BY <1>1, <1>2, IdleStep DEF Resync, vars, sideVars
<1>3. ASSUME NEW c \in Clusters, SyncStanding(c) PROVE Good
    BY <1>1, <1>3, IdleStep DEF SyncStanding
<1> QED
    BY <1>1, <1>2, <1>3, DiscoverGood, ManageGood, SyncGood, SurroundingsGood DEF Next

-----------------------------------------------------------------------------
(* Types of the lists a run works from.                                     *)

\* A set of natural numbers that is not empty has a least member.
LEMMA LeastNumber ==
    ASSUME NEW S, S \subseteq Nat, S # {}
    PROVE  \E n \in S : \A m \in S : n <= m
<1>1. \E R : /\ IsWellFoundedOn(R, Nat)
             /\ \A x, y \in Nat : x < y => <<x, y>> \in R
    <2>1. IsWellFoundedOn(OpToRel(<, Nat), Nat)
        BY NatLessThanWellFounded
    <2>2. \A x, y \in Nat : x < y => <<x, y>> \in OpToRel(<, Nat)
        BY DEF OpToRel
    <2> QED
        BY <2>1, <2>2, Zenon
<1>2. PICK R : /\ IsWellFoundedOn(R, Nat)
               /\ \A x, y \in Nat : x < y => <<x, y>> \in R
    BY <1>1
<1>3. IsWellFoundedOn(R, Nat)
    BY <1>2
<1>4. PICK n \in S : \A m \in S : ~(<<m, n>> \in R)
    BY <1>3, WFMin
<1>5. ASSUME NEW m \in S PROVE n <= m
    <2>1. m \in Nat /\ n \in Nat
        OBVIOUS
    <2>2. m < n => <<m, n>> \in R
        BY <1>2, <2>1
    <2>3. ~(<<m, n>> \in R)
        BY <1>4
    <2>4. ~(m < n)
        BY <2>2, <2>3
    <2> QED
        BY <2>1, <2>4
<1> QED
    BY <1>5

\* extractAPIServer finds an https URL if the client configs have one.
LEMMA ExtractedServer ==
    ASSUME NEW m \in ManagedClusters
    PROVE  extractAPIServer(m) \in Urls \cup {None}
<1>1. CASE HttpsConfigs(m) = {}
    BY <1>1 DEF extractAPIServer
<1>2. CASE HttpsConfigs(m) # {}
    <2>1. m.configs \in Seq(Urls \cup {"http"}) /\ Len(m.configs) \in Nat
        BY DEF ManagedClusters
    <2>2. HttpsConfigs(m) \subseteq Nat
        BY <2>1 DEF HttpsConfigs
    <2>3. \E n \in HttpsConfigs(m) : \A k \in HttpsConfigs(m) : n <= k
        BY <1>2, <2>2, LeastNumber
    <2> DEFINE first == CHOOSE n \in HttpsConfigs(m) :
                            \A k \in HttpsConfigs(m) : n <= k
    <2>4. first \in HttpsConfigs(m)
        BY <2>3
    <2>5. extractAPIServer(m) = m.configs[first]
        BY <1>2 DEF extractAPIServer
    <2> QED
        BY <2>4, <2>5 DEF HttpsConfigs
<1> QED
    BY <1>1, <1>2

\* The desired servers are URLs or None.
LEMMA DesiredType ==
    ASSUME NEW m \in MaybeCluster, NEW e \in MaybeSpoke
    PROVE  DesiredServer(m, e) \in Urls \cup {None}
BY ExtractedServer, SpokeFields DEF DesiredServer, MaybeCluster, MaybeSpoke

\* Lists that stay, in a step that is not the enrolment, or in one that has
\* fewer clusters left.
LEMMA SameLists ==
    ASSUME ListTypes, UNCHANGED listVars,
           pc' \in Enrolling => pc \in Enrolling /\ todo' \subseteq todo
    PROVE  ListTypes'
BY DEF ListTypes, listVars

\* Lists that are forgotten.
LEMMA NoLists ==
    ASSUME ForgetLists, pc' \notin Enrolling
    PROVE  ListTypes'
BY DEF ListTypes, ForgetLists, Nothing, MaybeCluster, MaybeSpoke

\* Every step of discovery keeps the types of its lists.
LEMMA DiscoverLists ==
    ASSUME DiscoveryTypes, Discover
    PROVE  ListTypes'
<1>1. ListTypes /\ SpokeTypes /\ CompanionTypes
    BY DEF DiscoveryTypes
<1>2. CASE StartRetire \/ StartCompanions
    BY <1>1, <1>2, SameLists DEF StartRetire, StartCompanions, Go, Enrolling
<1>3. CASE StartDiscovery
    <2>1. pc' \notin Enrolling /\ UNCHANGED <<existing, desired>>
        BY <1>3 DEF StartDiscovery, Go, Enrolling
    <2>2. seen' \in [Clusters -> MaybeCluster]
        BY <1>1, <1>3 DEF StartDiscovery, ListTypes, CompanionTypes, MaybeCluster
    <2> QED
        BY <1>1, <2>1, <2>2 DEF ListTypes
<1>4. CASE ListSpokes
    <2>1. existing' \in [Clusters -> MaybeSpoke]
        BY <1>1, <1>4 DEF ListSpokes, SpokeTypes, MaybeSpoke
    <2>2. \A c \in Clusters : DesiredServer(seen[c], existing'[c]) \in Urls \cup {None}
        BY <1>1, <2>1, DesiredType DEF ListTypes
    <2>3. desired' \in [Clusters -> Urls \cup {None}]
        BY <1>4, <2>2 DEF ListSpokes
    <2>4. seen' \in [Clusters -> MaybeCluster]
        BY <1>4 DEF ListSpokes, Nothing, MaybeCluster
    <2>5. \A c \in todo' : desired'[c] \in Urls
        BY <1>4, <2>3 DEF ListSpokes, Go
    <2> QED
        BY <2>1, <2>3, <2>4, <2>5 DEF ListTypes
<1>5. CASE StartPrune \/ Finish
    BY <1>5, NoLists DEF StartPrune, Finish, Return, Go, Enrolling
<1>6. CASE ListAccounts \/ deleteMSARBAC \/ deleteMSA
    <2>1. \/ UNCHANGED listVars /\ pc' \notin Enrolling
          \/ ForgetLists /\ pc' \notin Enrolling
        BY <1>6 DEF ListAccounts, deleteMSARBAC, deleteMSA, Go, Return, Enrolling
    <2> QED
        BY <1>1, <2>1, SameLists, NoLists
<1>7. CASE ensureMSA \/ ensureMSARBAC
    <2>1. UNCHANGED listVars /\ todo' \subseteq todo /\ pc \in Enrolling
        BY <1>7 DEF ensureMSA, ensureMSARBAC, EndVisit, Go, Enrolling
    <2> QED
        BY <1>1, <2>1, SameLists
<1>8. ASSUME NEW c \in Clusters, RestoreSpoke(c) \/ CreateSpoke(c) PROVE ListTypes'
    <2>1. UNCHANGED listVars /\ pc \in Enrolling
        BY <1>8 DEF RestoreSpoke, CreateSpoke, Enrolling
    <2>2. todo' = todo \ {c}
        BY <1>8 DEF RestoreSpoke, CreateSpoke, Collect, Skip, Visit, EndVisit, Go
    <2> QED
        BY <1>1, <2>1, <2>2, SameLists
<1>9. ASSUME NEW c \in Clusters, Retire(c) PROVE ListTypes'
    <2>1. \/ UNCHANGED listVars /\ pc' \notin Enrolling
          \/ ForgetLists /\ pc' \notin Enrolling
        BY <1>9 DEF Retire, Go, Return, Enrolling
    <2> QED
        BY <1>1, <2>1, SameLists, NoLists
<1>10. ASSUME NEW c \in Clusters, Prune(c) \/ CheckOrphan(c) \/ CheckStanding(c)
       PROVE  ListTypes'
    <2>1. UNCHANGED listVars /\ pc' \notin Enrolling
        BY <1>10 DEF Prune, CheckOrphan, CheckStanding, Go, Enrolling
    <2> QED
        BY <1>1, <2>1, SameLists
<1> QED
    BY <1>2, <1>3, <1>4, <1>5, <1>6, <1>7, <1>8, <1>9, <1>10 DEF Discover

\* Every step keeps the types of the lists.
LEMMA NextLists ==
    ASSUME DiscoveryTypes, [Next]_vars
    PROVE  ListTypes'
<1>1. ListTypes
    BY DEF DiscoveryTypes
<1>2. CASE Crash
    BY <1>2, NoLists DEF Crash, Enrolling
<1>3. CASE Resync \/ ChangeHubConfig \/ ChangeProxy \/ UNCHANGED vars
    BY <1>1, <1>3, SameLists DEF Resync, ChangeHubConfig, ChangeProxy, vars, runVars
<1>4. ASSUME NEW c \in Clusters,
             \/ AdminCreate(c) \/ AdminEdit(c) \/ AdminUnlabel(c) \/ AdminDelete(c)
             \/ ImportCluster(c) \/ ChangeCluster(c) \/ RemoveCluster(c)
             \/ SyncSpoke(c) \/ SyncStanding(c)
      PROVE  ListTypes'
    BY <1>1, <1>4, SameLists
    DEF AdminCreate, AdminEdit, AdminUnlabel, AdminDelete, ImportCluster,
        ChangeCluster, RemoveCluster, SyncSpoke, SyncStanding, runVars
<1>5. ASSUME NEW c \in Clusters, Manage(c) PROVE ListTypes'
    BY <1>1, <1>5, SameLists
    DEF Manage, AddFinalizer, StartManage, StoreKubeconfig, Provision, StartCleanup,
        Deprovision, ForgetKubeconfig, RemoveFinalizer, runVars
<1> QED
    BY <1>2, <1>3, <1>4, <1>5, DiscoverLists DEF Next, Surroundings

-----------------------------------------------------------------------------
(* Types of the SpokeCluster controller's side.                             *)

\* Tokens that end leave kubeconfigs of the known kinds.
LEMMA ExpiredType ==
    ASSUME NEW k \in [Clusters -> Kubeconfigs], NEW c
    PROVE  Expired(k, c) \in [Clusters -> Kubeconfigs]
BY DEF Expired, Kubeconfigs

\* The SpokeCluster controller keeps the types of its side.
LEMMA ManageSide ==
    ASSUME SideTypes, NEW c \in Clusters, Manage(c)
    PROVE  SideTypes'
<1>1. CASE AddFinalizer(c)
    BY <1>1 DEF AddFinalizer, sideVars, SideTypes
<1>2. CASE StartManage(c)
    <2>1. hub.mode \in SideSteps
        BY <1>2 DEF StartManage, sourceMatchesMode, SideSteps
    <2> QED
        BY <1>2, <2>1 DEF StartManage, Step, SideTypes
<1>3. CASE StoreKubeconfig(c)
    BY <1>3 DEF StoreKubeconfig, Step, SideTypes, SideSteps, Kubeconfigs
<1>4. CASE Provision(c)
    BY <1>4 DEF Provision, Step, SideTypes, SideSteps
<1>5. CASE StartCleanup(c)
    BY <1>5 DEF StartCleanup, Step, SideTypes, SideSteps
<1>6. CASE Deprovision(c)
    BY <1>6 DEF Deprovision, Step, SideTypes, SideSteps
<1>7. CASE ForgetKubeconfig(c)
    BY <1>7 DEF ForgetKubeconfig, Step, SideTypes, SideSteps, Kubeconfigs
<1>8. CASE RemoveFinalizer(c)
    BY <1>8 DEF RemoveFinalizer, Step, SideTypes, SideSteps
<1> QED
    BY <1>1, <1>2, <1>3, <1>4, <1>5, <1>6, <1>7, <1>8 DEF Manage

\* Every step keeps the types of the SpokeCluster controller's side.
LEMMA NextSide ==
    ASSUME SideTypes, [Next]_vars
    PROVE  SideTypes'
<1>1. UNCHANGED sideVars => SideTypes'
    BY DEF sideVars, SideTypes
<1>2. CASE deleteMSA
    BY <1>2, ExpiredType DEF deleteMSA, SideTypes
<1>3. CASE Discover /\ ~deleteMSA
    <2>1. UNCHANGED sideVars
        BY <1>3
        DEF Discover, StartRetire, StartCompanions, StartDiscovery, ListSpokes,
            ensureMSA, ensureMSARBAC, StartPrune, ListAccounts, deleteMSARBAC,
            Finish, Retire, RestoreSpoke, CreateSpoke, Prune, CheckOrphan,
            CheckStanding
    <2> QED
        BY <1>1, <2>1
<1>4. CASE Crash
    BY <1>4 DEF Crash, SideTypes, SideSteps
<1>5. CASE Resync \/ ChangeHubConfig \/ ChangeProxy \/ UNCHANGED vars
    BY <1>1, <1>5 DEF Resync, ChangeHubConfig, ChangeProxy, vars
<1>6. ASSUME NEW c \in Clusters,
             \/ AdminCreate(c) \/ AdminEdit(c) \/ AdminUnlabel(c) \/ AdminDelete(c)
             \/ ImportCluster(c) \/ ChangeCluster(c) \/ SyncSpoke(c)
      PROVE  SideTypes'
    BY <1>1, <1>6
    DEF AdminCreate, AdminEdit, AdminUnlabel, AdminDelete, ImportCluster,
        ChangeCluster, SyncSpoke
<1>7. ASSUME NEW c \in Clusters, RemoveCluster(c) PROVE SideTypes'
    BY <1>7, ExpiredType DEF RemoveCluster, SideTypes
<1>8. ASSUME NEW c \in Clusters, SyncStanding(c) PROVE SideTypes'
    BY <1>8 DEF SyncStanding, SideTypes
<1> QED
    BY <1>2, <1>3, <1>4, <1>5, <1>6, <1>7, <1>8, ManageSide DEF Next, Surroundings

-----------------------------------------------------------------------------

RegistrationInv ==
    CompanionInv /\ SpokeTypes /\ ListTypes /\ SideTypes /\ HeldInv

\* Initially nothing is registered and nothing is on its way.
LEMMA InitRegistration ==
    ASSUME Init
    PROVE  SpokeTypes /\ ListTypes /\ SideTypes /\ HeldInv
<1>1. SpokeTypes
    BY DiscoveryAssumption DEF Init, SpokeTypes, MaybeSpoke
<1>2. ListTypes
    BY DEF Init, ListTypes, MaybeCluster, MaybeSpoke, Enrolling
<1>3. SideTypes
    BY DEF Init, SideTypes, Kubeconfigs, SideSteps
<1>4. HeldInv
    BY DEF Init, HeldInv, VersionsBacked, Backed, WatchEndsLive, ManagedHeld, Managing
<1> QED
    BY <1>1, <1>2, <1>3, <1>4

\* The types of the objects, and the finalizer under every managing run, hold in
\* every behaviour of discovery and the SpokeCluster controller.
THEOREM RegistrationInvariant == Spec => []RegistrationInv
<1>1. Init => RegistrationInv
    BY InitRegistration, InitCompanions DEF RegistrationInv
<1>2. RegistrationInv /\ [Next]_vars => RegistrationInv'
    <2> SUFFICES ASSUME RegistrationInv, [Next]_vars PROVE RegistrationInv'
        OBVIOUS
    <2>1. DiscoveryTypes /\ HeldInv
        BY DEF RegistrationInv, DiscoveryTypes, CompanionInv
    <2>2. SpokeTypes' /\ HeldInv'
        BY <2>1, NextGood DEF Good
    <2>3. ListTypes' /\ SideTypes' /\ CompanionInv'
        BY <2>1, NextLists, NextSide, NextCompanions DEF RegistrationInv
    <2> QED
        BY <2>2, <2>3 DEF RegistrationInv
<1> QED
    BY <1>1, <1>2, PTL DEF Spec

\* For any set of clusters, any lag and any number of events: discovery,
\* although it creates, restores and deletes SpokeClusters from lists of
\* unknown age, and the SpokeCluster controller beside it implement
\* Registration for every cluster.
THEOREM DiscoveryImplementsRegistration == Spec => KeepsRegistrations
<1>1. RegistrationInv /\ [Next]_vars
          => [\A c \in Clusters : [Reg(c)!Next]_(Reg(c)!vars)]_vars
    <2> SUFFICES ASSUME RegistrationInv, [Next]_vars
                 PROVE  \A c \in Clusters : Reg(c)!Next
        OBVIOUS
    <2>1. DiscoveryTypes /\ HeldInv
        BY DEF RegistrationInv, DiscoveryTypes, CompanionInv
    <2> QED
        BY <2>1, NextGood DEF Good, Registered
<1>2. Init => \A c \in Clusters : Reg(c)!Init
    BY DEF Init, Reg!Init, Life
<1> QED
    BY RegistrationInvariant, <1>1, <1>2, PTL DEF Spec, KeepsRegistrations

-----------------------------------------------------------------------------
(* Types of the surroundings and of the run.                                *)

\* HubConfig, MCE proxy, watch, queue and counter.
WorldTypes ==
    /\ hub \in Hubs /\ proxy \in ProxyStates
    /\ watching \in BOOLEAN /\ queued \in BOOLEAN
    /\ events \in 0..MaxEvents

\* A run that has returned leaves nothing to the next one.
RunTypes ==
    /\ pc \in Pcs /\ errs \in BOOLEAN /\ at \in Clusters \cup {None}
    /\ pc = "idle" => todo = {} /\ at = None /\ ~errs

\* Counting an event or a failed call keeps within the bound.
LEMMA CountType ==
    ASSUME events \in 0..MaxEvents,
           \/ Fault \/ NoFault \/ events' = events
           \/ events < MaxEvents /\ events' = events + 1
    PROVE  events' \in 0..MaxEvents
<1>1. MaxEvents \in Nat
    BY DiscoveryAssumption
<1> QED
    BY <1>1 DEF Fault, NoFault

\* A return.
LEMMA RunReturns ==
    ASSUME NEW e, Return(e)
    PROVE  RunTypes'
BY DEF RunTypes, Return, Pcs

\* Every step of discovery keeps the types of its run.
LEMMA DiscoverRun ==
    ASSUME RunTypes, CompanionTypes, Discover
    PROVE  RunTypes'
<1> USE DEF Pcs, OrphanPcs, ModePcs
<1>1. errs \in BOOLEAN /\ at \in Clusters \cup {None} /\ pc \in Pcs
    BY DEF RunTypes
<1>2. UNCHANGED <<pc, todo, at, errs>> => RunTypes'
    BY DEF RunTypes
<1>3. ASSUME NEW c \in Clusters \cup {None}, NEW e \in BOOLEAN, EndVisit(c, e)
      PROVE  RunTypes'
    BY <1>1, <1>3 DEF EndVisit, Go, RunTypes
<1>4. CASE StartRetire \/ StartCompanions
    BY <1>2, <1>4 DEF StartRetire, StartCompanions, Go, RunTypes
<1>5. CASE StartDiscovery
    BY <1>2, <1>5 DEF StartDiscovery, Go, RunTypes
<1>6. CASE ListSpokes
    BY <1>6 DEF ListSpokes, Go, RunTypes
<1>7. CASE ensureMSA
    <2>1. Go("work", todo, at, errs) \/ EndVisit(at, TRUE)
        BY <1>7 DEF ensureMSA
    <2> QED
        BY <1>1, <1>3, <2>1 DEF Go, RunTypes
<1>8. CASE ensureMSARBAC
    <2>1. EndVisit(at, FALSE) \/ EndVisit(at, TRUE)
        BY <1>8 DEF ensureMSARBAC
    <2> QED
        BY <1>1, <1>3, <2>1
<1>9. CASE StartPrune
    BY <1>1, <1>9 DEF StartPrune, Go, RunTypes
<1>10. CASE ListAccounts
    <2>1. Go("orphans", OwnAccounts, None, errs) \/ Return(TRUE)
        BY <1>10 DEF ListAccounts
    <2> QED
        BY <1>1, <2>1, RunReturns DEF Go, RunTypes
<1>11. CASE deleteMSARBAC
    <2>1. \/ \E s \in {"orphanAccount", "companionAccount"} : Go(s, todo, at, errs)
          \/ Return(TRUE)
        BY <1>11 DEF deleteMSARBAC
    <2> QED
        BY <1>1, <2>1, RunReturns DEF Go, RunTypes
<1>12. CASE deleteMSA
    <2>1. \/ \E s \in {"orphans", "companions"} : Go(s, todo, None, errs)
          \/ Return(TRUE)
        BY <1>12 DEF deleteMSA
    <2> QED
        BY <1>1, <2>1, RunReturns DEF Go, RunTypes
<1>13. CASE Finish
    BY <1>13, RunReturns DEF Finish
<1>14. ASSUME NEW c \in Clusters, Retire(c) PROVE RunTypes'
    <2>1. Go("retire", todo \ {c}, None, FALSE) \/ Return(TRUE)
        BY <1>14 DEF Retire
    <2> QED
        BY <1>1, <2>1, RunReturns DEF Go, RunTypes
<1>15. ASSUME NEW c \in Clusters, RestoreSpoke(c) \/ CreateSpoke(c)
       PROVE  RunTypes'
    <2>1. Visit(c) \/ EndVisit(c, TRUE) \/ EndVisit(c, FALSE)
        BY <1>15 DEF RestoreSpoke, CreateSpoke, Collect, Skip
    <2> QED
        BY <1>1, <1>3, <2>1 DEF Visit, Go, RunTypes
<1>16. ASSUME NEW c \in Clusters, Prune(c) PROVE RunTypes'
    <2>1. \E e \in {errs, TRUE} : Go("prune", todo \ {c}, None, e)
        BY <1>16 DEF Prune
    <2> QED
        BY <1>1, <2>1 DEF Go, RunTypes
<1>17. ASSUME NEW c \in Clusters, CheckOrphan(c) \/ CheckStanding(c)
       PROVE  RunTypes'
    <2>1. \E s \in {"orphans", "orphanWork", "companions", "companionWork"},
             d \in {c, None}, e \in {errs, TRUE} : Go(s, todo \ {c}, d, e)
        BY <1>17 DEF CheckOrphan, CheckStanding
    <2> QED
        BY <1>1, <2>1 DEF Go, RunTypes
<1> QED
    BY <1>4, <1>5, <1>6, <1>7, <1>8, <1>9, <1>10, <1>11, <1>12, <1>13, <1>14,
       <1>15, <1>16, <1>17 DEF Discover

\* Every step keeps the types of the run.
LEMMA NextRun ==
    ASSUME RunTypes, CompanionTypes, [Next]_vars
    PROVE  RunTypes'
<1>1. UNCHANGED runVars => RunTypes'
    BY DEF runVars, RunTypes
<1>2. CASE Crash
    BY <1>2 DEF Crash, RunTypes, Pcs
<1>3. CASE Resync \/ ChangeHubConfig \/ ChangeProxy \/ UNCHANGED vars
    BY <1>1, <1>3 DEF Resync, ChangeHubConfig, ChangeProxy, vars
<1>4. ASSUME NEW c \in Clusters,
             \/ AdminCreate(c) \/ AdminEdit(c) \/ AdminUnlabel(c) \/ AdminDelete(c)
             \/ ImportCluster(c) \/ ChangeCluster(c) \/ RemoveCluster(c)
             \/ SyncSpoke(c) \/ SyncStanding(c)
      PROVE  RunTypes'
    BY <1>1, <1>4
    DEF AdminCreate, AdminEdit, AdminUnlabel, AdminDelete, ImportCluster,
        ChangeCluster, RemoveCluster, SyncSpoke, SyncStanding
<1>5. ASSUME NEW c \in Clusters, Manage(c) PROVE RunTypes'
    BY <1>1, <1>5
    DEF Manage, AddFinalizer, StartManage, StoreKubeconfig, Provision, StartCleanup,
        Deprovision, ForgetKubeconfig, RemoveFinalizer
<1> QED
    BY <1>2, <1>3, <1>4, <1>5, DiscoverRun DEF Next, Surroundings

\* A disjunction is one of the two truth values.
LEMMA EitherBoolean ==
    ASSUME NEW p, NEW q
    PROVE  (p \/ q) \in BOOLEAN
OBVIOUS

\* Every step of discovery keeps the types around it.
LEMMA DiscoverWorld ==
    ASSUME WorldTypes, Discover
    PROVE  WorldTypes'
<1> USE DEF worldVars
<1>1. UNCHANGED <<hub, proxy>>
    BY DEF Discover, StartRetire, StartCompanions, StartDiscovery, ListSpokes,
       ensureMSA, ensureMSARBAC, StartPrune, ListAccounts, deleteMSARBAC, deleteMSA,
       Finish, Retire, RestoreSpoke, CreateSpoke, Prune, CheckOrphan, CheckStanding
<1>2. watching' \in BOOLEAN
    <2>1. CASE ListSpokes
        BY <2>1 DEF ListSpokes, tryRegisterWatch, WorldTypes
    <2>2. CASE ~ListSpokes
        <3>1. UNCHANGED watching
            BY <2>2
            DEF Discover, StartRetire, StartCompanions, StartDiscovery, ensureMSA,
                ensureMSARBAC, StartPrune, ListAccounts, deleteMSARBAC, deleteMSA,
                Finish, Retire, RestoreSpoke, CreateSpoke, Prune, CheckOrphan,
                CheckStanding
        <3> QED
            BY <3>1 DEF WorldTypes
    <2> QED
        BY <2>1, <2>2
<1>3. queued' \in BOOLEAN
    <2>1. UNCHANGED queued => queued' \in BOOLEAN
        BY DEF WorldTypes
    <2>2. ASSUME NEW e, Return(e) PROVE queued' \in BOOLEAN
        BY <2>2, EitherBoolean DEF Return
    <2>3. CASE StartRetire \/ StartCompanions \/ StartDiscovery
        BY <2>1, <2>3 DEF StartRetire, StartCompanions, StartDiscovery
    <2>4. CASE ListSpokes
        BY <2>1, <2>4, EitherBoolean DEF ListSpokes, tryRegisterWatch
    <2>5. CASE ListAccounts \/ deleteMSARBAC \/ deleteMSA \/ Finish
        <3>1. UNCHANGED queued \/ Return(TRUE) \/ Return(errs)
            BY <2>5 DEF ListAccounts, deleteMSARBAC, deleteMSA, Finish
        <3> QED
            BY <2>1, <2>2, <3>1
    <2>6. CASE ensureMSA \/ ensureMSARBAC \/ StartPrune
        BY <2>1, <2>6 DEF ensureMSA, ensureMSARBAC, StartPrune
    <2>7. ASSUME NEW c \in Clusters, Retire(c) PROVE queued' \in BOOLEAN
        <3>1. UNCHANGED queued \/ Return(TRUE)
            BY <2>7 DEF Retire
        <3> QED
            BY <2>1, <2>2, <3>1
    <2>8. ASSUME NEW c \in Clusters,
                 \/ RestoreSpoke(c) \/ CreateSpoke(c) \/ Prune(c)
                 \/ CheckOrphan(c) \/ CheckStanding(c)
          PROVE  queued' \in BOOLEAN
        BY <2>1, <2>8 DEF RestoreSpoke, CreateSpoke, Prune, CheckOrphan, CheckStanding
    <2> QED
        BY <2>3, <2>4, <2>5, <2>6, <2>7, <2>8 DEF Discover
<1>4. Fault \/ NoFault
    <2>1. CASE \/ StartRetire \/ StartCompanions \/ StartDiscovery \/ ListSpokes
               \/ ensureMSA \/ ensureMSARBAC \/ StartPrune \/ ListAccounts
               \/ deleteMSARBAC \/ deleteMSA \/ Finish
        BY <2>1
        DEF StartRetire, StartCompanions, StartDiscovery, ListSpokes,
            tryRegisterWatch, ensureMSA, ensureMSARBAC, StartPrune, ListAccounts,
            deleteMSARBAC, deleteMSA, Finish, NoFault
    <2>2. ASSUME NEW c \in Clusters,
                 \/ Retire(c) \/ RestoreSpoke(c) \/ CreateSpoke(c) \/ Prune(c)
                 \/ CheckOrphan(c) \/ CheckStanding(c)
          PROVE  Fault \/ NoFault
        BY <2>2
        DEF Retire, RestoreSpoke, CreateSpoke, Skip, Prune, CheckOrphan,
            CheckStanding, NoFault
    <2> QED
        BY <2>1, <2>2 DEF Discover
<1>5. events' \in 0..MaxEvents
    BY <1>4, CountType DEF WorldTypes
<1> QED
    BY <1>1, <1>2, <1>3, <1>5 DEF WorldTypes

\* Every step keeps the types around discovery.
LEMMA NextWorld ==
    ASSUME WorldTypes, [Next]_vars
    PROVE  WorldTypes'
<1> USE DEF worldVars
<1>1. events \in 0..MaxEvents /\ queued \in BOOLEAN /\ watching \in BOOLEAN
    BY DEF WorldTypes
<1>2. UNCHANGED <<hub, proxy, watching, queued, events>> => WorldTypes'
    BY DEF WorldTypes
<1>3. ASSUME NEW n, Event(n) PROVE events' \in 0..MaxEvents
    BY <1>1, <1>3, CountType DEF Event
<1>4. CASE Crash
    <2>1. queued' \in BOOLEAN
        BY <1>4, EitherBoolean DEF Crash
    <2>2. events' \in 0..MaxEvents
        BY <1>1, <1>4, CountType DEF Crash
    <2> QED
        BY <1>4, <2>1, <2>2 DEF Crash, WorldTypes
<1>5. CASE ChangeHubConfig
    <2>1. hub' \in Hubs
        BY <1>5, DiscoveryAssumption DEF ChangeHubConfig
    <2>2. events' \in 0..MaxEvents
        BY <1>3, <1>5 DEF ChangeHubConfig
    <2> QED
        BY <1>5, <2>1, <2>2 DEF ChangeHubConfig, WorldTypes
<1>6. CASE ChangeProxy
    <2>1. proxy' \in ProxyStates
        BY <1>6, DiscoveryAssumption DEF ChangeProxy
    <2>2. events' \in 0..MaxEvents
        BY <1>3, <1>6 DEF ChangeProxy
    <2> QED
        BY <1>6, <2>1, <2>2 DEF ChangeProxy, WorldTypes
<1>7. CASE Resync \/ UNCHANGED vars
    BY <1>2, <1>7 DEF Resync, vars, WorldTypes
<1>8. ASSUME NEW c \in Clusters,
             AdminCreate(c) \/ AdminEdit(c) \/ AdminUnlabel(c) \/ AdminDelete(c)
      PROVE  WorldTypes'
    <2>1. \E n : Event(n)
        BY <1>8 DEF AdminCreate, AdminEdit, AdminUnlabel, AdminDelete
    <2>2. UNCHANGED <<hub, proxy, watching, queued>>
        BY <1>8 DEF AdminCreate, AdminEdit, AdminUnlabel, AdminDelete
    <2> QED
        BY <1>3, <2>1, <2>2 DEF WorldTypes
<1>9. ASSUME NEW c \in Clusters,
             ImportCluster(c) \/ ChangeCluster(c) \/ RemoveCluster(c)
      PROVE  WorldTypes'
    <2>1. (\E n : Event(n)) /\ Notify
        BY <1>9 DEF ImportCluster, ChangeCluster, RemoveCluster, SetCluster
    <2>2. UNCHANGED <<hub, proxy, watching>>
        BY <1>9 DEF ImportCluster, ChangeCluster, RemoveCluster
    <2>3. queued' \in BOOLEAN
        BY <2>1, EitherBoolean DEF Notify
    <2> QED
        BY <1>3, <2>1, <2>2, <2>3 DEF WorldTypes
<1>10. ASSUME NEW c \in Clusters, Manage(c) \/ SyncStanding(c) PROVE WorldTypes'
    BY <1>2, <1>10
    DEF Manage, AddFinalizer, StartManage, StoreKubeconfig, Provision, StartCleanup,
        Deprovision, ForgetKubeconfig, RemoveFinalizer, SyncStanding
<1>11. ASSUME NEW c \in Clusters, SyncSpoke(c) PROVE WorldTypes'
    <2>1. queued' \in BOOLEAN
        BY <1>11, EitherBoolean DEF SyncSpoke
    <2> QED
        BY <1>11, <2>1 DEF SyncSpoke, WorldTypes
<1> QED
    BY <1>4, <1>5, <1>6, <1>7, <1>8, <1>9, <1>10, <1>11, DiscoverWorld
       DEF Next, Surroundings

\* Every variable keeps its type, for every set of clusters, of URLs, of imports
\* and of HubConfigs; and a run that returns leaves no list, cluster or error
\* behind for the next one.
THEOREM DiscoveryTypeCorrect == Spec => []TypeOK
<1>1. Init => WorldTypes /\ RunTypes
    <2> SUFFICES ASSUME Init PROVE WorldTypes /\ RunTypes
        OBVIOUS
    <2>1. hub \in Hubs /\ proxy \in ProxyStates
        BY DiscoveryAssumption DEF Init
    <2>2. queued \in BOOLEAN /\ watching \in BOOLEAN
        BY DEF Init
    <2>3. events \in 0..MaxEvents
        BY DiscoveryAssumption DEF Init
    <2>4. RunTypes
        BY DEF Init, RunTypes, Pcs
    <2> QED
        BY <2>1, <2>2, <2>3, <2>4 DEF WorldTypes
<1>2. RegistrationInv /\ WorldTypes /\ RunTypes /\ [Next]_vars
          => WorldTypes' /\ RunTypes'
    BY NextWorld, NextRun DEF RegistrationInv, CompanionInv
<1>3. RegistrationInv /\ WorldTypes /\ RunTypes => TypeOK
    BY DEF RegistrationInv, CompanionInv, CompanionTypes, SpokeTypes, ListTypes,
       SideTypes, WorldTypes, RunTypes, TypeOK
<1> QED
    BY RegistrationInvariant, <1>1, <1>2, <1>3, PTL DEF Spec

-----------------------------------------------------------------------------
(* Manual SpokeClusters.                                                    *)

\* Discovery lists SpokeClusters with its label only.
ListedAreLabelled == \A c \in Clusters : existing[c] # None => ~existing[c].manual

\* Its list is made from labelled ones, stays, or is forgotten.
LEMMA NextListed ==
    ASSUME ListedAreLabelled, [Next]_vars
    PROVE  ListedAreLabelled'
<1> USE DEF runVars, listVars
<1>1. CASE UNCHANGED existing
    BY <1>1 DEF ListedAreLabelled
<1>2. CASE ForgetLists
    BY <1>2 DEF ForgetLists, Nothing, ListedAreLabelled
<1>3. CASE ListSpokes
    BY <1>3 DEF ListSpokes, Labelled, ListedAreLabelled
<1>4. CASE \/ StartRetire \/ StartCompanions \/ StartDiscovery
           \/ ensureMSA \/ ensureMSARBAC \/ StartPrune \/ ListAccounts
           \/ deleteMSARBAC \/ deleteMSA \/ Finish
    BY <1>1, <1>2, <1>4
    DEF StartRetire, StartCompanions, StartDiscovery, ensureMSA, ensureMSARBAC,
        StartPrune, ListAccounts, deleteMSARBAC, deleteMSA, Finish, Return
<1>5. ASSUME NEW c \in Clusters,
             \/ Retire(c) \/ RestoreSpoke(c) \/ CreateSpoke(c) \/ Prune(c)
             \/ CheckOrphan(c) \/ CheckStanding(c)
      PROVE  ListedAreLabelled'
    BY <1>1, <1>2, <1>5
    DEF Retire, RestoreSpoke, CreateSpoke, Prune, CheckOrphan, CheckStanding, Return
<1>6. CASE Crash \/ Resync \/ ChangeHubConfig \/ ChangeProxy \/ UNCHANGED vars
    BY <1>1, <1>2, <1>6 DEF Crash, Resync, ChangeHubConfig, ChangeProxy, vars
<1>7. ASSUME NEW c \in Clusters,
             \/ AdminCreate(c) \/ AdminEdit(c) \/ AdminUnlabel(c) \/ AdminDelete(c)
             \/ ImportCluster(c) \/ ChangeCluster(c) \/ RemoveCluster(c)
             \/ SyncSpoke(c) \/ SyncStanding(c)
      PROVE  ListedAreLabelled'
    BY <1>1, <1>7
    DEF AdminCreate, AdminEdit, AdminUnlabel, AdminDelete, ImportCluster,
        ChangeCluster, RemoveCluster, SyncSpoke, SyncStanding
<1>8. ASSUME NEW c \in Clusters, Manage(c) PROVE ListedAreLabelled'
    BY <1>1, <1>8
    DEF Manage, AddFinalizer, StartManage, StoreKubeconfig, Provision, StartCleanup,
        Deprovision, ForgetKubeconfig, RemoveFinalizer
<1> QED
    BY <1>3, <1>4, <1>5, <1>6, <1>7, <1>8 DEF Next, Surroundings, Discover

\* What discovery may do to a SpokeCluster without its label.
Stands(c) ==
    sc[c] # None /\ sc[c].manual =>
        \/ sc'[c] = None
        \/ sc'[c].version = sc[c].version /\ sc'[c].manual

\* A Delete of such a SpokeCluster removes it or marks it.
LEMMA DeleteStands ==
    ASSUME SpokeTypes, NEW c \in Clusters, Delete(c), NEW d \in Clusters
    PROVE  Stands(d)
<1>1. CASE UNCHANGED sc
    BY <1>1 DEF Stands
<1>2. CASE /\ sc[c] # None
           /\ Put(c, IF sc[c].finalizer THEN [sc[c] EXCEPT !.deleting = TRUE]
                     ELSE None)
    <2>1. sc[c] \in Spokes
        BY <1>2 DEF SpokeTypes, MaybeSpoke
    <2>2. sc' = [sc EXCEPT ![c] = IF sc[c].finalizer
                                  THEN [sc[c] EXCEPT !.deleting = TRUE] ELSE None]
        BY <1>2 DEF Put
    <2> QED
        BY <2>1, <2>2 DEF Stands, SpokeTypes, Spokes
<1> QED
    BY <1>1, <1>2 DEF Delete

\* Discovery, working from lists that may be old, never rewrites the spec of a
\* SpokeCluster that does not carry its label, whatever the lag of the cache
\* and whoever took the label off since: a restored object is the listed one,
\* and a created one was not there.
THEOREM ManualSpecAlwaysStands == Spec => ManualSpecStands
<1>1. Init => ListedAreLabelled
    BY DEF Init, ListedAreLabelled
<1>2. ASSUME RegistrationInv, ListedAreLabelled, Discover, NEW d \in Clusters
      PROVE  Stands(d)
    <2> USE DEF spokeVars
    <2>1. SpokeTypes
        BY <1>2 DEF RegistrationInv
    <2>2. UNCHANGED sc => Stands(d)
        BY DEF Stands
    <2>3. CASE \/ StartRetire \/ StartCompanions \/ StartDiscovery \/ ListSpokes
               \/ ensureMSA \/ ensureMSARBAC \/ StartPrune \/ ListAccounts
               \/ deleteMSARBAC \/ deleteMSA \/ Finish
        BY <2>2, <2>3
        DEF StartRetire, StartCompanions, StartDiscovery, ListSpokes, ensureMSA,
            ensureMSARBAC, StartPrune, ListAccounts, deleteMSARBAC, deleteMSA, Finish
    <2>4. ASSUME NEW c \in Clusters, Retire(c) \/ Prune(c) PROVE Stands(d)
        BY <2>1, <2>2, <2>4, DeleteStands DEF Retire, Prune
    <2>5. ASSUME NEW c \in Clusters, RestoreSpoke(c) PROVE Stands(d)
        <3>1. \/ UNCHANGED sc
              \/ /\ sc[c] = existing[c] /\ existing[c] # None
                 /\ PutSpec(c, Restored(c))
            BY <2>5 DEF RestoreSpoke, Collect
        <3>2. CASE /\ sc[c] = existing[c] /\ existing[c] # None
                   /\ PutSpec(c, Restored(c))
            <4>1. ~sc[c].manual
                BY <1>2, <3>2 DEF ListedAreLabelled
            <4>2. d # c => sc'[d] = sc[d]
                BY <2>1, <3>2 DEF PutSpec, Put, SpokeTypes
            <4> QED
                BY <4>1, <4>2 DEF Stands
        <3> QED
            BY <2>2, <3>1, <3>2
    <2>6. ASSUME NEW c \in Clusters, CreateSpoke(c) PROVE Stands(d)
        <3>1. UNCHANGED sc \/ (sc[c] = None /\ PutSpec(c, NewSpoke(desired[c])))
            BY <2>6 DEF CreateSpoke, Collect, Skip
        <3>2. CASE sc[c] = None /\ PutSpec(c, NewSpoke(desired[c]))
            <4>1. d # c => sc'[d] = sc[d]
                BY <2>1, <3>2 DEF PutSpec, Put, SpokeTypes
            <4> QED
                BY <3>2, <4>1 DEF Stands
        <3> QED
            BY <2>2, <3>1, <3>2
    <2>7. ASSUME NEW c \in Clusters, CheckOrphan(c) \/ CheckStanding(c)
          PROVE  Stands(d)
        BY <2>2, <2>7 DEF CheckOrphan, CheckStanding
    <2> QED
        BY <1>2, <2>3, <2>4, <2>5, <2>6, <2>7 DEF Discover
<1>3. RegistrationInv /\ ListedAreLabelled /\ [Next]_vars
          => /\ ListedAreLabelled'
             /\ [Discover =>
                    \A c \in Clusters :
                        sc[c] # None /\ sc[c].manual =>
                            \/ sc'[c] = None
                            \/ sc'[c].version = sc[c].version /\ sc'[c].manual]_vars
    BY <1>2, NextListed DEF Stands
<1> QED
    BY RegistrationInvariant, <1>1, <1>3, PTL DEF Spec, ManualSpecStands
=============================================================================

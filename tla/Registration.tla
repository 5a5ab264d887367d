----------------------------- MODULE Registration -----------------------------
(***************************************************************************)
(* What the hub promises about one registration, whatever its caches, its  *)
(* retries and its crashes do.  SpokeController implements it for one      *)
(* SpokeCluster key and MCEDiscovery for every discovered cluster.         *)
(*                                                                         *)
(* A registration is opened by whoever creates the SpokeCluster, held once *)
(* it carries the cleanup finalizer, leaving once its deletion has begun   *)
(* and cleared once a deletion run has been through the cleanup.  Only a   *)
(* held or leaving registration may be given anything: a credential stored *)
(* on the hub, or resources granted on the spoke.  Either may be taken     *)
(* back at any time.  A held registration never disappears: it leaves      *)
(* first and is let go only by the run that has cleared it; if that run is *)
(* overtaken or dies, another clears it again.                             *)
(***************************************************************************)
VARIABLES
    life,      \* "absent", "open", "held", "leaving" or "cleared"
    stored,    \* the hub stores a credential for the spoke
    granted    \* the spoke holds resources made for the hub

vars == <<life, stored, granted>>

Lives == {"absent", "open", "held", "leaving", "cleared"}

Init == life = "absent" /\ stored = FALSE /\ granted = FALSE

Move(from, to) ==
    /\ life = from /\ life' = to
    /\ UNCHANGED <<stored, granted>>

Register  == Move("absent", "open")
Abandon   == Move("open", "absent")
Hold      == Move("open", "held")
Leave     == Move("held", "leaving")
Release   == Move("cleared", "absent")

NothingNew == (stored' => stored) /\ (granted' => granted)

\* The cleanup is done, as far as it could be; or has to be done again.
Clear == life = "leaving" /\ life' = "cleared" /\ NothingNew
Retry == life = "cleared" /\ life' = "leaving" /\ NothingNew

Provide ==
    /\ life \in {"held", "leaving"}
    /\ life' = life
    /\ stored => stored'
    /\ granted => granted'

TakeBack == life' = life /\ NothingNew

Next ==
    \/ Register \/ Abandon \/ Hold \/ Leave \/ Clear \/ Retry \/ Release
    \/ Provide \/ TakeBack

Safety == Init /\ [][Next]_vars
=============================================================================

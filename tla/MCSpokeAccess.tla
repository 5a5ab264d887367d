----------------------------- MODULE MCSpokeAccess -----------------------------
(* SpokeAccess for TLC.                                                        *)
EXTENDS SpokeAccess
=============================================================================

---------------------------- MODULE MCAdapterStack ----------------------------
(* AdapterStack for TLC.                                                      *)
EXTENDS AdapterStack
=============================================================================

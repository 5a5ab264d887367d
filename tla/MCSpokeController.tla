-------------------------- MODULE MCSpokeController --------------------------
(* Instances of SpokeController for TLC. *)
EXTENDS SpokeController

\* One generation, with a Secret source.
SecretOnly == <<"secret">>

\* The administrator moves the registration from one source to the other.
SecretThenMce == <<"secret", "mce">>

\* The administrator corrects the apiServer.
SecretTwice == <<"secret", "secret">>
=============================================================================

---------------------------- MODULE MCOAuthLogin -----------------------------
(* Instances of OAuthLogin for TLC: properties are in OAuthLoginProperties. *)
EXTENDS OAuthLoginProperties
=============================================================================

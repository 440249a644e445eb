--------------------------- MODULE MCSecurityKeys ---------------------------
(* The key owner with two short addresses, in every profile. *)
EXTENDS SecurityKeys

MCBuilds == Profiles
=============================================================================

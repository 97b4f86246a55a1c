---------------------------- MODULE MCRuntimeLink ----------------------------
(* Instances of RuntimeLink for TLC.                                       *)
EXTENDS RuntimeLink
=============================================================================

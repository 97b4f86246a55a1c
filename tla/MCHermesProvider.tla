-------------------------- MODULE MCHermesProvider --------------------------
(* Instances of HermesProvider for TLC.                                    *)
EXTENDS HermesProvider
=============================================================================

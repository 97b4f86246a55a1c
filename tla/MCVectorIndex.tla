---------------------------- MODULE MCVectorIndex ----------------------------
(* Instances of VectorIndex for TLC.                                       *)
EXTENDS VectorIndex

CONSTANTS r1, r2, modelA, modelB

TwoModels == [r \in Runtime |-> IF r = r1 THEN modelA ELSE modelB]
=============================================================================

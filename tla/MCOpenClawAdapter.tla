-------------------------- MODULE MCOpenClawAdapter --------------------------
(* Instances of OpenClawAdapter for TLC.                                   *)
EXTENDS OpenClawAdapter

CONSTANTS m1, m2, cron

\* The cron run is proactive, every other run answers m1.
MCCauseOf == [r \in Run |-> IF r = cron THEN Proactive ELSE m1]
DistinctTexts == [p \in Payload |-> p]
SameText == [p \in Payload |-> "same"]
=============================================================================

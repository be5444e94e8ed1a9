------------------------------ MODULE MCServer ------------------------------
(* Instances of Server for TLC: r1 publishes a fact that a provider        *)
(* answers; r2 publishes the same id again, and the provider the policy    *)
(* selects for it was never initialised.                                   *)
EXTENDS Server

CONSTANTS r1, r2, i1, i2, i3

MCEventOf == [r \in Reqs |-> [id |-> i1, user |-> None]]
MCResponseId == [r \in Reqs |-> IF r = r1 THEN i2 ELSE i3]
MCIsFact == [r \in Reqs |-> TRUE]
MCProvider == [r \in Reqs |-> IF r = r1 THEN "ok" ELSE "missing"]
=============================================================================

------------------------------ MODULE MCSession ------------------------------
(* A scan client and one that scans, listens or asks for the status, beside  *)
(* the on-access monitor with one detection.                                 *)
EXTENDS Session, TLC

MCClients == {"c1", "c2"}
MCWants == [c \in MCClients |-> IF c = "c1" THEN {"scan"} ELSE {"scan", "listen", "other"}]
MCIdsOf == [c1 |-> {1}, c2 |-> {1, 2}, monitor |-> {2}]
MCListenMask == {"start", "detection", "completed"}
MCScanScript == <<"start", "completed">>
MCMonitorScript == <<"detection">>
==============================================================================

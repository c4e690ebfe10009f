--------------------------- MODULE MCPolicyDaemon ---------------------------
(* Small instances of PolicyDaemon: bundles a1 and a2 of policy 1, b1 and   *)
(* b2 of policy 2, all of issuer i; list l1 revokes b1, l2 the revision of *)
(* a1.                                                                      *)
EXTENDS PolicyDaemon

CONSTANTS i, a1, a2, b1, b2, ra, rb, rc, l1, l2, x, y, z, w, uds, poll

Policies == 1 .. 2
Ids == [b \in Bundle |-> CASE b = a1 -> x [] b = a2 -> y [] b = b1 -> z [] b = b2 -> w]
PolicyOfBundle == [b \in Bundle |-> IF b \in {b1, b2} THEN 2 ELSE 1]
IssuerOfBundle == [b \in Bundle |-> i]
SequenceOfBundle == [b \in Bundle |-> IF b \in {a2, b2} THEN 2 ELSE 1]
RevisionOfBundle == [b \in Bundle |-> IF b = a1 THEN ra ELSE IF b = a2 THEN rc ELSE rb]
IssuerOfList == [l \in List |-> i]
SequenceOfList == [l \in List |-> IF l = l2 THEN 2 ELSE 1]
TargetsOfList == [l \in List |-> IF l = l1 THEN {b1} ELSE {ra}]
=============================================================================

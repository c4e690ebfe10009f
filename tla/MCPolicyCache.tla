--------------------------- MODULE MCPolicyCache ---------------------------
(* Small instances of PolicyCache.  Policy 1 has the bundles a1, a2 and a2x *)
(* (which reuses the sequence of a2) of issuer i and aj of issuer j; policy *)
(* 2 has b1 and b2 of issuer i.  a1 and a2 wrap different revisions, a2x    *)
(* wraps the revision of a1 again.  l1 revokes the bundle b1, l2 the        *)
(* revision of a1, m1 (of issuer j) the bundle a2.                          *)
EXTENDS PolicyCache

CONSTANTS i, j, a1, a2, a2x, aj, b1, b2, ra, rb, rc, l1, l2, m1, x, y, z, u, v, w

Policies == 1 .. 2
Ids == [b \in Bundle |->
    CASE b = a1 -> x [] b = a2 -> y [] b = a2x -> z [] b = aj -> u [] b = b1 -> v [] b = b2 -> w]
PolicyOfBundle == [b \in Bundle |-> IF b \in {b1, b2} THEN 2 ELSE 1]
IssuerOfBundle == [b \in Bundle |-> IF b = aj THEN j ELSE i]
SequenceOfBundle == [b \in Bundle |-> IF b \in {a1, b1} THEN 1 ELSE 2]
RevisionOfBundle == [b \in Bundle |-> IF b \in {a1, a2x} THEN ra ELSE IF b = a2 THEN rc ELSE rb]
IssuerOfList == [l \in List |-> IF l = m1 THEN j ELSE i]
SequenceOfList == [l \in List |-> IF l = l2 THEN 2 ELSE 1]
TargetsOfList == [l \in List |-> IF l = l1 THEN {b1} ELSE IF l = l2 THEN {ra} ELSE {a2}]
=============================================================================

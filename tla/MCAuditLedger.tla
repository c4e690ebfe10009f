--------------------------- MODULE MCAuditLedger ---------------------------
(* AuditLedger for TLC: contents of events are interchangeable, and so are *)
(* the devices, since either may be the one enrolled at the start.         *)
EXTENDS AuditLedger, TLC

ValueSymmetry == Permutations(Payload) \cup Permutations(Device)
=============================================================================

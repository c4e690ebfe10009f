\* Three events, two submission cycles, two devices, one change by other means.
SPECIFICATION Spec
CONSTANTS
  Payload = {p1, p2}
  Device = {d1, d2}
  Foreign = foreign
  MaxSeq = 3
  MaxCycle = 2
  MaxDamage = 1
SYMMETRY ValueSymmetry
INVARIANTS
  ValidMeansUntouched
  DamageNamed
  DamageLocated
  NoFalseAlarm
  AnchoredPrefixIntact
  ReceiptsWitnessed

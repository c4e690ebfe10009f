CONSTANTS
  w1 = w1
  w2 = w2
  Worker = {w1, w2}
  Chunk = 1
  BatchSize = 1
  MaxChange = 4
  MaxGeneration = 2
  MaxConsent = 2
  MaxRecord = 2
  MaxBatch = 2
  MaxRun = 2
SPECIFICATION Spec
SYMMETRY Symmetry
INVARIANTS OnlyEligibleStaged LedgersAgree AckedWasDelivered
CHECK_DEADLOCK FALSE

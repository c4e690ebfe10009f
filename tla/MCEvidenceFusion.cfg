CONSTANTS
    g = g
    h = h
    t = t
    None = None
    Ids <- ThreeIds
    Kinds <- SensorRows
    MaxWork = 6
    MaxFindings = 3
    MaxSize = 7
SPECIFICATION Spec
INVARIANTS FamiliesAreOrigins VotesAreIndependent ProceedIsClean ContradictionNeverHelps
CHECK_DEADLOCK FALSE

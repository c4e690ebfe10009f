CONSTANTS
    i = i  j = j  a1 = a1  a2 = a2  a2x = a2x  aj = aj  b1 = b1  b2 = b2
    ra = ra  rb = rb  rc = rc  l1 = l1  l2 = l2  m1 = m1
    x = x  y = y  z = z  u = u  v = v  w = w
    Bundle = {a1, a2, a2x, aj, b1, b2}
    BundleId = {x, y, z, u, v, w}
    Policy <- Policies
    Issuer = {i, j}
    Revision = {ra, rb, rc}
    List = {l1, l2, m1}
    IdOf <- Ids
    PolicyOf <- PolicyOfBundle
    IssuerOf <- IssuerOfBundle
    SequenceOf <- SequenceOfBundle
    RevisionOf <- RevisionOfBundle
    ListIssuer <- IssuerOfList
    ListSequence <- SequenceOfList
    Targets <- TargetsOfList
    AllowRollback = TRUE
    NoBundle = NoBundle
    NoList = NoList
SPECIFICATION Spec
INVARIANTS LineageSound RevokedNeverServed
PROPERTIES HighWaterNeverLowered NoDowngrade ImplementsLineage

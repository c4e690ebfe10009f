CONSTANTS
    i = i  a1 = a1  a2 = a2  b1 = b1  b2 = b2  ra = ra  rb = rb  rc = rc  l1 = l1  l2 = l2
    x = x  y = y  z = z  w = w  uds = uds  poll = poll
    Bundle = {a1, a2, b1, b2}
    BundleId = {x, y, z, w}
    Policy <- Policies
    Issuer = {i}
    Revision = {ra, rb, rc}
    List = {l1, l2}
    IdOf <- Ids
    PolicyOf <- PolicyOfBundle
    IssuerOf <- IssuerOfBundle
    SequenceOf <- SequenceOfBundle
    RevisionOf <- RevisionOfBundle
    ListIssuer <- IssuerOfList
    ListSequence <- SequenceOfList
    Targets <- TargetsOfList
    AllowRollback = FALSE
    NoBundle = NoBundle
    NoList = NoList
    Handler = {uds, poll}
    Lapsing = {}
SPECIFICATION DaemonSpec
INVARIANT RevokedNotShownAtRest

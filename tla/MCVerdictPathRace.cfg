CONSTANTS
    h1 = h1  h2 = h2  h3 = h3
    c1 = c1  c2 = c2  c3 = c3  e1 = e1  e2 = e2  p1 = p1  p2 = p2  t1 = t1  t2 = t2
    Claim = {c1, c3}
    Evidence = {e1}
    Adapters = {p1, p2}
    Provider = {p1, p2}
    Caller = {h1, h2, h3}
    Ingest = Ingest
    AnchorOf <- Turns
    Origins <- FromOutside
    Authorized = {e1}
    SourceProvider <- FromFirst
    Verifiers <- OneVerifier
    MaxFaults = 0
    NoClaim = NoClaim
    NoProvider = NoProvider
SPECIFICATION Spec
INVARIANTS NoCrossAnchorVerified
SYMMETRY CallerSymmetry

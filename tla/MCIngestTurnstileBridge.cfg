CONSTANTS
    c1 = c1
    c2 = c2
    c3 = c3
    h1 = h1
    s1 = s1
    s2 = s2
    Conn = {c1, c2}
    Caller = {}
    Session = {s1, s2}
    Sends <- Bridge
    MaxInflight = 2
    NoSession = NoSession
    Nobody = Nobody
SPECIFICATION Spec
INVARIANTS DefiniteVerdictsFinal
CHECK_DEADLOCK FALSE

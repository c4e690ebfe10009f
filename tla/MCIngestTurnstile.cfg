CONSTANTS
    c1 = c1
    c2 = c2
    c3 = c3
    h1 = h1
    s1 = s1
    s2 = s2
    Conn = {c1, c2, c3}
    Caller = {h1}
    Session = {s1}
    Sends <- OneSession
    MaxInflight = 2
    NoSession = NoSession
    Nobody = Nobody
SPECIFICATION FairSpec
INVARIANTS TurnExclusive PermitsAccounted RegisterMatchesHolders DefiniteVerdictsFinal
PROPERTIES NoDefiniteDuringHandoff TurnReached
CHECK_DEADLOCK FALSE

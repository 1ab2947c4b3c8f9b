SPECIFICATION Spec
CONSTANTS
    b1 = b1
    b2 = b2
    c1 = c1
    c2 = c2
    a1 = a1
    None = None
    Clients = {c1, c2}
    Agents = {a1}
    Browsers = {b1, b2}
    Nonces = {n1, n2}
    Tokens <- MCTokens
    Scope <- MCScope
    MaxSessions = 2
    SessionTtl = 1
    ChallengeTtl = 0
    MaxChallenges = 1
    MaxExchanges = 1
    MaxPosts = 1
SYMMETRY MCSymmetry
INVARIANTS
    TypeOK
    OneSessionPerChallenge
PROPERTIES
    OnlyAuthorized
    EvictsOldest

SPECIFICATION Spec
CONSTANTS
    Agent = {pc}
    Nonce = {n1, n2}
    Address = {i1, i2}
    None = None
    TrustProxy = TRUE
    Drift <- MCDrift
    Skew = 1
    TableLimit = 2
    AgentLimit = 2
    LimitWindow = 2
    MaxTime = 4
    MaxRestarts = 1
SYMMETRY MCSymmetry
INVARIANTS
    NoReplay
    BurstBounded

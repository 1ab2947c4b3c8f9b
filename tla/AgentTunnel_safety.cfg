SPECIFICATION Spec
CONSTANTS
    k1 = k1
    k2 = k2
    pc = pc
    c1 = c1
    c2 = c2
    x1 = x1
    None = None
    Client <- TwoClients
    Agent <- MCAgent
    agentOf <- MCAgentOf
    Conn <- TwoConns
    Exchange <- OneExchange
    Mishaps = {"break", "throttle", "restart", "lock", "address"}
    MaxMishaps = 1
INVARIANTS
    TypeOK
    OpenTunnelIsRegistered
    NoOrphanExchange
    OneAttempt
    WorkHasSocket
    RefusedOnlyIfRevoked
PROPERTIES
    RevokedStaysOut

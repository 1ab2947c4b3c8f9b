SPECIFICATION FairSpec
CONSTANTS
    k1 = k1
    k2 = k2
    pc = pc
    c1 = c1
    c2 = c2
    x1 = x1
    None = None
    Client <- OneClient
    Agent <- MCAgent
    agentOf <- MCAgentOf
    Conn <- TwoConns
    Exchange <- OneExchange
    Mishaps = {"break", "slow", "proof", "throttle", "restart", "shutdown"}
    MaxMishaps = 1
PROPERTIES
    ExchangesEnd
    Reattached
    ClosingTunnelsLeave
    ShutdownEnds

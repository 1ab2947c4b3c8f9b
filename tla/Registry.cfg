SPECIFICATION Spec
CONSTANTS
    s1 = s1
    s2 = s2
    i1 = i1
    i2 = i2
    i3 = i3
    hostname = hostname
    laptop = laptop
    None = None
    Relay = Relay
    Host = hostname
    AgentId <- MCAgentId
    Label <- MCLabel
    Process <- MCProcess
SYMMETRY MCSymmetry
INVARIANTS
    LabelsUnique
    RevokeAnswersTrue
    PrintedIsStored

SPECIFICATION AgentSpec
CONSTANTS
    s1 = s1
    s2 = s2
    None = None
    Session = {s1, s2}
    Protocol <- Mixed
INVARIANTS SpokenInTurn OpenIsListed EndedIsHungUp AgentInv

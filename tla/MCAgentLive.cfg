SPECIFICATION AgentSpec
CONSTANTS
    s1 = s1
    s2 = s2
    None = None
    Session = {s1}
    Protocol <- Streams
PROPERTIES ClosedIsHungUp FailureIsReported LostIsHungUp

SPECIFICATION JointSpec
CONSTANTS
    a1 = a1
    c1 = c1
    c2 = c2
    s1 = s1
    s2 = s2
    None = None
    Id = {a1}
    ClientID <- OneAgent
    Asked <- AskedOne
    ToLower <- Lower
    Conn = {c1}
    Session = {s1}
    Protocol <- Stream
    Capacity = 1
    Events = {"end"}
    Frail = {}
    Operated = {}
CHECK_DEADLOCK FALSE
PROPERTIES FailureIsNotified

SPECIFICATION FairSpec
CONSTANTS
    Sockets = {s1, s2}
    Deadlines = {d1, d2}
    None = None
PROPERTIES
    DeadLinkIsNoticed
    PingersEnd

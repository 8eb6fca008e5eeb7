SPECIFICATION FairSpec
CONSTANTS
    Publishes = {p1, p2, p3, p4}
    Timers = {t1, t2, t3}
    Interval = 2
    MaxMessages = 2
    None = None
INVARIANTS
    InOnePlace
PROPERTIES
    OwnTimerThrottles
    PublishAnswered

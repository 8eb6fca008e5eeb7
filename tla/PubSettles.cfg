SPECIFICATION PubFairSpec
CONSTANTS
    Sockets = {s1, s2}
    Timers = {t1}
    Callers = {a1}
    Closers = {k1}
    None = None
    AutoReconnect = FALSE
    StaticCredential = TRUE
    UseAfterClose = FALSE
    InternalConnects = TRUE
    Msgs = {m1}
    RequestIds = {i1, i2}
    Flush = Flush
    Queueing = FALSE
\* Each publish is called once: the system stops when all have been settled.
CHECK_DEADLOCK FALSE
INVARIANTS
    ClosedHasNoPublish
PROPERTIES
    PublishSettles

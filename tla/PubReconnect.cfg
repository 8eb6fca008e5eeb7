SPECIFICATION PubSpec
CONSTANTS
    Sockets = {s1, s2}
    Timers = {t1}
    Callers = {}
    Closers = {}
    None = None
    AutoReconnect = TRUE
    StaticCredential = TRUE
    UseAfterClose = FALSE
    InternalConnects = TRUE
    Msgs = {m1, m2}
    RequestIds = {i1, i2, i3}
    Flush = Flush
    Queueing = TRUE
SYMMETRY Symmetry
\* Each publish is called once: the system stops when all have been settled.
CHECK_DEADLOCK FALSE
INVARIANTS
    QueuedIsFlushed
    AnswersRouted
PROPERTIES
    KeepsContract

SPECIFICATION FairSpec
CONSTANTS
    Sockets = {s1, s2}
    Timers = {t1, t2}
    Callers = {a1}
    Closers = {k1}
    None = None
    AutoReconnect = TRUE
    StaticCredential = TRUE
    UseAfterClose = FALSE
    InternalConnects = TRUE
INVARIANTS
    ConnectedIsWatched
    ConnectingHasAttempt
    OneLiveSocket
    ArmedIsReferenced
PROPERTIES
    NoResurrection
    FailedOnlyOnRejection
    DropIsNoticed
    ConnectReturns

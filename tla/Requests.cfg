SPECIFICATION Spec
CONSTANTS
    r1 = r1
    r2 = r2
    Requests = {r1, r2}
    KindOf <- MCKindOf
    Sockets = {s1, s2}
    None = None
\* Each request is called once, and Close may come last.
CHECK_DEADLOCK FALSE
INVARIANTS
    OneOutcome
    AnswersFit
    WaitingIsServed

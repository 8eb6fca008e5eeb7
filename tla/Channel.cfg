SPECIFICATION Spec
CONSTANTS
    Instances = {i1, i2}
    Requests = {r1, r2}
    MaxEpoch = 2
    MaxEvents = 2
    Denials = {"capability", "error"}
    Ends = {"closed"}
    None = None
SYMMETRY Symmetry
CONSTRAINT BeforeOverlap
INVARIANTS
    AttachedIsRemembered
    AttachedIsSubscribed
    DetachedIsForgotten

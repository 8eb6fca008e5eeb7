SPECIFICATION Spec
CONSTANTS
    Instances = {i1}
    Requests = {r1}
    MaxEpoch = 1
    MaxEvents = 2
    Denials = {}
    Ends = {}
    None = None
INVARIANT SuspendedReattaches

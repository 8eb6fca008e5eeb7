SPECIFICATION Spec
CONSTANTS
    Fns = {"match","other"}
    Drainers = {d1, d2}
    None = None
    Tasks = {t1}
    Listeners = {1, 2}
    CatchAll = {2}
    OneShot = {1}
    Requests = {r1, r2}
    Data = {e1, e2}
SYMMETRY Symmetry
CONSTRAINTS
    OneInOrder
    FewWait
INVARIANTS
    TypeOK
    ListenedIsWatched
    WatchSettles
    MemberSettles
PROPERTIES
    RunsInOrder
    OnceFiresOnce

SPECIFICATION Spec
CONSTANTS
    m1 = m1
    m2 = m2
    m3 = m3
    MaxSerial = 3
    Ids = {m1, m2, m3}
    Members <- MCMembers
    DedupMax = 3
    Subs = {g1, g2}
    MaxDrops = 1
    Retention = TRUE
    None = None
SYMMETRY Symmetry
\* The server stores finitely many records.
CHECK_DEADLOCK FALSE
INVARIANTS
    CursorContiguous
    DeliveredOnce
    ResumeIsComplete

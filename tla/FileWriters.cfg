\* A save that changes the password, two creations, and an export to the
\* file of the second vault.
SPECIFICATION Spec
CONSTANTS
    p1 = p1
    p2 = p2
    d = d
    Savers = {s1}
    Rekeys = {s1}
    Creators = {c1, c2}
    Exporters = {e1}
    Paths = {p1, p2}
    Old = {p1}
    Dests = {p2}
    Stem <- OwnStem
    None = None
    Torn = Torn
    Mixed = Mixed
    Locked = Locked
INVARIANTS TypeOK WholeFiles AckedKept ExportCurrent ExportOpens
PROPERTY FilesKept
CHECK_DEADLOCK FALSE
SYMMETRY Twins

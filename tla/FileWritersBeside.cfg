\* The export goes to "p1.bak" beside "p1.qvault".
SPECIFICATION Spec
CONSTANTS
    p1 = p1
    p2 = p2
    d = d
    Savers = {s1}
    Rekeys = {s1}
    Creators = {c1, c2}
    Exporters = {e1}
    Paths = {p1, p2}
    Old = {p1}
    Dests = {d}
    Stem <- VaultStem
    None = None
    Torn = Torn
    Mixed = Mixed
    Locked = Locked
INVARIANT SourceNeverTorn
CHECK_DEADLOCK FALSE
SYMMETRY Twins

\* Two clients at the edges of a short window, locks, and two tokens.
SPECIFICATION FairSpec
CONSTANTS
    Clients = {a, b}
    Tokens = {t1, t2}
    MAX_REVEALS_PER_WINDOW = 2
    WINDOW_SECS = 2
    TOKEN_TTL = 2
    Absent = Absent
INVARIANTS TypeOK QuotaKept OneUse LockEndsReveals
PROPERTY WindowEnds

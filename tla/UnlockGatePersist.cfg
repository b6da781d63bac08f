\* A caller below the limit next to one that reaches it.
SPECIFICATION Spec
CONSTANTS
    Callers = {a,b}
    MAX_UNLOCK_ATTEMPTS = 2
    LOCKOUT_DURATION_SECS = 2
    MaxFailures = 5
SYMMETRY Symmetry
INVARIANT LockoutPersisted

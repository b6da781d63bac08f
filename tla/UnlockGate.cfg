\* Three callers, locks and restarts, and more guesses than are allowed.
SPECIFICATION Spec
CONSTANTS
    Callers = {a, b, c}
    MAX_UNLOCK_ATTEMPTS = 2
    LOCKOUT_DURATION_SECS = 2
    MaxFailures = 7
INVARIANTS TypeOK GuessesBounded
PROPERTIES NoGuessInLockout LockoutEnds

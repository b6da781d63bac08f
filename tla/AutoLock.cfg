\* Two clients, saves that fail or overlap: which timeout is in force, and
\* does an idle vault, or one whose window loses the focus, get locked?
SPECIFICATION FairSpec
CONSTANTS
    Calls = {a, b}
    Timeouts <- NeverOrDefault
    DefaultTimeout = 1
    Nothing = Nothing
    MaxSecs = 1
INVARIANTS TypeOK SavedInForce
PROPERTIES IdleLocks BlurLocks

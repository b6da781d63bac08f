\* A vault whose owner has switched auto-lock off.
SPECIFICATION FairSpec
CONSTANTS
    Calls = {a, b}
    Timeouts <- NeverOrDefault
    DefaultTimeout = 2
    Nothing = Nothing
    MaxSecs = 2
PROPERTY LocksAsConfigured

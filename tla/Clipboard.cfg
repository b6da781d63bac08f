\* Three overlapping copies and one clear: who overwrites the secret?
SPECIFICATION FairSpec
CONSTANTS
    Copies = {c1, c2, c3}
    Clears = {k1}
    Rounds = 1
    NoTask = NoTask
    Other = Other
INVARIANTS TypeOK SecretCovered
PROPERTY SecretCleared

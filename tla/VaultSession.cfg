\* Four overlapping commands on one vault, two passwords, legacy KDF
\* parameters: safety, by symmetry of the commands.
SPECIFICATION Spec
CONSTANTS
    Req = {r1, r2, r3, r4}
    Paths = {p1}
    Passwords = {w1, w2}
    Kdfs = {legacy, current}
    CurrentKdf = current
    NoReq = NoReq
    NoPath = NoPath
    NoFile = NoFile
    Partial = Partial
    Locked = Locked
    RateLimited = RateLimited
    NoView = NoView
SYMMETRY Symmetry
INVARIANTS TypeOK DiskSound SessionSound AckedOnDisk UnsavedIsReported PasswordAsTold

\* Three overlapping commands, two vaults: the session implements the promise,
\* and every command returns under the fairness of the runtime.
SPECIFICATION FairSpec
CONSTANTS
    Req = {r1, r2, r3}
    Paths = {p1, p2}
    Passwords = {w1, w2}
    Kdfs = {current}
    CurrentKdf = current
    NoReq = NoReq
    NoPath = NoPath
    NoFile = NoFile
    Partial = Partial
    Locked = Locked
    RateLimited = RateLimited
    NoView = NoView
PROPERTIES PromiseKept Returns

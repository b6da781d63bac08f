\* Two tries, a page and a lock button.
SPECIFICATION FairSpec
CONSTANTS
    Tries = {t1, t2}
    Pages = {page}
    Lists = {"entries"}
    Locks = {k1}
INVARIANTS TypeOK LockNoticed
PROPERTY LockReachesWindow

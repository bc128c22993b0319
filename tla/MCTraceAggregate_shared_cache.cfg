CONSTANTS
    t1 = t1
    t2 = t2
    p1 = p1
    p2 = p2
    Traces = {t1, t2}
    Paths = {p1, p2}
    Contents <- MCContents
    PathLists <- MCPathLists
    Pids = {1}
    None = None
    KeyError = KeyError
    Unread = Unread
SPECIFICATION Spec
INVARIANT CachedCoherent
\* A constructor that raised leaves the caller without an object: that
\* run of the process stops there.
CHECK_DEADLOCK FALSE

\* Two users whose messages have the same id, failing commands, crashes.
\* The number of goroutines is bounded, so the system may stop.
CONSTANTS
    h1 = h1  h2 = h2  h3 = h3  u1 = u1  u2 = u2  m1 = m1  t1 = t1  t2 = t2
    Handlers = {h1, h2, h3}
    Users = {u1, u2}
    UserOf <- ThreeHandlers
    Ids = {m1}
    Texts = {t1, t2}
    MaxJobs = 2
    MayFail = TRUE
    MayCrash = TRUE
    None = None
SPECIFICATION Spec
SYMMETRY Alike
CHECK_DEADLOCK FALSE
INVARIANTS
    EventsBacked
    StoredAfterBroadcast
PROPERTIES
    DeletedFrozen
    AuthorFixed

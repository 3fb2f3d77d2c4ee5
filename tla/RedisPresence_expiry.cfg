\* Two streams of one user; every Redis command may fail and pods crash.
CONSTANTS
    s1 = s1  s2 = s2  u1 = u1
    Streams = {s1, s2}
    Users = {u1}
    UserOf <- OneUser
    TTL = 4
    Refresh = 2
    RedisFails = TRUE
SPECIFICATION FairSpec
INVARIANTS
    StaleAtMostTTL
    OpenStaysOnline
PROPERTIES
    GhostsExpire

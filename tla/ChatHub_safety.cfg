\* Two streams of one user on a pod that accepts one, two rooms in one shard, a
\* channel that two messages fill.
CONSTANTS
    s1 = s1  s2 = s2  s3 = s3  c1 = c1
    r1 = r1  r2 = r2  u1 = u1  u2 = u2
    NoRoom = NoRoom
    Streams = {s1, s2}
    Calls = {}
    Rooms = {r1, r2}
    Users = {u1}
    UserOf <- OneUser
    ShardOf <- SameShard
    MaxConns = 1
    SendCap = 2
    MaxFrames = 0
SPECIFICATION Spec
INVARIANTS
    NoSendOnClosed
    OneSubscriptionPerRoom
    ConnCountExact
    NoGhostOnline
    FifoPerAuthor
PROPERTIES
    ImplementsFeed
SYMMETRY Symmetric
\* Every handler may have returned, or wait for a client that stays silent.
CHECK_DEADLOCK FALSE

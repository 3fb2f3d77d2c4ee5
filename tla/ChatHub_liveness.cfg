\* A stream whose client may never read, and a unary call that broadcasts to
\* it; a channel that a single message fills.
CONSTANTS
    s1 = s1  s2 = s2  s3 = s3  c1 = c1
    r1 = r1  r2 = r2  u1 = u1  u2 = u2
    NoRoom = NoRoom
    Streams = {s1}
    Calls = {c1}
    Rooms = {r1, r2}
    Users = {u1}
    UserOf <- JustOne
    ShardOf <- SameShard
    MaxConns = 0
    SendCap = 1
    MaxFrames = 2
SPECIFICATION FairSpec
INVARIANTS
    RoomIsolation
PROPERTIES
    BroadcastReturns
    DeadStreamReaped
\* Every handler may have returned, or wait for a client that stays silent.
CHECK_DEADLOCK FALSE

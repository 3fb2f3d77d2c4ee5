\* One stream whose client disconnects, and a unary call.
CONSTANTS
    s1 = s1  s2 = s2  s3 = s3  c1 = c1
    r1 = r1  r2 = r2  u1 = u1  u2 = u2
    NoRoom = NoRoom
    Streams = {s1}
    Calls = {c1}
    Rooms = {r1}
    Users = {u1}
    UserOf <- JustOne
    ShardOf <- OneShard
    MaxConns = 0
    SendCap = 1
    MaxFrames = 1
SPECIFICATION FairSpec
PROPERTIES
    DisconnectUnregisters
\* Every handler may have returned, or wait for a client that stays silent.
CHECK_DEADLOCK FALSE

\* Two calls that create the DM of two users, or groups; commands fail.
\* Everything is bounded, so the system may stop.
CONSTANTS
    c1 = c1  c2 = c2
    Callers = {c1, c2}
    UserA <- Bob
    UserB <- Alice
    Users <- TwoUsersOnly
    GroupMembers <- TwoUsersOnly
    UuidParts = 2
    DM = DM
    Legacy = Legacy
    None = None
    MaxPosts = 1
    MayFail = TRUE
SPECIFICATION FairSpec
CHECK_DEADLOCK FALSE
INVARIANTS
    MembersComplete
    ReplyBacked
    ListedOnce
PROPERTIES
    DmListed

\* Three users, two handlers, second commands that fail.
\* The number of RPCs is bounded, so the system may stop.
CONSTANTS
    u1 = u1  u2 = u2  u3 = u3  o1 = o1  o2 = o2
    Users = {u1, u2, u3}
    Ops = {o1, o2}
    MayFail = TRUE
    None = None
    MaxCalls = 5
SPECIFICATION Spec
CHECK_DEADLOCK FALSE
SYMMETRY Symmetric
INVARIANTS
    MembersAgree
    OneOwner

\* One pod whose room empties while its consumer dispatches.
\* Everything is bounded, so the system may stop.
CONSTANTS
    p1 = p1  p2 = p2
    Pods = {p1}
    NoPod = NoPod
    ChanCap = 1
    MaxRecords = 2
    MaxGens = 1
    MaxMoves = 0
SPECIFICATION Spec
CHECK_DEADLOCK FALSE
INVARIANTS
    SendsToRegistered

\* Two pods, a channel that one record fills, two crashes or moves of the partition.
\* Everything is bounded, so the system may stop.
CONSTANTS
    p1 = p1  p2 = p2
    Pods = {p1, p2}
    NoPod = NoPod
    ChanCap = 1
    MaxRecords = 2
    MaxGens = 1
    MaxMoves = 2
SPECIFICATION FairSpec
CHECK_DEADLOCK FALSE
INVARIANTS
    CommittedCovered
PROPERTIES
    EveryRecordDispatched

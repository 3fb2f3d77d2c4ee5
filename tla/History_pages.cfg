\* Two old messages and a new one, pages of one and two.
\* The clock and the messages are bounded, so the system may stop.
CONSTANTS
    m1 = m1  m2 = m2  m3 = m3
    Pairs <- BothKinds
    Messages = {m1, m2, m3}
    Old = {m1, m2}
    Images = {m1, m3}
    UuidParts = 2
    DefaultLimit = 1
    MaxLimit = 2
    Limits = {0, 2, 3}
    OldTime = 2
    MaxTime = 3
SPECIFICATION HistorySpec
CHECK_DEADLOCK FALSE
INVARIANTS
    PagesComplete
    PagesOnce
    ReadAsSent
    SearchInHistory

    

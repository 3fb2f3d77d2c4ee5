\* A call broadcasts across while the other pod's entry comes and goes; one of
\* the streams there sends a frame.  PUBLISH fails on cancelled contexts.
\* Streams and calls end, so the system may stop.
CONSTANTS
    s1 = s1  s2 = s2  c1 = c1  p1 = p1  p2 = p2
    Pods = {p1, p2}
    Streams = {s1, s2}
    Calls = {c1}
    PodOf <- CallAcross
    Slow = {}
    Talkers = {s1}
    MayFail = FALSE
    MaxContent = 1
    MaxGens = 2
SPECIFICATION Spec
CHECK_DEADLOCK FALSE
INVARIANTS
    RemoteAtMostOnce
    LocalAtMostTwice

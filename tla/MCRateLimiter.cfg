\* Two threads race on one peer's bucket with two limits and no limit (0).
CONSTANTS
    Peer = {p1}
    Thread = {t1, t2}
    Rate = {0, 1, 2}
    MaxRate = 2
    Sec = 2
    MaxClock = 4
SPECIFICATION Spec
INVARIANT TypeOK
INVARIANT WindowBound
PROPERTY IdleSecondAdmits

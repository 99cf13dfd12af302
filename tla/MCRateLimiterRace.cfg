\* One limit, two threads: the clock is read outside the mutex.
CONSTANTS
    Peer = {p1}
    Thread = {t1, t2}
    Rate = {1}
    MaxRate = 1
    Sec = 2
    MaxClock = 4
SPECIFICATION Spec
INVARIANT StrictRate

SPECIFICATION Spec
CONSTANTS
    Keys = {k1, k2}
    Tasks = {t1, t2, t3}
    NoTask = NoTask
    TTL = 2
    MaxDelay = 1
    MaxTime = 4
INVARIANTS NoStaleAnswer SingleFlight TimerCoversOldest
PROPERTIES ExpiredReleased

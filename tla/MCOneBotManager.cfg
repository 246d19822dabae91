SPECIFICATION Spec
CONSTANTS
    Logins = 3
INVARIANTS TypeOK OneGeneration ServesPresentSession ZombiesObservable DisposedCleanly FailuresStand
PROPERTY SessionServed
CHECK_DEADLOCK FALSE

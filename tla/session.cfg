\* Two planned ends of the session, one signal, one control command, a window that may fail.
SPECIFICATION FairSpec
CONSTANTS
    Free = Free
    MaxQueries = 2
CHECK_DEADLOCK FALSE
INVARIANTS
    TypeOK
    NotifiedMeansNeutral
    NoMutualWait
    StopsForACause
    WatchedWhileRunning
PROPERTY StopsAreHeeded

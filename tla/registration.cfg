\* Four runs of the script, each of which may be cut off.  It stops after the last one.
SPECIFICATION Spec
CONSTANTS
    None = None
    Torn = Torn
    Empty = Empty
    MaxRuns = 4
INVARIANT NothingIsLost
CHECK_DEADLOCK FALSE

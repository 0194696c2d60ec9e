\* One enumeration that fails, then a stop.
SPECIFICATION Spec
CONSTANTS
    Paths = {p1, p2}
    NoPath = NoPath
    Forces <- MCForces
    LeftForces <- MCNone
    DIMax = 8
    HalfRange = 4
    Watchdog = 2
    PollEvery = 3
    RetryAfter = 5
    ReenumTimeout = 3
    Faults = {"enumerate"}
    MaxFaults = 1
INVARIANT ShutdownNeutral

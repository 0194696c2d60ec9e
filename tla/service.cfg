\* Two ports, a failure of any kind, forces of both signs, a force left on the wheel.
SPECIFICATION FairSpec
CONSTANTS
    Paths = {p1, p2}
    NoPath = NoPath
    Forces <- MCPull
    LeftForces <- MCLeft
    DIMax = 8
    HalfRange = 4
    Watchdog = 1
    PollEvery = 2
    RetryAfter = 2
    ReenumTimeout = 1
    Faults = {"write", "open", "enumerate", "fatal"}
    MaxFaults = 1
INVARIANTS TypeOK CacheMatchesWheel NeutralWhenQuiet StatusTellsTheTruth EveryExitNeutralises
PROPERTIES RestartsGently TorqueIsReclaimed StopEnds NativeIsOpened

\* Every kind of effect at a wheel that reports three times.
SPECIFICATION FairSpec
CONSTANTS
    Messages <- MCMessages
    DIMax = 10000
    Infinite = Infinite
    Steps = 2
    TicksPerSecond = 40
    StaleAfter = 2
    MaxGap = 4
    MaxReports = 3
    Horizon = 5
INVARIANTS SmoothingAmplifiesNothing EnvelopeIsHonoured
PROPERTIES ConditionsNeverJump RestIsQuiet

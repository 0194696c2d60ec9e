\* One effect, two outputs that may overlap, a gain beyond the maximum, and one fault: a
\* datagram lost, a death of the game or a stop of the receiver.
SPECIFICATION FairSpec
CONSTANTS
    Outputs = {o1, o2}
    EffectIds = {e1}
    Levels <- MCLevels
    Gains = {3}
    Commands = {"reset"}
    DIMax = 2
    None = None
    Heartbeat = 1
    Late = 0
    Watchdog = 2
    MaxFaults = 1
INVARIANTS TypeOK
PROPERTIES WheelSettles WatchdogSparesTheLiving

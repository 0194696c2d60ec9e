\* A removal after an installation that was cut off while it wrote its state file.
SPECIFICATION Spec
CONSTANTS
    None = None
    Torn = Torn
    Empty = Empty
    MaxRuns = 2
INVARIANT RemovalRestoresAll
CHECK_DEADLOCK FALSE

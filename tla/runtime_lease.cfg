\* Two data directories, whose instances want the same wheel.
SPECIFICATION FairSpec
CONSTANTS
    run1 = run1
    start1 = start1
    start2 = start2
    c1 = c1
    c2 = c2
    home = home
    other = other
    Servers = {run1, start1, start2}
    Clients = {c1, c2}
    Roots = {home, other}
    Home <- MCTwoHomes
    Given <- MCStopStart
    Child <- MCChild
    Free = Free
    Nobody = Nobody
    Polls = 1
    MaxFaults = 1
CHECK_DEADLOCK FALSE
PROPERTIES LeaseSpec CommandsAreAnswered StopsAreHeeded

\* One data directory: a run, two commands that may start an instance each, one of them a stop, one fault.
SPECIFICATION Spec
CONSTANTS
    run1 = run1
    start1 = start1
    start2 = start2
    c1 = c1
    c2 = c2
    home = home
    other = other
    Servers = {run1, start1, start2}
    Clients = {c1, c2}
    Roots = {home}
    Home <- MCOneHome
    Given <- MCStartStop
    Child <- MCChild
    Free = Free
    Nobody = Nobody
    Polls = 1
    MaxFaults = 1
CHECK_DEADLOCK FALSE
INVARIANTS
    TypeOK
    DirectoryHasOneHolder
    EndpointIsTrue
    CleanExitLeavesNoEndpoint
    StopMeansStopped

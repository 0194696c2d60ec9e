\* A service that is restarted once, one send that fails, two games, a driver that holds one effect at most.
SPECIFICATION FairSpec
CONSTANTS
    EffectIds <- MCIds
    Shapes <- MCShapes
    Counts <- MCCounts
    Gains <- MCOneGain
    DIMax = 2
    Infinite = Infinite
    NoEffect = NoEffect
    NoSession = NoSession
    Commands <- MCStops
    MaxEffects = 1
    MaxQueue = 1
    MaxConns = 2
    MaxKills = 1
    MaxBreaks = 1
INVARIANT NothingUnasked
PROPERTY GamesAreForgotten

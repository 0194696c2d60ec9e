\* A service that stays: two effects, two messages on their way.
SPECIFICATION Spec
CONSTANTS
    EffectIds <- MCIds
    Shapes <- MCShapes
    Counts <- MCCounts
    Gains <- MCGains
    DIMax = 2
    Infinite = Infinite
    NoEffect = NoEffect
    NoSession = NoSession
    Commands <- MCCommands
    MaxEffects = 2
    MaxQueue = 2
    MaxConns = 1
    MaxKills = 0
    MaxBreaks = 0
INVARIANTS TypeOK MirrorIsTrue


\* A game that comes and goes, two effects whose forces cancel: delays, iterations, pauses, late passes.
SPECIFICATION Spec
CONSTANTS
    EffectIds = {e1, e2}
    Shapes <- MCShapes
    Counts <- MCCounts
    Gains <- MCGains
    DIMax = 2
    Infinite = Infinite
    NoEffect = NoEffect
    NoSession = NoSession
    MaxClients = 1
    MaxTime = 3
INVARIANTS TypeOK StoppedMeansSilent ForceMeansActive SessionsBelongToClients
PROPERTY KeepsTime
SYMMETRY MCSymmetry

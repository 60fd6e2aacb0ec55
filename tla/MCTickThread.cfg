SPECIFICATION ThreadSpec
CONSTANTS
    Intervals = {2, 3}
    MaxTime = 6
    MaxTicks = 3
    StartSize = 2048
    MaxSize = 8192
    MaxSubChunks = 2
    MaxLayers = 1
    Layers <- MCLayers
INVARIANTS
    OneMoreTick
    WithinBuffer
PROPERTIES
    NoBurst
    EndsIfItFits
    StopReturns

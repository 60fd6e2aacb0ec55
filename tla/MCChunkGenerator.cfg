CONSTANTS
    Players = {alice, bob}
    Places <- MCPlaces
    Distances <- MCDistances
    MaxChunksToSend = 2
    MaxMoves = 3
SPECIFICATION LiveSpec
INVARIANT ViewersExact
PROPERTY Converges

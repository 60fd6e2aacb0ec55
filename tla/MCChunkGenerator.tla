-------------------------- MODULE MCChunkGenerator --------------------------
\* Two players next to each other, whose ranges overlap, or not.
EXTENDS ChunkGenerator

MCPlaces == {0, 2}
MCDistances == {-1, 0, 1}
=============================================================================

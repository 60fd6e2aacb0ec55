----------------------------- MODULE MCTickThread -----------------------------
\* Two subchunks of one layer at most, with the sizes of storages of 64 and of 97
\* states in the code.  In a largest buffer of 8192 bytes two of the larger kind find
\* no room; with one of each the last biome finds one byte too few.
EXTENDS TickThread
Packing == INSTANCE BlockPacking WITH Cells <- 4096, Unset <- 0

\* The first state takes a byte and the palette's size two where five are reserved.
MCLayers ==
    {[needed |-> Packing!NeededSize(n),
      written |-> Packing!NeededSize(n) - 7] : n \in {64, 97}}
=============================================================================

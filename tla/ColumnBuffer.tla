----------------------------- MODULE ColumnBuffer -----------------------------
(***************************************************************************)
(* The buffer Chunk::serialize writes a column into: a ResizableCursor     *)
(* that doubles up to a largest size.  growToFit asks for room before each *)
(* piece, by an estimate that the piece does not exceed; only the last     *)
(* byte is written without asking.  Sizes are bytes.                       *)
(***************************************************************************)
EXTENDS Integers

CONSTANTS
    StartSize,     \* what the buffer starts with, 4096
    MaxSize,       \* maxSize_, 65536
    MaxSubChunks,  \* 24
    MaxLayers,     \* bound: layers of a subchunk
    Layers         \* storages, as pieces

ASSUME SizeAssumption ==
    StartSize \in Nat \ {0} /\ MaxSize \in Nat /\ StartSize <= MaxSize

\* What is written is no more than was asked room for.
ASSUME LayersAssumption ==
    /\ Layers \subseteq [needed : Nat, written : Nat]
    /\ \A layer \in Layers : layer.written <= layer.needed

ASSUME ColumnAssumption == MaxSubChunks \in Nat /\ MaxLayers \in Nat

VARIABLES
    size,     \* of ownedBuffer_
    pointer,  \* bytes written
    piece,    \* what growToFit has been asked room for
    stage,    \* "subchunks", "biomes", "done"
    subChunks,    \* subchunks subChunks
    layers,   \* layers of the last one
    biomes    \* subchunks whose biomes were written

bufferVars == <<size, pointer, piece, stage, subChunks, layers, biomes>>

Piece(needed, written) == [needed |-> needed, written |-> written]

Nothing == Piece(0, 0)

BufferInit ==
    /\ size = StartSize /\ pointer = 0
    /\ piece = Nothing
    /\ stage = "subchunks" /\ subChunks = 0 /\ layers = 0 /\ biomes = 0
-----------------------------------------------------------------------------
(* growToFit.                                                              *)

Fits == size - pointer >= piece.needed

\* Mutant of NewSize: the buffer stays below its largest size.
NewSizeBelow == IF 2 * size >= MaxSize THEN size ELSE 2 * size

NewSize == IF 2 * size > MaxSize THEN MaxSize ELSE 2 * size

\* At the largest size this changes nothing, again and again.
Grow ==
    /\ piece # Nothing /\ ~ Fits
    /\ size' = NewSize
    /\ UNCHANGED <<pointer, piece, stage, subChunks, layers, biomes>>

Write ==
    /\ piece # Nothing /\ Fits
    /\ pointer' = pointer + piece.written
    /\ piece' = Nothing
    /\ UNCHANGED <<size, stage, subChunks, layers, biomes>>
-----------------------------------------------------------------------------
(* serialize.                                                              *)

\* The version and the number of layers.
SubChunk ==
    /\ stage = "subchunks" /\ piece = Nothing
    /\ subChunks < MaxSubChunks
    /\ piece' = Piece(2, 2)
    /\ subChunks' = subChunks + 1 /\ layers' = 0
    /\ UNCHANGED <<size, pointer, stage, biomes>>

Layer ==
    /\ stage = "subchunks" /\ piece = Nothing
    /\ subChunks > 0 /\ layers < MaxLayers
    /\ piece' \in Layers
    /\ layers' = layers + 1
    /\ UNCHANGED <<size, pointer, stage, subChunks, biomes>>

EndOfSubChunks ==
    /\ stage = "subchunks" /\ piece = Nothing
    /\ stage' = "biomes"
    /\ UNCHANGED <<size, pointer, piece, subChunks, layers, biomes>>

\* Mutant of BiomePiece: room is asked for the biome and not for its header.
BiomePieceShort == Piece(4, 5)

BiomePiece == Piece(5, 5)

Biome ==
    /\ stage = "biomes" /\ piece = Nothing
    /\ biomes < subChunks
    /\ piece' = BiomePiece
    /\ biomes' = biomes + 1
    /\ UNCHANGED <<size, pointer, stage, subChunks, layers>>

\* The border blocks' count, wherever the buffer ends.
LastByte ==
    /\ stage = "biomes" /\ piece = Nothing
    /\ biomes = subChunks
    /\ pointer' = pointer + 1
    /\ stage' = "done"
    /\ UNCHANGED <<size, piece, subChunks, layers, biomes>>

BufferNext == Grow \/ Write \/ SubChunk \/ Layer \/ EndOfSubChunks \/ Biome \/ LastByte

BufferSpec == BufferInit /\ [][BufferNext]_bufferVars
-----------------------------------------------------------------------------
BufferTypeOK ==
    /\ size \in Nat \ {0} /\ pointer \in Nat
    /\ piece \in [needed : Nat, written : Nat]
    /\ stage \in {"subchunks", "biomes", "done"}
    /\ subChunks \in 0 .. MaxSubChunks /\ layers \in 0 .. MaxLayers /\ biomes \in 0 .. subChunks

\* Nothing is written behind the buffer's end, at any size, except that the column's
\* last byte may be the one behind it.
WithinBuffer ==
    /\ size <= MaxSize
    /\ pointer <= size + (IF stage = "done" THEN 1 ELSE 0)

\* A piece for which even the largest buffer has no room.
TooLarge == pointer + piece.needed > MaxSize

=============================================================================

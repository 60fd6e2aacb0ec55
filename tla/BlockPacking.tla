---------------------------- MODULE BlockPacking ----------------------------
(***************************************************************************)
(* The data of BlockStorage, the blocks of one layer of a subchunk: a      *)
(* palette of the states used and an index into it for each block, packed  *)
(* into 32-bit words on the wire and, the same way, on disk.               *)
(* A word is the set of its bits that are 1.                               *)
(***************************************************************************)
EXTENDS Integers, Sequences

CONSTANTS
    Cells,  \* MAX_SIZE, 4096: blocks of a subchunk
    Unset   \* the state 0, of blocks nobody set

Cell == 0 .. Cells - 1

\* BlockStorage(): the palette is never empty.
NewStorage == [palette |-> <<Unset>>, blocks |-> [c \in Cell |-> 0]]

GetState(storage, c) == storage.palette[storage.blocks[c] + 1]

\* Only a storage nobody set anything in is empty: states that are no longer used
\* stay in the palette.
IsEmpty(storage) == storage.palette = <<Unset>>

\* Where the state is in the palette, or will be.
PaletteIndex(palette, state) ==
    LET found == {i \in DOMAIN palette : palette[i] = state}
    IN IF found = {} THEN Len(palette)
       ELSE (CHOOSE i \in found : \A j \in found : i <= j) - 1

SetState(storage, c, state) ==
    LET index == PaletteIndex(storage.palette, state)
    IN [palette |-> IF index = Len(storage.palette) THEN Append(storage.palette, state)
                    ELSE storage.palette,
        blocks |-> [storage.blocks EXCEPT ![c] = index]]
-----------------------------------------------------------------------------
(* serialize's packing.                                                    *)

\* What bit n is worth, 1 << n.
BitValue[n \in 0 .. 16] == IF n = 0 THEN 1 ELSE 2 * BitValue[n - 1]

\* ceil(log2(n)).
LogUp(n) == CHOOSE b \in 0 .. 16 : n <= BitValue[b] /\ \A a \in 0 .. b - 1 : BitValue[a] < n

AtLeast(n, least) == IF n < least THEN least ELSE n

\* Mutant of BitsPerBlock: 16 bits only for more than nine.
BitsPerBlockNineIsEight(paletteSize) ==
    LET bits == LogUp(AtLeast(paletteSize, 2))
    IN IF bits \in 7 .. 9 THEN 8 ELSE IF bits > 9 THEN 16 ELSE bits

\* The widths the format knows.
Widths == {1, 2, 3, 4, 5, 6, 8, 16}

BitsPerBlock(paletteSize) ==
    LET bits == LogUp(AtLeast(paletteSize, 2))
    IN IF bits \in 7 .. 8 THEN 8 ELSE IF bits > 8 THEN 16 ELSE bits

BlocksPerWord(bits) == 32 \div bits

WordCount(bits) == (Cells + BlocksPerWord(bits) - 1) \div BlocksPerWord(bits)

\* What serialize asks room for.
NeededSize(paletteSize) ==
    1 + WordCount(BitsPerBlock(paletteSize)) * 4 + 5 + paletteSize * 5

\* What is shifted out of the word is lost, what does not fit its bits runs into
\* the next block's.
Shifted(n, shift) == {i + shift : i \in {j \in 0 .. 15 : (n \div BitValue[j]) % 2 = 1}} \cap (0 .. 31)

Word(blocks, bits, w) ==
    LET first == w * BlocksPerWord(bits)
    IN UNION {Shifted(blocks[first + b], b * bits) :
                b \in {b \in 0 .. BlocksPerWord(bits) - 1 : first + b < Cells}}

Pack(blocks, bits) == [w \in 0 .. WordCount(bits) - 1 |-> Word(blocks, bits, w)]
-----------------------------------------------------------------------------
(* readChunk's unpacking, which is what the client does as well.            *)

BitsAt(word, shift, bits) ==
    LET sum[k \in 0 .. bits] ==
          IF k = 0 THEN 0
          ELSE sum[k - 1] + (IF shift + k - 1 \in word THEN BitValue[k - 1] ELSE 0)
    IN sum[bits]

\* No bits: every block is the palette's only state, and there are no words.
Unpack(words, bits) ==
    [c \in Cell |->
       IF bits = 0 THEN 0
       ELSE BitsAt(words[c \div BlocksPerWord(bits)], (c % BlocksPerWord(bits)) * bits, bits)]
=============================================================================

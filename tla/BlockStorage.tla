---------------------------- MODULE BlockStorage ----------------------------
(***************************************************************************)
(* One BlockStorage as its states are set and it is serialized.  States    *)
(* are numbered in the order they are first set, so that a new one is      *)
(* always the next number.                                                 *)
(***************************************************************************)
EXTENDS BlockPacking

CONSTANTS
    Touched,  \* the blocks the run sets
    Sizes,    \* palette sizes the run starts with
    MaxSets   \* bound: calls of setState after that

\* A palette index is a uint16_t; the states there are stay far below that.
ASSUME StatesAssumption ==
    /\ Cells \in Nat \ {0} /\ Unset = 0
    /\ MaxSets \in Nat /\ Touched \subseteq Cell
    /\ \A n \in Sizes : n \in Nat \ {0} /\ n + MaxSets <= BitValue[16]

VARIABLES
    storage,
    serialized,  \* what serialize wrote since the last call of setState
    lastSet,     \* history: what each block was last set to
    sets         \* what MaxSets bounds

storageVars == <<storage, serialized, lastSet, sets>>

NotSerialized == [bits |-> 0, words |-> <<>>, palette |-> <<>>]

\* The storage after the states 0 .. n - 1 were set in block 0, one after the other.
AfterStates(n) ==
    [palette |-> [i \in 1 .. n |-> i - 1], blocks |-> [NewStorage.blocks EXCEPT ![0] = n - 1]]

StorageInit ==
    /\ \E n \in Sizes : storage = IF n = 1 THEN NewStorage ELSE AfterStates(n)
    /\ serialized = NotSerialized
    /\ lastSet = [c \in Cell |-> IF c = 0 THEN Len(storage.palette) - 1 ELSE Unset]
    /\ sets = 0

\* The first states, the last one and a new one.
SomeStates == {0, 1, Len(storage.palette) - 1, Len(storage.palette)} \cap (0 .. Len(storage.palette))

Set(c, state) ==
    /\ sets < MaxSets
    /\ storage' = SetState(storage, c, state)
    /\ serialized' = NotSerialized
    /\ lastSet' = [lastSet EXCEPT ![c] = state]
    /\ sets' = sets + 1

SerializeStorage ==
    /\ LET bits == BitsPerBlock(Len(storage.palette))
       IN serialized' = [bits |-> bits, words |-> Pack(storage.blocks, bits),
                         palette |-> storage.palette]
    /\ UNCHANGED <<storage, lastSet, sets>>

StorageNext ==
    \/ \E c \in Touched, state \in SomeStates : Set(c, state)
    \/ SerializeStorage

StorageSpec == StorageInit /\ [][StorageNext]_storageVars
-----------------------------------------------------------------------------
\* What is packed, in as many bits as the palette's size calls for, and unpacked
\* again is every block as it was last set, across all widths and part-filled words.
ReadBack ==
    serialized # NotSerialized =>
      LET indices == Unpack(serialized.words, serialized.bits)
      IN \A c \in Cell : serialized.palette[indices[c] + 1] = lastSet[c]

\* No state is twice in the palette, though it outlives the blocks that used it: it
\* grows with the states seen, not with the writes, and keeps to 16 bits.
PaletteOfDistinct ==
    \A i, j \in DOMAIN storage.palette : storage.palette[i] = storage.palette[j] => i = j

\* Unpacked again every block is what it was last set to, and its palette has no
\* state twice.
StorageFaithful == ReadBack /\ PaletteOfDistinct
=============================================================================

----------------------------- MODULE ChunkColumn -----------------------------
(***************************************************************************)
(* A column of subchunks from the disk to the wire: LevelDB::readChunk     *)
(* with the palette's hashes, Chunk and SubChunk with their defaults, and  *)
(* Chunk::serialize with the packet it caches.  Only the tick thread comes *)
(* here.                                                                   *)
(*                                                                         *)
(* The database and the client are external.  A value read or written is a *)
(* datum [kind, v].                                                        *)
(***************************************************************************)
EXTENDS BlockPacking, FiniteSets

CONSTANTS
    MaxSubChunks,  \* MAX_SUB_CHUNKS, 24
    Offset,        \* subchunks below height 0, 4 in the overworld
    Blocks,        \* blocks that may be on disk, as [name, states]
    Stored         \* subchunks that may be on disk, as [version, storages]

\* Of a column's blocks each may have a state of its own.
ASSUME CellsAssumption == Cells \in Nat \ {0} /\ Cells < BitValue[16]

ASSUME HeightAssumption == MaxSubChunks \in Nat \ {0} /\ Offset \in 0 .. MaxSubChunks

VARIABLES
    disk,   \* readChunk's keys: whether the chunk was ever saved, and its subchunks
    chunk,  \* the column in memory, NotLoaded while no player is near
    cache   \* the packet serialize made of it

columnVars == <<disk, chunk, cache>>

Datum(kind, v) == [kind |-> kind, v |-> v]

Height == -Offset .. MaxSubChunks - Offset - 1

\* yToSubChunkIndex for a block of the subchunk at height y.
SubChunkIndex(y) == y + Offset

Missing == [version |-> 0, storages |-> <<>>]

NotLoaded == [i \in {} |-> <<>>]

NoPacket == [count |-> -1, data |-> <<>>]

\* All subchunks are null.
NewChunk == [i \in 0 .. MaxSubChunks - 1 |-> <<>>]

ColumnInit ==
    /\ disk \in [saved : BOOLEAN, at : [Height -> {Missing} \cup Stored]]
    /\ chunk = NotLoaded
    /\ cache = NoPacket
-----------------------------------------------------------------------------
(* Block states.                                                           *)

\* Mutant of Hash: the states in the order they are on disk.
HashAsStored(block) == <<block.name, block.states>>

\* Entries [name, value] by their names, as a std::map has them.
Ascending(entries) ==
    \A i, j \in DOMAIN entries : i < j => entries[i][1] < entries[j][1]

InOrder(states) ==
    CHOOSE s \in [DOMAIN states -> {states[i] : i \in DOMAIN states}] : Ascending(s)

\* FNV-1a over the name and the states in the order of their names: two blocks are
\* taken to have different hashes.
Hash(block) == <<block.name, InOrder(block.states)>>

\* -604749536 is the hash of minecraft:air.
Air == Hash([name |-> 0, states |-> <<>>])
-----------------------------------------------------------------------------
(* Chunk and SubChunk.                                                     *)

Exists(index) == index \in DOMAIN chunk /\ chunk[index] # <<>>

\* A subchunk nothing was set in is air, a layer it has not is unset.
GetBlock(y, c, layer) ==
    LET index == SubChunkIndex(y)
    IN IF ~ Exists(index) THEN Air
       ELSE IF layer > Len(chunk[index]) THEN Unset
       ELSE GetState(chunk[index][layer], c)

\* The layers up to the wanted one are made.
WithLayer(layers, layer) ==
    layers \o [i \in 1 .. layer - Len(layers) |-> NewStorage]

\* What is set out of the column's height ends in one subchunk all of them share.
SetBlock(column, y, c, state, layer) ==
    LET index == SubChunkIndex(y)
    IN IF index \notin DOMAIN column THEN column
       ELSE [column EXCEPT ![index] =
               LET layers == WithLayer(@, layer)
               IN [layers EXCEPT ![layer] = SetState(@, c, state)]]
-----------------------------------------------------------------------------
(* LevelDB::readChunk.                                                     *)

\* Storages as the game saves them: every index is of the palette and fits the width.
DiskStorages ==
    {storage \in [bits : {0} \cup Widths, palette : Seq(Blocks), blocks : [Cell -> Nat]] :
       /\ \A c \in Cell : /\ storage.blocks[c] < Len(storage.palette)
                         /\ storage.blocks[c] < BitValue[storage.bits]
       /\ storage.bits = 0 => Len(storage.palette) = 1}

ASSUME StoredAssumption == Stored \subseteq [version : Nat, storages : Seq(DiskStorages)]

\* A block has no state twice, and no block is taken for unset.
ASSUME BlocksAssumption ==
    \A block \in Blocks :
       /\ block.states \in Seq(Nat \X Nat)
       /\ \A i, j \in DOMAIN block.states : block.states[i][1] = block.states[j][1] => i = j
       /\ Hash(block) # Unset

\* One after the other.
Concat(parts) ==
    LET from[i \in 1 .. Len(parts) + 1] ==
          IF i > Len(parts) THEN <<>> ELSE parts[i] \o from[i + 1]
    IN from[1]

\* How the database has a subchunk: with its height since version 9, and a storage
\* of one state without words or a size.
StorageData(stored) ==
    <<Datum("bits", stored.bits * 2)>>
      \o (IF stored.bits = 0 THEN <<>>
          ELSE <<Datum("words", Pack(stored.blocks, stored.bits)),
                 Datum("size", Len(stored.palette))>>)
      \o [i \in DOMAIN stored.palette |-> Datum("block", stored.palette[i])]

SubChunkData(stored) ==
    <<Datum("version", stored.version), Datum("count", Len(stored.storages))>>
      \o (IF stored.version >= 9 THEN <<Datum("height", 0)>> ELSE <<>>)
      \o Concat([i \in DOMAIN stored.storages |-> StorageData(stored.storages[i])])

ReadStorage(p) ==
    LET bits == Head(p.rest).v \div 2
        palette == IF bits = 0 THEN 2 ELSE 4
        size == IF bits = 0 THEN 1 ELSE p.rest[3].v
        words == IF bits = 0 THEN <<>> ELSE p.rest[2].v
    IN [rest |-> SubSeq(p.rest, palette + size, Len(p.rest)),
        storages |-> Append(p.storages,
          [blocks |-> Unpack(words, bits),
           states |-> [i \in 1 .. size |-> Hash(p.rest[palette + i - 1].v)]])]

\* The subchunk's storages, as blocks and states.
ReadSubChunk(data) ==
    LET skipped == IF Head(data).v >= 9 THEN 4 ELSE 3
        count == data[2].v
        after[n \in 0 .. count] ==
          IF n = 0 THEN [rest |-> SubSeq(data, skipped, Len(data)), storages |-> <<>>]
          ELSE ReadStorage(after[n - 1])
    IN after[count].storages

\* Block by block, storage by storage.
SetLayer(column, y, layer, storage) ==
    LET after[n \in 0 .. Cells] ==
          IF n = 0 THEN column
          ELSE SetBlock(after[n - 1], y, n - 1, storage.states[storage.blocks[n - 1] + 1], layer)
    IN after[Cells]

SetAll(column, y, storages) ==
    LET after[n \in 0 .. Len(storages)] ==
          IF n = 0 THEN column ELSE SetLayer(after[n - 1], y, n, storages[n])
    IN after[Len(storages)]

\* A subchunk that was not saved is passed over.
ReadHeight(column, y) ==
    IF disk.at[y] = Missing THEN column
    ELSE SetAll(column, y, ReadSubChunk(SubChunkData(disk.at[y])))

\* A chunk that was never saved stays null.
ReadChunk ==
    LET after[n \in 0 .. MaxSubChunks] ==
          IF n = 0 THEN NewChunk ELSE ReadHeight(after[n - 1], n - 1 - Offset)
    IN IF disk.saved THEN after[MaxSubChunks] ELSE NewChunk
-----------------------------------------------------------------------------
(* Chunk::serialize.                                                       *)

IsEmptySubChunk(layers) == \A i \in DOMAIN layers : IsEmpty(layers[i])

\* Mutant of SendCount: the subchunks there are, were there no gaps.
SendCountOfThose ==
    Cardinality({i \in DOMAIN chunk : chunk[i] # <<>> /\ ~ IsEmptySubChunk(chunk[i])})

\* Up to the highest that is not empty.
SendCount ==
    LET solid == {i \in DOMAIN chunk : chunk[i] # <<>> /\ ~ IsEmptySubChunk(chunk[i])}
    IN IF solid = {} THEN 0 ELSE 1 + CHOOSE i \in solid : \A j \in solid : j <= i

LayerData(storage) ==
    LET bits == BitsPerBlock(Len(storage.palette))
    IN <<Datum("bits", bits * 2 + 1), Datum("words", Pack(storage.blocks, bits)),
         Datum("size", Len(storage.palette))>>
         \o [i \in DOMAIN storage.palette |-> Datum("state", storage.palette[i])]

\* Version 8, whose subchunks have no height; a null one has no layers.
SerializedSubChunk(layers) ==
    <<Datum("version", 8), Datum("count", Len(layers))>>
      \o Concat([i \in DOMAIN layers |-> LayerData(layers[i])])

\* Then a palette of one biome for each, and no border blocks.
Biomes(n) == [i \in 1 .. 2 * n |-> IF i % 2 = 1 THEN Datum("bits", 0) ELSE Datum("biome", 1)]

Packet ==
    [count |-> SendCount,
     data |-> Concat([i \in 1 .. SendCount |-> SerializedSubChunk(chunk[i - 1])])
                \o Biomes(SendCount) \o <<Datum("borders", 0)>>]
-----------------------------------------------------------------------------
(* What the tick thread does with a chunk.                                 *)

\* A player comes near.
GenerateChunk ==
    /\ chunk = NotLoaded /\ chunk' = ReadChunk
    /\ UNCHANGED <<disk, cache>>

\* It is sent, to one player or to another.
Serialize ==
    /\ chunk # NotLoaded
    /\ cache' = IF cache # NoPacket THEN cache ELSE Packet
    /\ UNCHANGED <<disk, chunk>>

\* The last player leaves: erase takes the cache with it.
Unload ==
    /\ chunk # NotLoaded
    /\ chunk' = NotLoaded /\ cache' = NoPacket
    /\ UNCHANGED disk

ColumnNext == GenerateChunk \/ Serialize \/ Unload

ColumnSpec == ColumnInit /\ [][ColumnNext]_columnVars
-----------------------------------------------------------------------------
(* What is on disk, and what the client makes of the packet.               *)

\* What clients know the block by: its name and its states, ordered by their names.
Known(block) ==
    LET states == {block.states[i] : i \in DOMAIN block.states}
    IN <<block.name, CHOOSE s \in [1 .. Cardinality(states) -> states] : Ascending(s)>>

IsStored(y, layer) == disk.saved /\ layer \in DOMAIN disk.at[y].storages

StoredBlock(y, c, layer) ==
    LET storage == disk.at[y].storages[layer]
    IN Known(storage.palette[storage.blocks[c] + 1])

\* A client's reading of the subchunks: a sequence of layers for each.
ClientLayer(p) ==
    LET bits == Head(p.rest).v \div 2
        size == p.rest[3].v
    IN [rest |-> SubSeq(p.rest, 4 + size, Len(p.rest)),
        layers |-> Append(p.layers,
                     [blocks |-> Unpack(p.rest[2].v, bits),
                      palette |-> [i \in 1 .. size |-> p.rest[3 + i].v]])]

ClientSubChunk(p) ==
    LET after[n \in 0 .. p.rest[2].v] ==
          IF n = 0 THEN [rest |-> SubSeq(p.rest, 3, Len(p.rest)), layers |-> <<>>]
          ELSE ClientLayer(after[n - 1])
        last == after[p.rest[2].v]
    IN [rest |-> last.rest, subchunks |-> Append(p.subchunks, last.layers)]

Client(packet) ==
    LET after[n \in 0 .. packet.count] ==
          IF n = 0 THEN [rest |-> packet.data, subchunks |-> <<>>]
          ELSE ClientSubChunk(after[n - 1])
    IN after[packet.count]
-----------------------------------------------------------------------------
\* From the disk through the palettes in memory and the packet to the client every
\* block keeps its state, and what was never saved is air there, whichever
\* subchunks, versions and widths are on disk, and however often the chunk is
\* unloaded and read again.
StoredIsSent ==
    cache # NoPacket =>
      LET client == Client(cache)
          At(y) == IF SubChunkIndex(y) < cache.count THEN client.subchunks[SubChunkIndex(y) + 1]
                   ELSE <<>>
      IN \A y \in Height, c \in Cell, layer \in 1 .. 2 :
           IF IsStored(y, layer)
           THEN /\ layer <= Len(At(y))
                /\ LET storage == At(y)[layer]
                   IN storage.palette[storage.blocks[c] + 1] = StoredBlock(y, c, layer)
           ELSE At(y) = <<>> \/ layer > Len(At(y))

\* The client finds the biomes of as many subchunks as it was told of, and the
\* packet's last byte, right behind the last subchunk.
BiomesFound ==
    cache # NoPacket =>
      LET rest == Client(cache).rest
          last == 2 * cache.count + 1
      IN /\ Len(rest) = last /\ rest[last].kind = "borders"
         /\ \A i \in 1 .. cache.count :
              rest[2 * i - 1].kind = "bits" /\ rest[2 * i].kind = "biome"

\* The server's own view of a block is the disk's, and air where nothing is.
GetBlockAgrees ==
    chunk # NotLoaded =>
      \A y \in Height, c \in Cell :
        GetBlock(y, c, 1) =
          IF IsStored(y, 1) THEN StoredBlock(y, c, 1) ELSE Air

\* Biomes and the border byte are where a client looks for them, and the server's
\* own view agrees with the disk.
ViewsAgree == BiomesFound /\ GetBlockAgrees
=============================================================================

# Jerv: TLA+ models and proofs

Jerv is a Minecraft Bedrock server in C++. This directory holds TLA+ modules of
its transport (a RakNet server written from scratch), of the table of
connections its two threads share, of the game session on top of it with its
packets, and of the chunks from the disk to the client; TLC configurations that
check them on small instances; and TLAPS proofs for all instances. Paths below
are relative to `src/packages/`.

## The system

Two threads run. The **network thread** is inside `ioContext.run()`
(`raknet/src/raknetServer.cpp`): it receives one datagram, handles it to the
end (handlers of game packets included), and receives the next. The **tick
thread** (`core/src/tick/tickManager.cpp`) calls `Jerver::handleTick` twenty
times a second, which walks over all connections, loads and unloads chunks and
sends. They meet in `ServerConnection`, whose outgoing half is under the
recursive `outgoingMutex`; everything else they share (the map of connections,
`playerSpawned`, location and view distance) is under no lock the tick thread
takes.

| Component | State | Operations | Interacts with |
|---|---|---|---|
| Send queue, `circularBufferQueue.hpp` | vector, two cursors, size | `enqueue`, `reverseEnqueue`, `dequeue` | owned by a connection |
| RakNet sender, `raknetServer.cpp` 377-427, 490-639 | queue, window counter, unacknowledged cache, datagram being built, indices | `sendFrame`, `processQueue`, `createCurrentConnectionBuffer`, `handleAck`, `handleNack` | both threads, under `outgoingMutex` |
| RakNet receiver, 235-272, 325-375 | last datagram id, missing set, ack stack, rebuild table | `handleFrameSet`, `handleCapsule`, `handleFragment` | network thread; hands frames to `handleFrame` |
| ACK and NACK ranges, 274-323, 377-427 | none | `getRangesFromSequence`, `sendAck`, the readers in `handleAck`, `handleNack` | receiver; read by the peer as by `handleAck` |
| Connection table, 131-233, 429-491, 641-649 | `connections`, `connectionsMutex` | handshake, lookup, dispatch, disconnect | network thread under the mutex, tick thread without |
| Offline handshake, 172-233 | server guid, mtu of the connection made | `handleOffline` | client, connection table |
| Jerver, `core/src/jerver.cpp` | none of its own | `handleTick`, `handleData`, `send`, `handlePacket` | everything above |
| Packet handlers, `core/src/handlers/` | session fields of `ServerConnection` | one per packet | called by `handlePacket` on the network thread |
| Chunk generator, `core/src/world/generator/generator.cpp` | table of chunks with viewers, each player's loaded chunks | `generateChunks`, `generateChunk` | tick thread; reads locations the network thread writes |
| Chunks, block storage, `chunk.cpp`, `subChunk.cpp`, `blockStorage.cpp` | palettes, blocks, cached column | `setBlock`, `serialize` | filled by the LevelDB reader |
| LevelDB reader, `levelDB.cpp` | the database (external) | `readChunk` | chunk generator |
| Tick manager, `tickManager.cpp` | `running`, clock | `start`, `stop`, `run` | calls `handleTick` |
| Binary cursor and NBT, `binary/` | buffer, pointer | reads, writes, `growToFit` | all codecs |
| Protocol packets, `protocol/` | fields | `serialize`, `deserialize` | handlers |

What makes them correct, per component: the queue is a bounded deque; the
sender neither loses nor doubles nor permutes a capsule, and its window counter
says what it should; the receiver reports every gap, acknowledges only what it
handled and rebuilds messages whole; the ranges decode to what they encode; the
table answers a client with the connection it made for it; the two sides of a
session agree on the framing at every batch, and the game is set up before the
player is in it; a packet is read as it was written; the chunk table counts
viewers exactly and players get their chunks; a block that is on disk is the
block the client finds; the tick thread keeps its rate and stops when told.

Hard here are: steps of the two threads in any order, the window at its limit,
ACKs and NACKs late, repeated or lost, datagrams reordered, memory borrowed
beyond its owner's life, a mutex locked by its owner, an iteration over a map
that changes, unlocked multi-word reads. `PROJECT.json` lists each such hazard
at its line with the properties that watch it.

## Modules

**`DequeOperators`, `BoundedDeque`, `CircularBufferQueue`.** The ring with all
three of its redundant fields (`headCursor_`, `tailCursor_`, `size_`), one
action per method, `returned` being the result of the last call.
`BoundedDeque` is what it promises; `ImplementsDeque` is the refinement, with
the slots from the tail on as contents. Because that is proved, the modules
above it use a plain sequence with the operators of `DequeOperators`; there, a
full queue drops, because no caller looks at the result.

**`RaknetSender`, `CapsuleLifecycle`.** One connection's outgoing fields, each
a variable of the same name without `outgoing`. `SendFrame` is `sendFrame` up
to its `processQueue`; the loop of `processQueue` is `RollDatagram` (send what
is there), `PackCapsule` (one turn) and `FinishQueue`; `HandleAck`,
`HandleNack`, `ReadRange`, `AckDatagram`, `NackDatagram` and `EndPacket` are
the two nested loops of the ACK and NACK handlers. All of these run under
`outgoingMutex`, which the model has, so cutting them into steps adds no
behaviour. `ReceiveFrame` and `FinishFrame` are the entry of `handleFrame` and
the `processQueue` it always ends with. Bodies are their sizes, and a flag
says, for each capsule written, whether the buffer its span points into was
still alive. `CapsuleLifecycle` is the abstract specification: where a capsule
may be and go; `ImplementsLifecycle` is the refinement, through `Place`.

**`RaknetReceiver`.** One connection's incoming fields. A frame set is
`BeginFrameSet`, one `HandleCapsule` per turn of the loop, `EndFrameSet`; ids
are subtracted modulo `WordModulus`. The client and the network are external:
`datagrams` is what the client sent, and any of it arrives at any time, any
number of times or never. Bytes of a fragment are (message, index).

**`AckRanges`.** `getRangesFromSequence` turn by turn, for a set of argument
sequences; `IdsOf` is the loop with which `handleAck` reads a range.

**`RaknetServer`.** The map of connections, the place of the network thread
(`network`) and of the tick thread's loop (`tick.left`). The reply to
the second opening request leaves before the entry is made, but the thread that
makes the entry also reads the answer, so the two are one step. `DisconnectClient`
locks a `std::mutex` its thread holds: `LockTwice` has the two outcomes builds
give, waiting for oneself or an uncaught exception. An insertion while the tick
thread iterates is undefined behaviour: `DisturbTick` lets the loop go on at
any elements or the process crash. What a visit does is left to the other
modules.

**`ChunkGenerator`.** `generateChunks` with its three unlocked reads (X, Z, the
view distance, the last one read again for the loops) as steps of their own,
the rest as one step, since only the tick thread touches chunks. The network
thread writes X and Z in two steps. `Generate` is stated with sets: which
chunks are unloaded, which batch of at most `MaxChunksToSend` nearest
candidates is loaded, and what that makes of every chunk's `viewers`.

**`LossyConnection`.** `RaknetSender` extended with a peer that answers a frame
set as `handleFrameSet` does (an ACK of its id, a NACK of the ids it jumped over)
and a network that reorders and loses both ways. In `RaknetSender` alone an ACK
or NACK may name anything; here it says what the peer saw.

**`AckDatagram`.** `sendAck` and its two readers byte by byte: the size its first
loop adds up for the buffer, the loop that fills it, and the loops of `handleAck` (upwards,
unsigned) and `handleNack` (downwards, signed) over the ids of a range. It extends
`AckRanges`: what is written is what `getRangesFromSequence` returned.

**`OfflineHandshake`.** `handleOffline`: pings, both opening requests and the
sizes of their answers. The client is external: it asks with padding of
several sizes, takes the mtu of the first answer, and repeats itself.

**`JerverSession`.** One endpoint's session fields, the batch `handleData` is
in, the handlers' answers one packet at a time (`RunHandler`), and the tick
thread's part for the connection. Frames to the client are a set, since all are
sent `Reliable` and not ordered. Of the eight packets
`resourcePackClientResponse` sends in a row the first and the last stand; the
chunks are in a row around a player who stands still.

**`ClientConnection`.** The two composed: a client from its first ping to the
game. `Establish` is the moment both sides have the connection.

**`PacketFormat`, `PacketsWritten`, `PacketsRead`, `PacketCodec`,
`LoginPacket`.** A layout is a sequence of typed fields, optional parts, counted
lists and cases; `PacketsWritten` is each packet's `serialize` as such a layout,
`PacketsRead` each `deserialize`. `PacketFormat` says which tokens a layout
writes for given fields, and what it reads from tokens. `PacketCodec` takes a
packet with sampled fields through both; a packet with one method only is read
by the same layout, deciding by nothing but what was read before. What one side
does and the other does not is in the layouts: a list read up to a limit and
refused above it, counts read and ignored, a field written and not kept (`Lost`).
`LoginPacket` is the part of the login behind its two strings: nested
documents in `try` blocks that swallow what is thrown, one action per block and
per certificate of the chain.

**`BinaryCursor`.** Every pair of read and write of `Cursor`, over a buffer of
bytes of `ByteBits` bits: byte orders, signs, variable-length and zigzag
integers, strings, addresses, uuids. `Write` and `ReadNext` are one call each,
`Reset` the cursor that is made over what was written. Digits and what they
make up are recursive functions, so that they can be proved about.

**`Nbt`.** `next()` and the table of readers, recursive like the code, over
tokens; `thrown` stands for the exception of the array types.

**`BlockPacking`, `BlockStorage`, `ChunkColumn`, `ColumnBuffer`.** `BlockPacking`
holds palettes, `setState`, `getState` and the packing into words; `BlockStorage`
sets blocks in one storage with the code's word size across every change of
the width. `ChunkColumn` takes a column from the keys `readChunk` finds,
through palettes' hashes, defaults and the cached packet, to what a client
decodes. Its loops are recursive functions, so that they can be proved about.
`ColumnBuffer` is the buffer that packet is written into, with its real
sizes: `growToFit` before each piece, the one byte at the end without it.

**`TickManager`.** The thread's loop with its clock, callbacks of any length,
late wake-ups, and an owner that starts, stops and changes the rate at any time.

**`TickThread`.** `TickManager` with a callback that serialises columns through
`ColumnBuffer`: what `handleTick` may hang in, and what `stop` then waits for.

`MC*` modules give the constants where a cfg cannot; `MCSequentialParts` puts the
ring, the codecs and the login side by side in one run, `MCPackings` the ACKs and the
storages; `*_proofs` modules hold
the theorems, some of two components that share nothing (the ring and the cursor,
the chunk table, the storages and the columns, the connection and the login). In each
module, definitions commented "Mutant of" are deliberately wrong variants of
the definition that follows; no specification uses them. They document which
slip of the code each property would notice.

## Runs

Type invariants are proved for every instance (see Proofs) and not run again.

| Run | Bounds | Shows |
|---|---|---|
| `sequential` | see below | `CursorsAgree`, `ImplementsDeque` (ring), `CursorFaithful`, `PacketsRoundTrip`, `LoginContained`, `NbtFaithful`, `StoredIsSent`, `ViewsAgree` (columns) |
| `sender` | capacity 3, window 2, mtu 60, 3 frames of three kinds, 2 NACK packets, 1 range per packet | `WindowAccounting`, `DatagramFits`, `CacheMatchesWire`, `ExactlyOnePlace`, `FirstSendInOrder`, `StallsAfterAWindowOfNacks`, `ImplementsLifecycle` |
| `connection` | capacity 4, window 3, 3 frames, two frame sets and one answer lost | `AckedArrived`, `LossRepaired` |
| `receiver` | 3 messages, 4 capsule sequences, 5 datagrams, ids up to 3, 16 for 2^32 | `GapsReported`, `AckedWasHandled`, `DeliveredWhole` |
| `packings` | sequences over 8 ids, 32 for 2^32; 70 blocks, palettes of 1 to 256 states and 3 more sets | `RoundTrip` (the ranges), `IdsVisited`, `ReadToTheEnd` (their bytes), `StorageFaithful` |
| `server` | 2 endpoints, 2 guids | `OneGuidAccepted`, `NoneGoneInHand`, `EverySpawnedServed` |
| `chunks` | 2 players, a grid of 2 by 2 places, distances -1, 0, 1, 2 chunks per tick, 3 changes | `ViewersExact`, `Converges` |
| `client` | 3 request sizes, 2 lengths of guid, 2 offline datagrams lost; 2 clients in turn, distances 1 and 2 (0 before any is asked for), 2 chunks per tick, one batch twice or one change | `DatagramsPass`, `FramingAgreed`, `GameSetUpFirst`, `OldConnectionDeaf`, `FirstClientPlays`, `ToldInTheEnd` |
| `tick_thread` | intervals 2 and 3, time up to 6, 3 ticks; a buffer of 2048 bytes that grows to 8192, 2 subchunks with palettes of 64 or 97 states | `OneMoreTick`, `NoBurst`, `WithinBuffer`, `EndsIfItFits`, `StopReturns` |
| `sender_bodies` | as `sender`, no NACK | **violated**: `NoFreedBodySent` |
| `server_race` | as `server` | **violated**: `IterationUndisturbed` |
| `packet_shapes` | up to 729 samples of each packet's fields | **violated**: `AnnouncedPayload` |

`sequential` puts parts side by side that share nothing: each is code one thread
calls on data of its own, so that a behaviour of one is a behaviour of the whole
(`part` says whose). Its bounds: a ring of capacity 3 with 2 items; bytes of 4
bits, 16-bit ints and 28-bit longs with values at their ends, two in a row; every
packet with up to 729 samples of its fields, lists of 0 and 1 elements, and of 64
and 65 where the reader has a limit of 64; login chains of up to 2 certificates;
up to 2 NBT values, nested twice; columns of 3 subchunks of 5 blocks in 4 stored
forms. `packings` does the same with two parts.

The bounds reach the cases that matter: a ring that wraps both ways and is
full; a window smaller than a fragmented frame, so that it closes in the middle
of one, a queue that overflows, datagrams that roll over, NACKs that use up the
whole window; a retransmission that is lost again; a round of chunks that ends
with a full batch and one that does not; an id beyond the limit, gaps,
repeats and ids going backwards across the wrap, two fragmented messages
interleaved; two clients at one endpoint, an insertion during the iteration, a
hung network thread; ranges of two players that overlap, and a radius whose
chunks need three ticks; a client whose batch is repeated before and after the
framing changes. At 4 bits a byte the last group of a variable-length int is
partial, as it is at 8; 70 blocks fill a word at every width and leave another
one partly filled; a palette of 257 states needs the widest index; three
subchunks have one that is missing below, between or above others; two
storages of 97 states overfill the largest buffer, and with one of 64 instead the
last biome finds one byte too few.

`CHECK_DEADLOCK FALSE` stands where the system may stop: a function returned or a
stream or a packet is read to its end (`sequential`, `packings`), a connection or
the process is gone (`receiver`, `server`), or what the bounds allow is over
(`connection`, `client`).

### Fairness

* `EverySpawnedServed` assumes weak fairness of the tick thread only: it waits
  for the clock and for `outgoingMutex`. Nothing is assumed of the network
  thread, which may hang.
* `Converges` assumes weak fairness of the tick thread and that an entered
  handler is finished. The bound on moves is what makes players stop.
* `LossRepaired` assumes that a thread inside a loop under `outgoingMutex` goes
  on (`FinishFrame` with strong fairness, because it waits for a mutex the tick
  thread takes and always gives back), that frames keep arriving (clients ping
  every few seconds; without them nothing resumes a queue the window held up),
  and that answers not lost are delivered. Frame sets may be lost,
  retransmissions too. `Overlooked` excepts what the code has no means for: the
  last frame sets before silence (no timer resends them), what only a lost NACK
  named, and capsules held up by a window that these, and slots that NACKs cost,
  have shut.
* `FirstClientPlays` assumes that the client repeats its opening requests until
  it is connected, that both threads go on, and that every batch and frame is
  delivered in the end, which is RakNet's part below; offline losses are bounded.
  `ToldInTheEnd` assumes the same of the session.
* `StopReturns` and `EndsIfItFits` assume that the thread and its owner are
  scheduled and that time passes, and except a column with a piece the largest
  buffer has no room for (`TooLarge`). `ReadToTheEnd` assumes that a running
  function goes on.

### Findings

* `sender_bodies`: the comments at `raknet/src/raknetServer.cpp` 543 and 552
  explain the `processQueue` in `sendFrame` by "buffer die from jerv.send". With
  the window closed it leaves the capsule in the queue, the caller's buffer goes,
  and a later `processQueue` copies from it. Retransmission always does.
* `server_race`: `core/src/jerver.cpp` 61 calls the segfault of the loop over
  the connections "hopefully fixed"; the loop still iterates the map the network
  thread inserts into, without its mutex.
* `packet_shapes`: `serverScriptDebugDrawer.hpp` announces the sphere's payload
  for a circle (115, 139) and has no case that writes it (122).

Seen on the way, and stated by properties that hold: each capsule a NACK takes
back costs one slot of the window for good, since `handleNack` does not
decrement the counter `processQueue` increments again; after 512 of them nothing
is sent any more (`WindowAccounting`, `StallsAfterAWindowOfNacks`). The only
`erase` on the table is never reached: on a Disconnect the network thread locks a
mutex it holds and hangs or takes the process down, which is a state of the model
(`Hung`, `terminated`) that no text of the repository speaks of, so that no property
calls it wrong. Were the erase reached, both threads would hold a connection that is
gone (`NoneGoneInHand` would fail). As it is, connections stay for good and the next
client at an endpoint inherits the last one's (`ConnectionsStay`, `OneGuidAccepted`); read with the last client's framing it never gets in
(`OldConnectionDeaf`), for the "stale connection checker" of `src/todo.md` 14 does
not exist and nothing reads `incomingLastActivity`. A column with a piece that
65536 bytes have no room for keeps the tick thread in `growToFit` for ever
(`EndsIfItFits` and `StopReturns` hold up to that). The byte after a column's
biomes is written without asking for room and may fall one behind the buffer
(`WithinBuffer` allows that byte and no other). A NACK is sent once, and nothing
sends the last frame sets before silence again (`Overlooked`). A chunk with more
than 64 blobs is written and refused on reading (`levelChunk.hpp` 89,
`subChunk.hpp` 70), an item's
`propertiesNbt` is written and cleared on reading (`itemRegistry.hpp` 49, 58), which
leaves the items after the first one unread as well, and
a tick is written with its lower 32 bits (`movePlayer.hpp` 89): `PacketsRoundTrip`
excepts these and nothing else.

Seen on the way, and not stated: an NBT list of n entries is read as a vector of
2n, the first n empty (the model reads it so; palettes have no lists).
`setTicksPerSecond` and `stop` are never called by the repository.
OpenConnectionReply2 is sent with `mtuSize` and `security` uninitialised. A
database that does not open is logged and then used. A view distance that
shrinks loads nothing, and so the client is not told (`ToldInTheEnd` excepts it).

## Proofs

All constants are arbitrary within their named assumptions.

* **`RingAndCursor_proofs`**, of the ring: `RingTypeCorrect`, `CursorsAlwaysAgree`,
  `RingImplementsDeque`. The invariant is `TypeOK /\ CursorsAgree`: the
  refinement needs to know that a slot about to be written lies outside the
  contents, and that follows from the cursors only when they agree with the
  size. From `CapacityAssumption`. Of the cursor: `CursorAlwaysFaithful`, for bytes
  of any width above one bit, ints and longs of any number of bytes and any values
  they hold. `TwoToDef` gets the powers of two from their recursive equation;
  `JoinedDigits` says that the digits of a number make it up again, `GroupsUnique`
  how many groups a variable-length integer takes, `ReadVarBack` that its bytes,
  whatever follows them, give number and length back; then one lemma for each kind of
  value, which `EveryKindBack` joins. `CursorInv` says where the values lie: each
  between two ends in the stream, the pointer at the end of the last one read. From
  `ByteAssumption`, `WidthAssumption` (a long is longer than an int) and
  `ValuesAssumption` (values are of their C++ types; a string is shorter than its
  length field can say).
* **`RaknetSender_proofs`**: `SenderTypeCorrect`, `WindowAccounted`,
  `WindowAlwaysRespected`, `DatagramsFit`, `StallsForGood`,
  `CacheAlwaysMatchesWire`, `AlwaysExactlyOnePlace`, `LifecycleImplemented`,
  `FirstSendsOrdered`. `WindowAccounting` is
  inductive given the types; the window bound follows from it and from the
  guard of the loop; `DatagramFits` needs that every capsule in the queue, and
  so in the cache a NACK takes it from, has a body that fits a fresh datagram,
  which is the strengthening. `StallsForGood` combines accounting with the
  window test. `CacheAlwaysMatchesWire` needs that the frame set id is the number
  of datagrams sent, so that an id never names two. `AlwaysExactlyOnePlace` and
  `LifecycleImplemented` share `PlaceInv`: the queue, the datagram being built,
  what is in flight, acknowledged, sent unreliably and dropped partition the
  indices given out, and neither a queue nor the cache repeats an index. Each
  action moves a set of indices from one part to another; that keeps the
  partition and is the lifecycle's step, and the count of `ExactlyOnePlace`
  follows by adding up the parts. `FirstSendsOrdered` adds that only
  indices given out were ever sent; that a NACK may put back in front of the queue
  what it takes needs that what is in flight was sent, from the cache's invariant.
  Of `LossyConnection`: `ConnectionIsSender`, its every step being one of the sender
  with the ACKs and NACKs it admits, so that all of these hold there too; and
  `AckedAlwaysArrived`, by `LossInv`: an ACK, on its way or being read, is of one
  frame set, all of which arrived, and that is what the cache gives up for it, by
  `CacheInv`. From
  `CapacityAssumption`, `MtuAssumption` (the mtu leaves room for a body; the code
  does not check), `WindowAssumption`, `FramesAssumption`.
* **`RaknetReceiver_proofs`**: `ReceiverTypeCorrect`; `EveryGapReported`, by an
  invariant that says the last id is one received or still the initial -1;
  `AcksFollowHandling`, by one that says the frame set at hand is handled up to
  what is left of it, and that the ack stack holds its id alone;
  `MessagesRebuilt`, by `RebuildInv`: an entry of the rebuild table holds parts of
  one message, at their places and not all of them, and a capsule handled is in
  such an entry unless its message was handed on. Were all parts of a message
  handled and the message not handed on, its entry would have as many parts as
  the message, which the invariant excludes. From `IdAssumption`,
  `PartsAssumption`, `ContentsAssumption` and `FragmentIdAssumption`.
* **`AckDatagram_proofs`**: `RangesRoundTrip`, by a loop invariant: finished ranges
  and the one being grown hold exactly the ids seen; and `IdsAlwaysVisited`, for
  both packet types. What ties the reader to the writer is `Offset(n)`, the bytes
  of the header and of the first n ranges: it is the buffer's size for all of them
  (`BufferOffset`), how far `sendAck` is after n (`WriterInv`, with every range
  written lying at its offset in the form the readers take it), and where the
  reader is after n (`ReaderInv`, with the ids of those ranges visited, and of the
  one at hand those on one side of `id`). `ThreeBytes` and `TwoBytes` say that the
  bytes of an id and of the count give the number back; `RangesInv` that there is one
  range for each break in the ids, so that the count fits its two bytes. From
  `WidthAssumption` (bytes of any number of values above one; 24 bits are fewer than
  an `int32_t` has) and `IdAssumption`.
* **`RaknetServer_proofs`**: `ServerTypeCorrect`, `OneGuidEver`,
  `NothingInHandIsGone`, `ConnectionsStay`, by `TableInv`: an accepted guid is the
  entry's guid, and a connection a thread has in hand is in the table.
* **`ChunkGenerator_proofs`**: `GeneratorTypeCorrect`, and `ViewersAlwaysExact`,
  which is inductive with the fact that a round is for one of the players; the
  step counts the set of a chunk's viewers before and after. From
  `PlayersAssumption` (finitely many players). Of a storage: `StorageAlwaysFaithful`,
  for any number of blocks. The bits of a number make it up again; a block's bits
  in its word are its own (`OwnBits`: no other block's run into them, because each
  index fits the bits the palette's size calls for), so that unpacking is the
  inverse of packing (`UnpackPack`); and `StorageInv` says that every index is in
  the palette, which has no state twice, and leads to what was last set
  (`SetStateSets`). From `StatesAssumption` (a palette's index fits 16 bits; a
  subchunk has 4096 blocks).
  Of a column: `StoredAlwaysSent` and `ViewsAlwaysAgree`, for every number of
  subchunks, storages and blocks, and every palette, version and width on disk.
  `ColumnInv` itself says little: what is in memory is what `readChunk` makes of
  the disk, and what is cached is the packet of it. The work is in what these
  come to. `ReadSubChunkReads`: the loop over storages takes each off the front of
  the data left, as it was saved (`UnpackPack` again). `LayerSoFar`, `LayersSoFar`
  and `HeightsSoFar`: after so many blocks, layers and heights those hold their
  states and nothing else was touched, so that `ReadChunkReads` has the whole
  column hold the disk (`ColumnHolds`), with a palette of at most one state more
  than there are blocks. `SendCountCovers`: no subchunk at or above the count holds
  a block, because a layer that was read is never empty. `ClientReads`: the client's
  loops over the packet end with the column's subchunks as they are in memory, and
  right before the biomes. `HashIsKnown`: the states in the order of a `std::map`
  are those a client orders by name. From `CellsAssumption` (a state for each
  block and the unset one fit 16 bits), `HeightAssumption`, `StoredAssumption` (the
  database holds subchunks as the game saves them: indices of the palette that fit
  their width) and `BlocksAssumption` (a block has no state twice, as a map has no
  key twice, and its hash is not 0). Hashes of different blocks are taken to
  differ. `StatesAssumption` is not used here: its bounds are `BlockStorage`'s.
* **`TickThread_proofs`**, of the clock: `TickTypeCorrect`, `NeverABurst` (no three
  ticks begin within the shortest interval, after any delay) and
  `StopSeesOneMoreTick` (after `stop` at most the tick already due begins), from
  `IntervalsAssumption`. Of the buffer: `ColumnTypeCorrect` and
  `WritesWithinBuffer`, by an invariant that says that while a piece is pending the
  pointer is within the buffer, from `SizeAssumption` and `LayersAssumption` (no
  storage takes more than it asks room for, which `MCTickThread` derives from the
  packing). Of the two composed: `ThreadIsTickManager`, step by step, so that
  `ThreadNeverBursts` and `ThreadStopsAfterOne` follow for a callback that may hang;
  and `ThreadWritesWithinBuffer`, through any number of ticks.
* **`ClientConnection_proofs`**: `FramingAlwaysAgreed`, `GameAlwaysSetUpFirst` and
  `OldConnectionsDeaf`, of the whole connection and for every set of view
  distances. Each is about packets sent long before, so `SessionInv` says what the
  conversation's place tells of them: a handler's rest (`Todo`) is one of a few
  shapes; the framing changes right after NetworkSettings was sent and before
  anything of the game is in hand (`FramingInv`); a frame on its way is of a packet
  sent (`FramesOK`); the first client changes over before the server hears or says
  anything framed (`FirstClientInv`); a loading screen, on its way or in hand,
  means StartGame was sent, and its handling that the game is set up (`SetUpInv`);
  `PlayerSpawn` is announced by at most one handler (`SpawnInv`). `DatagramsAlwaysPass`
  is by `HandshakeInv`: an mtu offered, asked for or kept came through the path and is
  within the server's limit.
  Of the login: `LoginAlwaysContained`, for chains of any length, by `LoginInv`: what
  each `try` block that was passed has left, and that the identity is that of the
  last whole certificate so far. From `ChainAssumption`.
  The connection's are from `SizesAssumption` (a guid is an `int64_t` in decimal: 1 to 20 characters; what
  the path lets through is the client's sizes) and `DistancesAssumption`; that a set
  of view distances has a least one is by induction, below.

The library's induction theorems take an operator and cannot be used here;
induction over a set (`NatSetInduction`, `UpTo`) follows from its `WFMin`, or from
every set of naturals having a least one, and is what these proofs use. With it the
equation of a recursive *function* can be derived: a solution is built up for every
n (`IterationExists`), two solutions agree (`StepwiseEqual`), so the function chosen
is the one. That is how powers of two, sums of digits and bits, and the loops over a
column are reasoned about.

Only model-checked: the liveness properties (TLAPS has no ENABLED and no
fairness reasoning here); packets and NBT, because `PacketFormat` and `Nbt` have
RECURSIVE operators as the formats nest, and with the modules over them are for TLC
only.

## Abstractions, and what is not modelled

* Indices, frame set ids and fragment ids grow without wrapping in
  `RaknetSender`; the bounds keep them small. In the code the frame set id is
  written as 24 of its 32 bits.
* `FragmentIdAssumption`: no two fragmented messages share an id. The code never
  drops what stays incomplete, so a client whose 16-bit counter wraps meets it.
* A capsule repeated or out of order is handled again, or early, as in the code;
  `delivered` is a set, so the properties say what is handed on, not how often.
* `ChunkGenerator` has a fixed set of spawned players; the loops' bound is read
  once.
* `JerverSession` sees one endpoint; how clients share the table is in
  `RaknetServer`. Payloads are the packets' names and the fields handlers look at.
* `PacketFormat` tells values apart by type, not by bytes; these are
  `BinaryCursor`'s, with narrower bytes and words. `AckDatagram` has bytes of
  two values, so that all ids fit.
* `ChunkColumn` has five blocks a subchunk and three subchunks; positions in
  three dimensions are numbered.
* External, and modelled by what is assumed of them: clients, the network, the
  sockets, the database, the JSON and base64 library.
* Not modelled: logging; the vendored noise (2586 lines, unused); the table of
  packet names; the application's `main`, which starts the parts.

## Plan

Done: everything in the table of components but the four just named.

Left, in this order:

1. `ClientView`: what a client keeps of the columns it was sent when the
   publisher's update moves.

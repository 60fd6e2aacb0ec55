--------------------------- MODULE ChunkGenerator ---------------------------
(***************************************************************************)
(* ChunkGenerator::generateChunks, called by handleTick on the tick thread *)
(* for one spawned player after the other, and the handlers on the network *)
(* thread that change what it reads meanwhile: the location                *)
(* (handlePlayerAuthInput) and the view distance (handleRequestChunkRadius)*)
(* of a ServerConnection.  Nothing locks these fields.                     *)
(*                                                                         *)
(* Locations are given in chunks, floor(playerLocation / 16).  Which       *)
(* players there are is RaknetServer's business; here they are fixed.      *)
(***************************************************************************)
EXTENDS Integers, FiniteSets

CONSTANTS
    Players,          \* the spawned connections
    Places,           \* the chunk coordinates players move to, on either axis
    Distances,        \* the view distances they ask for
    MaxChunksToSend,  \* maxChunksToSend, 8
    MaxMoves          \* bound: changes of a location or a view distance

ASSUME PlayersAssumption == IsFiniteSet(Players)

ASSUME PlacesAssumption == Places \subseteq Int /\ 0 \in Places

\* handleRequestChunkRadius caps the radius at 120 and nothing else: it may be
\* negative.
ASSUME DistancesAssumption == Distances \subseteq Int /\ 0 \in Distances

ASSUME BoundsAssumption == MaxChunksToSend \in Nat /\ MaxMoves \in Nat

VARIABLES
    locationX, locationZ,  \* player -> playerLocationX, playerLocationZ
    viewDistance,          \* player -> playerViewDistance
    loadedChunks,          \* player -> playerLoadedChunks
    chunks,                \* the table of chunks: coordinates -> viewers
    network,               \* a handlePlayerAuthInput that has yet to write Z
    tick,                  \* where handleTick is, and what it has read
    left,                  \* the players handleTick has yet to visit
    moves                  \* history: changes so far

playerVars == <<locationX, locationZ, viewDistance>>
vars == <<playerVars, loadedChunks, chunks, network, tick, left, moves>>

Resting == [at |-> "resting"]

Init ==
    /\ locationX = [p \in Players |-> 0]
    /\ locationZ = [p \in Players |-> 0]
    /\ viewDistance = [p \in Players |-> 0]
    /\ loadedChunks = [p \in Players |-> {}]
    /\ chunks = [c \in {} |-> 0]
    /\ network = Resting
    /\ tick = Resting
    /\ left = Players
    /\ moves = 0
-----------------------------------------------------------------------------
(* The network thread.                                                     *)

\* handlePlayerAuthInput writes X, then (past Y) Z.
PlayerAuthInput(p, x, z) ==
    /\ network = Resting
    /\ moves < MaxMoves
    /\ locationX' = [locationX EXCEPT ![p] = x]
    /\ network' = [at |-> "z", player |-> p, z |-> z]
    /\ moves' = moves + 1
    /\ UNCHANGED <<locationZ, viewDistance, loadedChunks, chunks, tick, left>>

FinishAuthInput ==
    /\ network.at = "z"
    /\ locationZ' = [locationZ EXCEPT ![network.player] = network.z]
    /\ network' = Resting
    /\ UNCHANGED <<locationX, viewDistance, loadedChunks, chunks, tick, left, moves>>

RequestChunkRadius(p, distance) ==
    /\ network = Resting
    /\ moves < MaxMoves
    /\ viewDistance' = [viewDistance EXCEPT ![p] = distance]
    /\ moves' = moves + 1
    /\ UNCHANGED <<locationX, locationZ, loadedChunks, chunks, network, tick, left>>
-----------------------------------------------------------------------------
(* The tick thread.                                                        *)

\* handleTick comes to a player: generateChunks reads X ...
ReadX(p) ==
    /\ tick = Resting
    /\ p \in left
    /\ left' = left \ {p}
    /\ tick' = [at |-> "z", player |-> p, x |-> locationX[p]]
    /\ UNCHANGED <<playerVars, loadedChunks, chunks, network, moves>>

\* ... then Z ...
ReadZ ==
    /\ tick.at = "z"
    /\ tick' = [at |-> "radius", player |-> tick.player, x |-> tick.x,
                z |-> locationZ[tick.player]]
    /\ UNCHANGED <<playerVars, loadedChunks, chunks, network, left, moves>>

\* ... then the view distance, for radiusSq; the loops after it read it again.
ReadRadius ==
    /\ tick.at = "radius"
    /\ tick' = [at |-> "generate", player |-> tick.player,
                x |-> tick.x, z |-> tick.z,
                radiusSq |-> viewDistance[tick.player] * viewDistance[tick.player]]
    /\ UNCHANGED <<playerVars, loadedChunks, chunks, network, left, moves>>

\* The chunks in the circle around <<x, z>>, within the loops' bound.  (The code
\* reads the bound at every turn of the loops, the model once for all turns.)
InRange(x, z, radiusSq, bound) ==
    {c \in {x + d : d \in -bound .. bound} \X {z + d : d \in -bound .. bound} :
       (c[1] - x) * (c[1] - x) + (c[2] - z) * (c[2] - z) <= radiusSq}

DistanceSq(c) ==
    (c[1] - tick.x) * (c[1] - tick.x) + (c[2] - tick.z) * (c[2] - tick.z)

\* What playerLoadedChunks.insert would insert.
Candidates(p, desired) == desired \ loadedChunks[p]

\* Mutant of Batches: the limit is applied before what the player has is left out.
BatchesLimitedFirst(p, desired) ==
    {nearest \cap Candidates(p, desired) : nearest \in
       {batch \in SUBSET desired :
          /\ batch = desired \/ Cardinality(batch) = MaxChunksToSend
          /\ Cardinality(batch) <= MaxChunksToSend
          /\ \A near \in batch, far \in desired \ batch :
               DistanceSq(near) <= DistanceSq(far)}}

\* The nearest candidates, as many as may be sent; std::sort leaves the order of
\* equally distant ones open.
Batches(p, desired) ==
    LET candidates == Candidates(p, desired)
        size == IF Cardinality(candidates) <= MaxChunksToSend
                THEN Cardinality(candidates) ELSE MaxChunksToSend
    IN {batch \in SUBSET candidates :
          /\ Cardinality(batch) = size
          /\ \A near \in batch, far \in candidates \ batch :
               DistanceSq(near) <= DistanceSq(far)}

Viewers(c) == IF c \in DOMAIN chunks THEN chunks[c] ELSE 0

\* --chunk.viewers == 0
Unviewed(c, unloaded) == c \in unloaded /\ Viewers(c) = 1

\* Mutant of StillViewed: the viewer who leaves is not counted down.
StillViewedBy(c, unloaded, batch) == Viewers(c) + (IF c \in batch THEN 1 ELSE 0)

\* The viewers of a chunk after one player's unloading and loading.
StillViewed(c, unloaded, batch) ==
    Viewers(c) - (IF c \in unloaded \cap DOMAIN chunks THEN 1 ELSE 0)
               + (IF c \in batch THEN 1 ELSE 0)

\* The unloading loop, which erases what is no longer viewed, then the loading
\* loop, for which generateChunk makes the chunks that are not there.
ReleaseAndLoad(unloaded, batch) ==
    chunks' = [c \in {k \in DOMAIN chunks : ~ Unviewed(k, unloaded)} \cup batch |->
                 StillViewed(c, unloaded, batch)]

\* The rest of generateChunks: none of it is seen by the network thread.
Generate ==
    /\ tick.at = "generate"
    /\ LET p == tick.player
           desired == InRange(tick.x, tick.z, tick.radiusSq, viewDistance[p])
           unloaded == loadedChunks[p] \ desired
       IN \E batch \in Batches(p, desired) :
            /\ loadedChunks' = [loadedChunks EXCEPT ![p] = (@ \cap desired) \cup batch]
            /\ ReleaseAndLoad(unloaded, batch)
            /\ tick' = [at |-> "send", player |-> p, batch |-> batch]
    /\ UNCHANGED <<playerVars, network, left, moves>>

\* handleTick sends the chunks through the pointers it got, and after them the
\* update of the publisher; it goes on to the next player, or to the next tick.
SendChunks ==
    /\ tick.at = "send"
    /\ tick' = Resting
    /\ left' = IF left = {} THEN Players ELSE left
    /\ UNCHANGED <<playerVars, loadedChunks, chunks, network, moves>>

NetworkStep ==
    \/ \E p \in Players, x, z \in Places : PlayerAuthInput(p, x, z)
    \/ FinishAuthInput
    \/ \E p \in Players, distance \in Distances : RequestChunkRadius(p, distance)

TickStep ==
    \/ \E p \in Players : ReadX(p)
    \/ ReadZ
    \/ ReadRadius
    \/ Generate
    \/ SendChunks

Next == NetworkStep \/ TickStep

Spec == Init /\ [][Next]_vars

\* Both threads run on: the tick by the clock, a handler once entered.
LiveSpec == Spec /\ WF_vars(TickStep) /\ WF_vars(FinishAuthInput)
-----------------------------------------------------------------------------
Coordinates == Int \X Int

TickOK ==
    /\ tick.at \in {"resting", "z", "radius", "generate", "send"}
    /\ tick.at # "resting" => tick.player \in Players
    /\ tick.at \in {"z", "radius", "generate"} => tick.x \in Places
    /\ tick.at \in {"radius", "generate"} => tick.z \in Places
    /\ tick.at = "generate" => tick.radiusSq \in Nat

\* Chunks in the table have viewers: none is kept for nobody.
TypeOK ==
    /\ locationX \in [Players -> Places]
    /\ locationZ \in [Players -> Places]
    /\ viewDistance \in [Players -> Distances]
    /\ DOMAIN loadedChunks = Players
    /\ \A p \in Players : loadedChunks[p] \subseteq Coordinates
    /\ DOMAIN chunks \subseteq Coordinates
    /\ \A c \in DOMAIN chunks : chunks[c] \in Nat \ {0}
    /\ network \in {Resting} \cup [at : {"z"}, player : Players, z : Places]
    /\ TickOK
    /\ left \subseteq Players

\* The table holds the chunks some player has loaded and no others, each with the
\* number of its viewers: no chunk outlives its last viewer, and none is erased
\* under another one, whatever the players do between and during the rounds.
ViewersExact ==
    /\ DOMAIN chunks = UNION {loadedChunks[p] : p \in Players}
    /\ \A c \in DOMAIN chunks :
         chunks[c] = Cardinality({p \in Players : c \in loadedChunks[p]})

\* Players who stop moving have, in the end, exactly the chunks in range of where
\* they stopped: the limit per tick starves no chunk, not the farthest either, and
\* what a round loaded around a place nobody ever was at is unloaded again.
Converges ==
    \A p \in Players :
       <>[](loadedChunks[p] = InRange(locationX[p], locationZ[p],
                                      viewDistance[p] * viewDistance[p],
                                      viewDistance[p]))
=============================================================================

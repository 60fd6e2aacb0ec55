----------------------- MODULE ChunkGenerator_proofs ------------------------
(***************************************************************************)
(* The table of chunks counts its viewers exactly, for every set of        *)
(* players, every place and view distance and every limit per tick.        *)
(*                                                                         *)
(* A storage of blocks is read back as it was set, for every number of     *)
(* blocks and every palette that a 16-bit index can address.  That needs   *)
(* the powers of two and the bits of a number from their recursive         *)
(* equations, then that the blocks of a word keep to bits of their own,    *)
(* and that setState keeps each block's index in the palette.              *)
(*                                                                         *)
(* And a column is sent as it is on disk: readChunk's loops over heights,  *)
(* storages and blocks, what serialize writes and how a client reads it    *)
(* are each followed to the end, for every height of the world, every      *)
(* number of blocks and storages and whatever the database holds.          *)
(***************************************************************************)
EXTENDS ChunkGenerator, BlockStorage, ChunkColumn,
        FiniteSetTheorems, SequenceTheorems, WellFoundedInduction, TLAPS

\* What the counting rests on: the sets of the players, and the player at hand.
ChunkInv ==
    /\ DOMAIN loadedChunks = Players
    /\ tick.at = "generate" => tick.player \in Players
    /\ tick.at = "z" => tick.player \in Players
    /\ tick.at = "radius" => tick.player \in Players
    /\ ViewersExact

ViewersOf(c) == {p \in Players : c \in loadedChunks[p]}

\* The players that view a chunk are finitely many, so they have a number.
LEMMA FiniteViewers ==
    ASSUME NEW c
    PROVE  /\ IsFiniteSet(ViewersOf(c))
           /\ Cardinality(ViewersOf(c)) \in Nat
<1>1. ViewersOf(c) \subseteq Players
  BY DEF ViewersOf
<1>2. IsFiniteSet(ViewersOf(c))
  BY <1>1, PlayersAssumption, FS_Subset
<1> QED
  BY <1>2, FS_CardinalityType

\* Viewers is the number of viewers, of a chunk outside the table too.
LEMMA ViewersCount ==
    ASSUME ChunkInv, NEW c
    PROVE  Viewers(c) = Cardinality(ViewersOf(c))
<1>1. CASE c \in DOMAIN chunks
  BY <1>1 DEF ChunkInv, ViewersExact, Viewers, ViewersOf
<1>2. CASE c \notin DOMAIN chunks
  <2>1. ViewersOf(c) = {}
    BY <1>2 DEF ChunkInv, ViewersExact, ViewersOf
  <2> QED
    BY <1>2, <2>1, FS_EmptySet DEF Viewers
<1> QED
  BY <1>1, <1>2

\* One player's loaded chunks change: unloaded leaves them, batch joins them.
LEMMA ReleaseAndLoadCounts ==
    ASSUME ChunkInv, NEW p \in Players, NEW kept, NEW unloaded, NEW batch,
           loadedChunks[p] = kept \cup unloaded,
           kept \cap unloaded = {},
           batch \cap (kept \cup unloaded) = {},
           loadedChunks' = [loadedChunks EXCEPT ![p] = kept \cup batch],
           ReleaseAndLoad(unloaded, batch)
    PROVE  ViewersExact'
<1>1. loadedChunks'[p] = kept \cup batch
  BY DEF ChunkInv
<1>2. \A q \in Players : q # p => loadedChunks'[q] = loadedChunks[q]
  BY DEF ChunkInv
<1> DEFINE After(c) == {q \in Players : c \in loadedChunks'[q]}
<1>3. \A c : c \in UNION {loadedChunks[q] : q \in Players} <=> ViewersOf(c) # {}
  BY DEF ViewersOf
<1>4. \A c : c \in UNION {loadedChunks'[q] : q \in Players} <=> After(c) # {}
  OBVIOUS
<1>5. DOMAIN chunks = UNION {loadedChunks[q] : q \in Players}
  BY DEF ChunkInv, ViewersExact
<1>6. ASSUME NEW c, c \in unloaded
      PROVE  /\ c \in DOMAIN chunks /\ c \notin batch
             /\ After(c) = ViewersOf(c) \ {p} /\ p \in ViewersOf(c)
             /\ Cardinality(After(c)) = Viewers(c) - 1
             /\ After(c) = {} <=> Viewers(c) = 1
  <2>1. c \in loadedChunks[p] /\ c \notin loadedChunks'[p] /\ c \notin batch
    BY <1>1, <1>6
  <2>2. p \in ViewersOf(c)
    BY <2>1 DEF ViewersOf
  <2>3. After(c) = ViewersOf(c) \ {p}
    BY <1>2, <2>1 DEF ViewersOf
  <2>4. c \in DOMAIN chunks
    BY <1>3, <1>5, <2>2
  <2>5. Cardinality(After(c)) = Cardinality(ViewersOf(c)) - 1
    BY <2>2, <2>3, FiniteViewers, FS_RemoveElement
  <2>6. IsFiniteSet(After(c))
    BY <2>3, FiniteViewers, FS_RemoveElement
  <2>7. Viewers(c) = Cardinality(ViewersOf(c)) /\ Viewers(c) \in Nat
    BY ViewersCount, FiniteViewers
  <2> HIDE DEF After
  <2>8. After(c) = {} <=> Cardinality(After(c)) = 0
    BY <2>6, FS_EmptySet
  <2> QED
    BY <2>1, <2>2, <2>3, <2>4, <2>5, <2>7, <2>8
<1>7. ASSUME NEW c, c \in batch
      PROVE  /\ c \notin unloaded
             /\ After(c) # {}
             /\ Cardinality(After(c)) = Viewers(c) + 1
  <2>1. c \notin loadedChunks[p] /\ c \in loadedChunks'[p] /\ c \notin unloaded
    BY <1>1, <1>7
  <2>2. After(c) = ViewersOf(c) \cup {p} /\ p \notin ViewersOf(c)
    BY <1>2, <2>1 DEF ViewersOf
  <2>3. Cardinality(After(c)) = Cardinality(ViewersOf(c)) + 1
    BY <2>2, FiniteViewers, FS_AddElement
  <2> QED
    BY <2>1, <2>2, <2>3, ViewersCount
<1>8. ASSUME NEW c, c \notin batch, c \notin unloaded
      PROVE  After(c) = ViewersOf(c) /\ Cardinality(After(c)) = Viewers(c)
  <2>1. c \in loadedChunks'[p] <=> c \in loadedChunks[p]
    BY <1>1, <1>8
  <2>2. After(c) = ViewersOf(c)
    BY <1>2, <2>1 DEF ViewersOf
  <2> QED
    BY <2>2, ViewersCount
<1> HIDE DEF After
<1>9. chunks' = [c \in {k \in DOMAIN chunks : ~ Unviewed(k, unloaded)} \cup batch |->
                   StillViewed(c, unloaded, batch)]
  BY DEF ReleaseAndLoad
<1>10. ASSUME NEW c
       PROVE  c \in DOMAIN chunks' <=> After(c) # {}
  <2>1. CASE c \in unloaded
    BY <1>6, <1>9, <2>1 DEF Unviewed
  <2>2. CASE c \in batch
    BY <1>7, <1>9, <2>2
  <2>3. CASE c \notin batch /\ c \notin unloaded
    BY <1>3, <1>5, <1>8, <1>9, <2>3 DEF Unviewed
  <2> QED
    BY <2>1, <2>2, <2>3
<1>11. ASSUME NEW c \in DOMAIN chunks'
       PROVE  chunks'[c] = Cardinality(After(c))
  <2>1. chunks'[c] = StillViewed(c, unloaded, batch)
    BY <1>9
  <2>2. Viewers(c) \in Nat
    BY ViewersCount, FiniteViewers
  <2>3. CASE c \in unloaded
    BY <1>6, <2>1, <2>2, <2>3 DEF StillViewed
  <2>4. CASE c \in batch
    BY <1>7, <2>1, <2>2, <2>4 DEF StillViewed
  <2>5. CASE c \notin batch /\ c \notin unloaded
    BY <1>8, <2>1, <2>2, <2>5 DEF StillViewed
  <2> QED
    BY <2>3, <2>4, <2>5
<1>12. DOMAIN chunks' = UNION {loadedChunks'[q] : q \in Players}
  BY <1>4, <1>10
<1> QED
  BY <1>11, <1>12 DEF ViewersExact, After

\* Nobody views anything at first.
LEMMA InitChunks == Init => ChunkInv
  BY DEF Init, ChunkInv, ViewersExact, Resting

\* Every step of either thread keeps chunks and viewers in line.
LEMMA StepChunks == ChunkInv /\ [Next]_vars => ChunkInv'
<1> SUFFICES ASSUME ChunkInv, [Next]_vars PROVE ChunkInv'
  OBVIOUS
<1>1. CASE Generate
  <2> DEFINE p == tick.player
             desired == InRange(tick.x, tick.z, tick.radiusSq, viewDistance[p])
             unloaded == loadedChunks[p] \ desired
  <2>1. PICK batch \in Batches(p, desired) :
          /\ loadedChunks' = [loadedChunks EXCEPT ![p] =
                                (loadedChunks[p] \cap desired) \cup batch]
          /\ ReleaseAndLoad(unloaded, batch)
          /\ tick' = [at |-> "send", player |-> p, batch |-> batch]
    BY <1>1, Zenon DEF Generate
  <2>2. p \in Players
    BY <1>1 DEF Generate, ChunkInv
  <2>3. batch \subseteq desired \ loadedChunks[p]
    BY <2>1 DEF Batches, Candidates
  <2> DEFINE kept == loadedChunks[p] \cap desired
  <2>4. /\ loadedChunks[p] = kept \cup unloaded
        /\ kept \cap unloaded = {}
        /\ batch \cap (kept \cup unloaded) = {}
    BY <2>3
  <2>5. loadedChunks' = [loadedChunks EXCEPT ![p] = kept \cup batch]
        /\ ReleaseAndLoad(unloaded, batch)
    BY <2>1
  <2> HIDE DEF p, desired, unloaded, kept
  <2>6. ViewersExact'
    BY <2>2, <2>4, <2>5, ReleaseAndLoadCounts
  <2> QED
    BY <2>1, <2>5, <2>6 DEF ChunkInv
<1>2. ASSUME NEW q \in Players, ReadX(q) PROVE ChunkInv'
  BY <1>2 DEF ReadX, playerVars, ChunkInv, ViewersExact
<1>3. CASE ReadZ
  BY <1>3 DEF ReadZ, playerVars, ChunkInv, ViewersExact
<1>4. CASE ReadRadius
  BY <1>4 DEF ReadRadius, playerVars, ChunkInv, ViewersExact
<1>5. CASE SendChunks
  BY <1>5 DEF SendChunks, playerVars, Resting, ChunkInv, ViewersExact
<1>6. ASSUME UNCHANGED <<loadedChunks, chunks, tick>> PROVE ChunkInv'
  BY <1>6 DEF ChunkInv, ViewersExact
<1>7. ASSUME NetworkStep \/ UNCHANGED vars
      PROVE  UNCHANGED <<loadedChunks, chunks, tick>>
  BY <1>7 DEF NetworkStep, PlayerAuthInput, FinishAuthInput, RequestChunkRadius, vars
<1> QED
  BY <1>1, <1>2, <1>3, <1>4, <1>5, <1>6, <1>7 DEF Next, TickStep

\* The table holds exactly the chunks some player has loaded, each with the exact
\* number of its viewers.
THEOREM ViewersAlwaysExact == Spec => []ViewersExact
<1>1. ChunkInv => ViewersExact
  BY DEF ChunkInv
<1> QED
  BY <1>1, InitChunks, StepChunks, PTL DEF Spec
-----------------------------------------------------------------------------
(* Type correctness.  That a chunk of the table has a viewer follows from  *)
(* ViewersExact, the rest is kept by each step.                            *)

LoadedOK ==
    /\ DOMAIN loadedChunks = Players
    /\ \A p \in Players : loadedChunks[p] \subseteq Coordinates

PlayersOK ==
    /\ locationX \in [Players -> Places]
    /\ locationZ \in [Players -> Places]
    /\ viewDistance \in [Players -> Distances]
    /\ network \in {Resting} \cup [at : {"z"}, player : Players, z : Places]
    /\ left \subseteq Players

Types == PlayersOK /\ LoadedOK /\ TickOK

\* What is in range of a player has whole coordinates.
LEMMA InRangeCoordinates ==
    ASSUME NEW x \in Int, NEW z \in Int, NEW radiusSq, NEW bound \in Int
    PROVE  InRange(x, z, radiusSq, bound) \subseteq Coordinates
  BY DEF InRange, Coordinates

\* The first state has the types.
LEMMA InitTypes == Init => Types
  BY PlacesAssumption, DistancesAssumption
     DEF Init, Types, PlayersOK, LoadedOK, TickOK, Resting

\* A handler keeps the types.
LEMMA NetworkTypes ==
    ASSUME Types, NetworkStep
    PROVE  Types'
<1>1. ASSUME NEW p \in Players, NEW x \in Places, NEW z \in Places, PlayerAuthInput(p, x, z)
      PROVE  Types'
  BY <1>1 DEF PlayerAuthInput, Types, PlayersOK, LoadedOK, TickOK
<1>2. CASE FinishAuthInput
  <2>1. network.player \in Players /\ network.z \in Places
    BY <1>2 DEF FinishAuthInput, Types, PlayersOK, Resting
  <2> QED
    BY <1>2, <2>1 DEF FinishAuthInput, Types, PlayersOK, LoadedOK, TickOK
<1>3. ASSUME NEW p \in Players, NEW distance \in Distances, RequestChunkRadius(p, distance)
      PROVE  Types'
  BY <1>3 DEF RequestChunkRadius, Types, PlayersOK, LoadedOK, TickOK
<1> QED
  BY <1>1, <1>2, <1>3 DEF NetworkStep

\* A step of the tick keeps the types.
LEMMA TickTypes ==
    ASSUME Types, TickStep
    PROVE  Types'
<1>1. ASSUME NEW p \in Players, ReadX(p) PROVE Types'
  BY <1>1 DEF ReadX, playerVars, Types, PlayersOK, LoadedOK, TickOK
<1>2. CASE ReadZ
  BY <1>2 DEF ReadZ, playerVars, Types, PlayersOK, LoadedOK, TickOK
<1>3. CASE ReadRadius
  <2> DEFINE p == tick.player
  <2>1. p \in Players /\ tick.x \in Places /\ tick.z \in Places
    BY <1>3 DEF ReadRadius, Types, TickOK
  <2>2. viewDistance[p] \in Int
    BY <2>1, DistancesAssumption DEF Types, PlayersOK
  <2>3. viewDistance[p] * viewDistance[p] \in Nat
    BY <2>2
  <2> QED
    BY <1>3, <2>1, <2>3 DEF ReadRadius, playerVars, Types, PlayersOK, LoadedOK, TickOK
<1>4. CASE Generate
  <2> DEFINE p == tick.player
             desired == InRange(tick.x, tick.z, tick.radiusSq, viewDistance[p])
  <2>1. PICK batch \in Batches(p, desired) :
          /\ loadedChunks' = [loadedChunks EXCEPT ![p] = (@ \cap desired) \cup batch]
          /\ tick' = [at |-> "send", player |-> p, batch |-> batch]
          /\ UNCHANGED <<playerVars, network, left>>
    BY <1>4, Zenon DEF Generate
  <2>2. p \in Players /\ tick.x \in Int /\ tick.z \in Int /\ viewDistance[p] \in Int
    BY <1>4, PlacesAssumption, DistancesAssumption DEF Generate, Types, TickOK, PlayersOK
  <2>3. desired \subseteq Coordinates
    BY <2>2, InRangeCoordinates
  <2>4. batch \subseteq desired
    BY <2>1 DEF Batches, Candidates
  <2> HIDE DEF desired
  <2>5. LoadedOK'
    BY <2>1, <2>2, <2>3, <2>4 DEF Types, LoadedOK
  <2>6. TickOK'
    BY <2>1, <2>2 DEF TickOK
  <2> QED
    BY <2>1, <2>5, <2>6 DEF Types, PlayersOK, playerVars
<1>5. CASE SendChunks
  BY <1>5 DEF SendChunks, playerVars, Resting, Types, PlayersOK, LoadedOK, TickOK
<1> QED
  BY <1>1, <1>2, <1>3, <1>4, <1>5 DEF TickStep

\* Every step keeps the types.
LEMMA StepTypes == Types /\ [Next]_vars => Types'
<1>1. CASE UNCHANGED vars
  BY <1>1 DEF vars, playerVars, Types, PlayersOK, LoadedOK, TickOK
<1> QED
  BY <1>1, NetworkTypes, TickTypes DEF Next

\* Chunks in the table have a viewer.
LEMMA ChunksViewed ==
    ASSUME Types, ChunkInv
    PROVE  TypeOK
<1>1. DOMAIN chunks \subseteq Coordinates
  BY DEF Types, LoadedOK, ChunkInv, ViewersExact
<1>2. ASSUME NEW c \in DOMAIN chunks PROVE chunks[c] \in Nat \ {0}
  <2>1. chunks[c] = Cardinality(ViewersOf(c))
    BY DEF ChunkInv, ViewersExact, ViewersOf
  <2>2. ViewersOf(c) # {}
    BY DEF ChunkInv, ViewersExact, ViewersOf
  <2>3. IsFiniteSet(ViewersOf(c)) /\ Cardinality(ViewersOf(c)) \in Nat
    BY FiniteViewers
  <2> QED
    BY <2>1, <2>2, <2>3, FS_EmptySet
<1> QED
  BY <1>1, <1>2 DEF Types, PlayersOK, LoadedOK, TypeOK

\* Everything keeps its type; no chunk of the table is kept for nobody.
THEOREM GeneratorTypeCorrect == Spec => []TypeOK
<1> QED
  BY InitTypes, StepTypes, InitChunks, StepChunks, ChunksViewed, PTL DEF Spec

-----------------------------------------------------------------------------
(* Numbers.                                                                *)

\* A quotient and a remainder are the only ones.
LEMMA DivisionUnique ==
  ASSUME NEW d \in Nat \ {0}, NEW q \in Nat, NEW r \in 0 .. d - 1
  PROVE  (q * d + r) \div d = q /\ (q * d + r) % d = r
<1> DEFINE n == q * d + r
           p == n \div d
           s == n % d
<1>1. q * d \in Nat /\ n \in Nat
  OBVIOUS
<1>2. p \in Int /\ s \in 0 .. d - 1 /\ n = p * d + s
  BY <1>1
<1>3. p * d \in Int /\ p * d + s = q * d + r
  BY <1>2
<1> HIDE DEF p, s, n
<1>4. CASE p > q
  <2>1. (p - q) * d >= d
    BY <1>2, <1>4
  <2>2. (p - q) * d = p * d - q * d
    BY <1>2
  <2> QED
    BY <1>1, <1>2, <1>3, <2>1, <2>2
<1>5. CASE p < q
  <2>1. (q - p) * d >= d
    BY <1>2, <1>5
  <2>2. (q - p) * d = q * d - p * d
    BY <1>2
  <2> QED
    BY <1>1, <1>2, <1>3, <2>1, <2>2
<1>6. CASE p = q
  BY <1>1, <1>2, <1>3, <1>6 DEF p, s, n
<1> QED
  BY <1>2, <1>4, <1>5, <1>6

\* A set of numbers has a smallest one.
LEMMA SmallestOf ==
  ASSUME NEW S, S \subseteq Nat, S # {}
  PROVE  \E x \in S : \A y \in S : x <= y
<1> DEFINE R == {ss \in Nat \X Nat : ss[1] < ss[2]}
<1>1. R = OpToRel(<, Nat)
  BY Zenon DEF OpToRel
<1>2. IsWellFoundedOn(OpToRel(<, Nat), Nat)
  BY NatLessThanWellFounded, Zenon
<1>3. IsWellFoundedOn(R, Nat)
  BY <1>1, <1>2, Zenon
<1> HIDE DEF R
<1>4. PICK x \in S : \A y \in S : ~ (<<y, x>> \in R)
  BY WFMin, <1>3
<1>5. ASSUME NEW y \in S PROVE x <= y
  <2>1. x \in Nat /\ y \in Nat
    OBVIOUS
  <2>2. <<y, x>> \notin R
    BY <1>4
  <2> QED
    BY <2>1, <2>2 DEF R
<1> QED
  BY <1>5

-----------------------------------------------------------------------------
(* Powers of two.                                                          *)

\* The recursive equation has a solution.
LEMMA BitValueDef == BitValue = [n \in 0 .. 16 |-> IF n = 0 THEN 1 ELSE 2 * BitValue[n - 1]]
<1> DEFINE Table == <<1, 2, 4, 8, 16, 32, 64, 128, 256, 512, 1024, 2048, 4096, 8192, 16384,
                      32768, 65536>>
           f == [n \in 0 .. 16 |-> Table[n + 1]]
<1>1. f = [n \in 0 .. 16 |-> IF n = 0 THEN 1 ELSE 2 * f[n - 1]]
  <2>1. ASSUME NEW n \in 0 .. 16 PROVE f[n] = IF n = 0 THEN 1 ELSE 2 * f[n - 1]
    OBVIOUS
  <2> QED
    BY <2>1
<1> QED
  BY <1>1 DEF BitValue

\* And this is it.
LEMMA BitValuesKnown ==
  /\ BitValue[0] = 1 /\ BitValue[1] = 2 /\ BitValue[2] = 4 /\ BitValue[3] = 8 /\ BitValue[4] = 16
  /\ BitValue[5] = 32 /\ BitValue[6] = 64 /\ BitValue[7] = 128 /\ BitValue[8] = 256
  /\ BitValue[9] = 512 /\ BitValue[10] = 1024 /\ BitValue[11] = 2048 /\ BitValue[12] = 4096
  /\ BitValue[13] = 8192 /\ BitValue[14] = 16384 /\ BitValue[15] = 32768 /\ BitValue[16] = 65536
<1>1. BitValue[0] = 1 /\ \A n \in 1 .. 16 : BitValue[n] = 2 * BitValue[n - 1]
  BY BitValueDef
<1>2. /\ BitValue[1] = 2 * BitValue[0] /\ BitValue[2] = 2 * BitValue[1] /\ BitValue[3] = 2 * BitValue[2]
      /\ BitValue[4] = 2 * BitValue[3] /\ BitValue[5] = 2 * BitValue[4] /\ BitValue[6] = 2 * BitValue[5]
      /\ BitValue[7] = 2 * BitValue[6] /\ BitValue[8] = 2 * BitValue[7] /\ BitValue[9] = 2 * BitValue[8]
      /\ BitValue[10] = 2 * BitValue[9] /\ BitValue[11] = 2 * BitValue[10]
      /\ BitValue[12] = 2 * BitValue[11] /\ BitValue[13] = 2 * BitValue[12]
      /\ BitValue[14] = 2 * BitValue[13] /\ BitValue[15] = 2 * BitValue[14]
      /\ BitValue[16] = 2 * BitValue[15]
  BY <1>1
<1> QED
  BY <1>1, <1>2

\* They are positive, double and grow.
LEMMA BitValueGrows ==
  /\ \A n \in 0 .. 16 : BitValue[n] \in Nat \ {0}
  /\ \A n \in 0 .. 15 : BitValue[n + 1] = 2 * BitValue[n]
  /\ \A m, n \in 0 .. 16 : m <= n => BitValue[m] <= BitValue[n]
<1>1. \A n \in 0 .. 16 : BitValue[n] \in Nat \ {0}
  BY BitValuesKnown
<1>2. \A n \in 0 .. 15 : BitValue[n + 1] = 2 * BitValue[n]
  BY BitValueDef
<1>3. ASSUME NEW m \in 0 .. 16, NEW n \in 0 .. 16, m <= n PROVE BitValue[m] <= BitValue[n]
  BY <1>3, BitValuesKnown
<1> QED
  BY <1>1, <1>2, <1>3

\* One bit more of a number.
LEMMA OneBitMore ==
  ASSUME NEW n \in Nat, NEW m \in Nat \ {0}
  PROVE  n % (2 * m) = (n % m) + (IF (n \div m) % 2 = 1 THEN m ELSE 0)
<1> DEFINE q == n \div m
           r == n % m
           p == q \div 2
           s == q % 2
<1>1. q \in Nat /\ r \in 0 .. m - 1 /\ n = q * m + r
  OBVIOUS
<1>2. p \in Nat /\ s \in 0 .. 1 /\ q = 2 * p + s
  BY <1>1
<1> HIDE DEF q, r, p, s
<1>3. CASE s = 0
  <2>1. q * m = p * (2 * m)
    BY <1>2, <1>3
  <2>2. n = p * (2 * m) + r /\ r \in 0 .. 2 * m - 1 /\ 2 * m \in Nat \ {0}
    BY <1>1, <2>1
  <2>3. n % (2 * m) = r
    BY <1>2, <2>2, DivisionUnique
  <2> QED
    BY <1>1, <1>3, <2>3 DEF q, r, s
<1>4. CASE s = 1
  <2>1. q * m = p * (2 * m) + m
    BY <1>2, <1>4
  <2>2. n = p * (2 * m) + (m + r) /\ m + r \in 0 .. 2 * m - 1 /\ 2 * m \in Nat \ {0}
    BY <1>1, <1>2, <2>1
  <2>3. n % (2 * m) = m + r
    BY <1>2, <2>2, DivisionUnique
  <2> QED
    BY <1>1, <1>4, <2>3 DEF q, r, s
<1> QED
  BY <1>2, <1>3, <1>4

\* A number below a power is its own remainder, and has no bits from there on.
LEMMA NoBitsAbove ==
  ASSUME NEW m \in Nat \ {0}, NEW n \in 0 .. m - 1
  PROVE  n % m = n /\ n \div m = 0
<1>1. n = 0 * m + n
  OBVIOUS
<1> QED
  BY <1>1, DivisionUnique

\* Adding up the bits of a number, from the lowest on, gives the number.
LEMMA BitsAddUp ==
  ASSUME NEW bits \in 0 .. 16, NEW n \in 0 .. BitValue[bits] - 1, NEW word, NEW shift \in Nat,
         \A k \in 0 .. bits - 1 : (shift + k \in word) <=> (n \div BitValue[k]) % 2 = 1
  PROVE  BitsAt(word, shift, bits) = n
<1> DEFINE Rest(k) == IF shift + k - 1 \in word THEN BitValue[k - 1] ELSE 0
           Solves(f) == f = [k \in 0 .. bits |-> IF k = 0 THEN 0 ELSE f[k - 1] + Rest(k)]
           g == [k \in 0 .. bits |-> n % BitValue[k]]
           sum == CHOOSE f : Solves(f)
<1>1. n \in Nat /\ \A k \in 0 .. 16 : BitValue[k] \in Nat \ {0}
  BY BitValueGrows
<1>2. ASSUME NEW k \in 1 .. bits PROVE n % BitValue[k] = (n % BitValue[k - 1]) + Rest(k)
  <2>1. k - 1 \in 0 .. bits - 1 /\ k - 1 \in 0 .. 15 /\ shift + (k - 1) = shift + k - 1
    OBVIOUS
  <2>2. BitValue[k] = 2 * BitValue[k - 1] /\ BitValue[k - 1] \in Nat \ {0}
    <3>1. BitValue[k - 1 + 1] = 2 * BitValue[k - 1] /\ k - 1 + 1 = k
      BY <2>1, BitValueGrows
    <3> QED
      BY <1>1, <2>1, <3>1
  <2>3. n % (2 * BitValue[k - 1])
          = (n % BitValue[k - 1]) + (IF (n \div BitValue[k - 1]) % 2 = 1 THEN BitValue[k - 1] ELSE 0)
    BY <1>1, <2>2, OneBitMore
  <2>4. (shift + k - 1 \in word) <=> (n \div BitValue[k - 1]) % 2 = 1
    BY <2>1
  <2> QED
    BY <2>2, <2>3, <2>4
<1>3. n % BitValue[0] = 0
  BY <1>1, BitValuesKnown
<1>4. Solves(g)
  <2> HIDE DEF Rest
  <2>1. ASSUME NEW k \in 0 .. bits PROVE g[k] = IF k = 0 THEN 0 ELSE g[k - 1] + Rest(k)
    BY <1>2, <1>3
  <2> QED
    BY <2>1
<1>5. Solves(sum)
  <2> HIDE DEF Solves, g
  <2> QED
    BY <1>4
<1>6. ASSUME NEW k \in 0 .. bits PROVE sum[k] = g[k]
  <2> DEFINE Wrong == {j \in 0 .. bits : sum[j] # g[j]}
  <2> HIDE DEF sum, g, Rest
  <2>1. /\ sum = [i \in 0 .. bits |-> IF i = 0 THEN 0 ELSE sum[i - 1] + Rest(i)]
        /\ g = [i \in 0 .. bits |-> IF i = 0 THEN 0 ELSE g[i - 1] + Rest(i)]
    BY <1>4, <1>5
  <2>2. /\ sum[0] = g[0]
        /\ \A i \in 1 .. bits : sum[i] = sum[i - 1] + Rest(i) /\ g[i] = g[i - 1] + Rest(i)
    BY <2>1
  <2> SUFFICES ASSUME Wrong # {} PROVE FALSE
    OBVIOUS
  <2>3. PICK j \in Wrong : \A i \in Wrong : j <= i
    BY SmallestOf
  <2>4. j \in 1 .. bits /\ j - 1 \in 0 .. bits /\ j - 1 \notin Wrong
    BY <2>2, <2>3
  <2> QED
    BY <2>2, <2>3, <2>4
<1>7. BitsAt(word, shift, bits) = sum[bits]
  BY DEF BitsAt
<1>8. bits \in 0 .. bits
  OBVIOUS
<1> QED
  BY <1>1, <1>6, <1>7, <1>8, NoBitsAbove

-----------------------------------------------------------------------------
(* The width of a block's index.                                           *)

\* Some power is as large as the number, and the one before is not.
LEMMA LogUpIsLeast ==
  ASSUME NEW n \in Nat \ {0}, n <= BitValue[16]
  PROVE  /\ LogUp(n) \in 0 .. 16
         /\ n <= BitValue[LogUp(n)]
         /\ \A a \in 0 .. LogUp(n) - 1 : BitValue[a] < n
<1> DEFINE Large == {b \in 0 .. 16 : n <= BitValue[b]}
<1>1. 16 \in Large /\ Large \subseteq Nat
  OBVIOUS
<1>2. PICK b \in Large : \A a \in Large : b <= a
  BY <1>1, SmallestOf
<1>3. b \in 0 .. 16 /\ n <= BitValue[b] /\ \A a \in 0 .. b - 1 : BitValue[a] < n
  BY <1>2, BitValueGrows
<1> QED
  BY <1>3 DEF LogUp

\* The width is one the format knows, and wide enough for every index.
LEMMA WidthFits ==
  ASSUME NEW n \in Nat \ {0}, n <= BitValue[16]
  PROVE  BitsPerBlock(n) \in Widths /\ n <= BitValue[BitsPerBlock(n)]
<1> DEFINE m == AtLeast(n, 2)
           b == LogUp(m)
<1>1. m \in Nat \ {0} /\ 2 <= m /\ n <= m /\ m <= BitValue[16]
  BY BitValuesKnown DEF AtLeast
<1>2. b \in 0 .. 16 /\ m <= BitValue[b]
  BY <1>1, LogUpIsLeast
<1>3. b # 0
  BY <1>1, <1>2, BitValuesKnown
<1>4. BitsPerBlock(n) = IF b \in 7 .. 8 THEN 8 ELSE IF b > 8 THEN 16 ELSE b
  BY DEF BitsPerBlock
<1> HIDE DEF m, b
<1>5. BitsPerBlock(n) \in Widths /\ b <= BitsPerBlock(n)
  BY <1>2, <1>3, <1>4 DEF Widths
<1>6. BitValue[b] <= BitValue[BitsPerBlock(n)] /\ BitValue[b] \in Nat /\ BitValue[BitsPerBlock(n)] \in Nat
  BY <1>2, <1>5, BitValueGrows DEF Widths
<1> QED
  BY <1>1, <1>2, <1>5, <1>6

-----------------------------------------------------------------------------
(* Packing and unpacking.                                                  *)

\* How many blocks are in a word, and that they fit it.
LEMMA WordHolds ==
  ASSUME NEW bits \in Widths
  PROVE  /\ BlocksPerWord(bits) \in Nat \ {0}
         /\ BlocksPerWord(bits) * bits <= 32
<1>1. 32 \div 1 = 32 /\ 32 \div 2 = 16 /\ 32 \div 3 = 10 /\ 32 \div 4 = 8 /\ 32 \div 5 = 6
      /\ 32 \div 6 = 5 /\ 32 \div 8 = 4 /\ 32 \div 16 = 2
  OBVIOUS
<1> QED
  BY <1>1 DEF Widths, BlocksPerWord

\* A block is in one of the words, at one of its places.
LEMMA PlaceInWord ==
  ASSUME NEW per \in Nat \ {0}, NEW c \in Cell, Cells \in Nat
  PROVE  /\ c \div per \in 0 .. (Cells + per - 1) \div per - 1
         /\ c % per \in 0 .. per - 1
         /\ (c \div per) * per + (c % per) = c
<1> DEFINE q == c \div per
           r == c % per
           last == (Cells + per - 1) \div per
           s == (Cells + per - 1) % per
<1>1. q \in Nat /\ r \in 0 .. per - 1 /\ c = q * per + r /\ c < Cells /\ c \in Nat
  BY DEF Cell
<1>2. last \in Nat /\ s \in 0 .. per - 1 /\ Cells + per - 1 = last * per + s
  <2>1. Cells + per - 1 \in Nat
    OBVIOUS
  <2> QED
    BY <2>1
<1> HIDE DEF q, r, last, s
<1>3. q < last
  <2> SUFFICES ASSUME q >= last PROVE FALSE
    BY <1>1, <1>2
  <2>1. (q - last) * per >= 0
    BY <1>1, <1>2
  <2>2. (q - last) * per = q * per - last * per /\ q * per \in Nat /\ last * per \in Nat
    BY <1>1, <1>2
  <2> QED
    BY <1>1, <1>2, <2>1, <2>2
<1>4. q \in 0 .. last - 1 /\ r \in 0 .. per - 1 /\ q * per + r = c
  BY <1>1, <1>2, <1>3
<1> QED
  BY <1>4 DEF q, r, last

\* An index has no bits beyond its width.
LEMMA BitsBelow ==
  ASSUME NEW bits \in Widths, NEW n \in Nat, n < BitValue[bits], NEW j \in 0 .. 15,
         (n \div BitValue[j]) % 2 = 1
  PROVE  j \in 0 .. bits - 1
<1> SUFFICES ASSUME j >= bits PROVE FALSE
  BY DEF Widths
<1>1. bits \in 0 .. 16 /\ BitValue[bits] <= BitValue[j] /\ BitValue[j] \in Nat \ {0} /\ BitValue[bits] \in Nat
  BY BitValueGrows DEF Widths
<1>2. n \in 0 .. BitValue[j] - 1
  BY <1>1
<1>3. n \div BitValue[j] = 0
  BY <1>1, <1>2, NoBitsAbove
<1> QED
  BY <1>3

\* At a block's place in a word are the bits of its index, and no other's.
LEMMA OwnBits ==
  ASSUME NEW bits \in Widths, NEW blocks \in [Cell -> Nat],
         \A c \in Cell : blocks[c] < BitValue[bits],
         NEW w \in Nat, NEW b \in 0 .. BlocksPerWord(bits) - 1,
         w * BlocksPerWord(bits) + b \in Cell, Cells \in Nat,
         NEW k \in 0 .. bits - 1
  PROVE  (b * bits + k \in Word(blocks, bits, w))
           <=> (blocks[w * BlocksPerWord(bits) + b] \div BitValue[k]) % 2 = 1
<1> DEFINE per == BlocksPerWord(bits)
           first == w * per
           Has(n, j) == (n \div BitValue[j]) % 2 = 1
           There == {a \in 0 .. per - 1 : first + a < Cells}
<1>1. /\ per \in Nat \ {0} /\ per * bits <= 32
      /\ bits \in 1 .. 16 /\ bits \in Nat \ {0} /\ k \in 0 .. 15 /\ b \in Nat /\ k \in Nat
  BY WordHolds DEF Widths
<1>2. first \in Nat /\ first + b \in Cell /\ b \in There
  BY <1>1 DEF Cell
<1>3. Word(blocks, bits, w) = UNION {Shifted(blocks[first + a], a * bits) : a \in There}
  BY DEF Word
<1>4. \A n, shift : Shifted(n, shift) = {j + shift : j \in {j \in 0 .. 15 : Has(n, j)}} \cap (0 .. 31)
  BY DEF Shifted
<1>5. b * bits + k \in 0 .. 31
  <2>1. (per - b) * bits >= bits
    BY <1>1
  <2>2. (per - b) * bits = per * bits - b * bits /\ b * bits \in Nat /\ per * bits \in Nat
    BY <1>1
  <2> QED
    BY <1>1, <2>1, <2>2
<1> HIDE DEF per, first, Has
<1>6. ASSUME Has(blocks[first + b], k) PROVE b * bits + k \in Word(blocks, bits, w)
  <2>1. b * bits + k = k + b * bits
    BY <1>1
  <2>2. b * bits + k \in Shifted(blocks[first + b], b * bits)
    BY <1>1, <1>4, <1>5, <1>6, <2>1
  <2> QED
    BY <1>2, <1>3, <2>2
<1>7. ASSUME b * bits + k \in Word(blocks, bits, w) PROVE Has(blocks[first + b], k)
  <2>1. PICK a \in There : b * bits + k \in Shifted(blocks[first + a], a * bits)
    BY <1>3, <1>7
  <2>2. PICK j \in 0 .. 15 : Has(blocks[first + a], j) /\ b * bits + k = j + a * bits
    BY <1>4, <2>1
  <2>3. first + a \in Cell /\ a \in Nat
    BY <1>1, <1>2 DEF Cell
  <2>4. j \in 0 .. bits - 1
    <3>1. blocks[first + a] \in Nat /\ blocks[first + a] < BitValue[bits]
      BY <2>3
    <3> QED
      BY <2>2, <3>1, BitsBelow DEF Has
  <2>5. b * bits + k = a * bits + j /\ a * bits \in Nat
    BY <1>1, <2>2, <2>3
  <2>6. (b * bits + k) \div bits = b /\ (b * bits + k) % bits = k
    BY <1>1, DivisionUnique
  <2>7. (a * bits + j) \div bits = a /\ (a * bits + j) % bits = j
    BY <1>1, <2>3, <2>4, DivisionUnique
  <2> QED
    BY <2>2, <2>5, <2>6, <2>7
<1> QED
  BY <1>6, <1>7 DEF Has, first, per

\* What is packed is unpacked as it was, at every width.
LEMMA UnpackPack ==
  ASSUME NEW bits \in Widths, NEW blocks \in [Cell -> Nat], Cells \in Nat,
         \A c \in Cell : blocks[c] < BitValue[bits]
  PROVE  Unpack(Pack(blocks, bits), bits) = blocks
<1> DEFINE per == BlocksPerWord(bits)
<1>1. /\ per \in Nat \ {0} /\ per * bits <= 32
      /\ bits \in 0 .. 16 /\ bits # 0 /\ bits \in Nat
  BY WordHolds DEF Widths
<1>2. ASSUME NEW c \in Cell PROVE Unpack(Pack(blocks, bits), bits)[c] = blocks[c]
  <2> DEFINE w == c \div per
             b == c % per
  <2>1. /\ w \in 0 .. (Cells + per - 1) \div per - 1
        /\ b \in 0 .. per - 1
        /\ w * per + b = c
    <3> HIDE DEF per
    <3> QED
      BY <1>1, PlaceInWord
  <2>2. Pack(blocks, bits)[w] = Word(blocks, bits, w)
    BY <2>1 DEF Pack, WordCount
  <2>3. Unpack(Pack(blocks, bits), bits)[c] = BitsAt(Pack(blocks, bits)[w], b * bits, bits)
    BY <1>1 DEF Unpack
  <2>4. w \in Nat /\ b \in Nat /\ b * bits \in Nat
    <3> HIDE DEF w, b, per
    <3> QED
      BY <1>1, <2>1
  <2> HIDE DEF w, b
  <2>5. ASSUME NEW k \in 0 .. bits - 1
        PROVE  (b * bits + k \in Word(blocks, bits, w)) <=> (blocks[c] \div BitValue[k]) % 2 = 1
    BY <2>1, <2>4, OwnBits
  <2>6. blocks[c] \in 0 .. BitValue[bits] - 1
    <3>1. blocks[c] \in Nat /\ BitValue[bits] \in Nat
      BY <1>1, BitValueGrows
    <3> QED
      BY <3>1
  <2> HIDE DEF per
  <2>7. BitsAt(Word(blocks, bits, w), b * bits, bits) = blocks[c]
    BY <1>1, <2>4, <2>5, <2>6, BitsAddUp
  <2> QED
    BY <2>2, <2>3, <2>7
<1>3. Unpack(Pack(blocks, bits), bits)
        = [c \in Cell |-> Unpack(Pack(blocks, bits), bits)[c]]
  BY DEF Unpack
<1> QED
  BY <1>2, <1>3

-----------------------------------------------------------------------------
(* The palette.                                                            *)

\* A palette of at least one state, each of its own, and indices into it.
GoodStorage(s, S) ==
    /\ s = [palette |-> s.palette, blocks |-> s.blocks]
    /\ s.palette \in Seq(S) /\ s.palette # <<>>
    /\ \A i, j \in DOMAIN s.palette : s.palette[i] = s.palette[j] => i = j
    /\ s.blocks \in [Cell -> Nat]
    /\ \A c \in Cell : s.blocks[c] < Len(s.palette)

\* There is a first state in it.
LEMMA SizeOfPalette ==
  ASSUME NEW S, NEW s, GoodStorage(s, S)
  PROVE  Len(s.palette) \in Nat \ {0}
<1>1. s.palette \in Seq(S) /\ s.palette # <<>>
  BY DEF GoodStorage
<1> QED
  BY <1>1

\* Where a state is in the palette, or that it is not.
LEMMA PaletteIndexFinds ==
  ASSUME NEW S, NEW palette \in Seq(S), NEW state
  PROVE  \/ /\ PaletteIndex(palette, state) = Len(palette)
            /\ \A i \in DOMAIN palette : palette[i] # state
         \/ /\ PaletteIndex(palette, state) \in 0 .. Len(palette) - 1
            /\ palette[PaletteIndex(palette, state) + 1] = state
<1> DEFINE found == {i \in DOMAIN palette : palette[i] = state}
<1>1. CASE found = {}
  BY <1>1 DEF PaletteIndex
<1>2. CASE found # {}
  <2>1. found \subseteq Nat /\ DOMAIN palette = 1 .. Len(palette) /\ Len(palette) \in Nat
    OBVIOUS
  <2>2. \E i \in found : \A j \in found : i <= j
    <3> HIDE DEF found
    <3> QED
      BY <1>2, <2>1, SmallestOf
  <2>3. PICK i \in found : i - 1 = PaletteIndex(palette, state)
    BY <1>2, <2>2 DEF PaletteIndex
  <2>4. i \in 1 .. Len(palette) /\ palette[i] = state
    BY <2>1, <2>3
  <2> HIDE DEF found
  <2>5. PaletteIndex(palette, state) \in 0 .. Len(palette) - 1 /\ i = PaletteIndex(palette, state) + 1
    BY <2>1, <2>3, <2>4
  <2> QED
    BY <2>4, <2>5
<1> QED
  BY <1>1, <1>2

\* setState sets the one block and leaves the others as they were.
LEMMA SetStateSets ==
  ASSUME NEW S, NEW s, GoodStorage(s, S), NEW at \in Cell, NEW state \in S
  PROVE  /\ GoodStorage(SetState(s, at, state), S)
         /\ Len(SetState(s, at, state).palette) \in Len(s.palette) .. Len(s.palette) + 1
         /\ GetState(SetState(s, at, state), at) = state
         /\ \A c \in Cell \ {at} : GetState(SetState(s, at, state), c) = GetState(s, c)
<1> DEFINE p == s.palette
           index == PaletteIndex(p, state)
           q == IF index = Len(p) THEN Append(p, state) ELSE p
           t == SetState(s, at, state)
<1>1. p \in Seq(S) /\ p # <<>> /\ Len(p) \in Nat /\ DOMAIN p = 1 .. Len(p)
  BY DEF GoodStorage
<1>2. t.palette = q /\ t.blocks = [s.blocks EXCEPT ![at] = index]
      /\ t = [palette |-> t.palette, blocks |-> t.blocks]
  BY DEF SetState
<1> HIDE DEF t
<1>3. /\ q \in Seq(S) /\ q # <<>> /\ Len(q) \in Len(p) .. Len(p) + 1
      /\ index \in 0 .. Len(q) - 1 /\ q[index + 1] = state
      /\ \A i \in 1 .. Len(p) : q[i] = p[i]
      /\ \A i, j \in DOMAIN q : q[i] = q[j] => i = j
  <2> HIDE DEF p
  <2>1. \A i, j \in 1 .. Len(p) : p[i] = p[j] => i = j
    BY <1>1 DEF GoodStorage, p
  <2>2. \/ index = Len(p) /\ \A i \in 1 .. Len(p) : p[i] # state
        \/ index \in 0 .. Len(p) - 1 /\ p[index + 1] = state
    BY <1>1, PaletteIndexFinds
  <2> HIDE DEF index
  <2>3. CASE index = Len(p) /\ \A i \in 1 .. Len(p) : p[i] # state
    <3>1. /\ q = Append(p, state) /\ q \in Seq(S) /\ Len(q) = Len(p) + 1
          /\ DOMAIN q = 1 .. Len(p) + 1 /\ q[Len(p) + 1] = state
          /\ \A i \in 1 .. Len(p) : q[i] = p[i]
      BY <1>1, <2>3
    <3> HIDE DEF q
    <3>2. ASSUME NEW i \in DOMAIN q, NEW j \in DOMAIN q, q[i] = q[j] PROVE i = j
      BY <1>1, <2>1, <2>3, <3>1, <3>2
    <3>3. q # <<>>
      BY <1>1, <3>1
    <3> QED
      BY <1>1, <2>3, <3>1, <3>2, <3>3
  <2>4. CASE index \in 0 .. Len(p) - 1 /\ p[index + 1] = state
    <3>1. index # Len(p)
      <4>1. Len(p) \in Nat
        BY <1>1
      <4>2. index \in 0 .. Len(p) - 1
        BY <2>4
      <4> HIDE DEF q
      <4> QED
        BY <4>1, <4>2
    <3>2. q = p
      BY <3>1, Zenon
    <3> HIDE DEF q
    <3> QED
      BY <1>1, <2>1, <2>4, <3>2
  <2> QED
    BY <2>2, <2>3, <2>4
<1> HIDE DEF q, index
<1>4. /\ t.blocks \in [Cell -> Nat] /\ t.blocks[at] = index
      /\ \A c \in Cell \ {at} : t.blocks[c] = s.blocks[c]
      /\ \A c \in Cell : s.blocks[c] \in Nat /\ s.blocks[c] < Len(p)
  BY <1>2, <1>3 DEF GoodStorage
<1>5. \A c \in Cell : t.blocks[c] < Len(q)
  BY <1>1, <1>3, <1>4
<1>6. GoodStorage(t, S)
  BY <1>2, <1>3, <1>4, <1>5 DEF GoodStorage
<1>7. GetState(t, at) = state
  BY <1>2, <1>3, <1>4 DEF GetState
<1>8. ASSUME NEW c \in Cell \ {at} PROVE GetState(t, c) = GetState(s, c)
  <2>1. s.blocks[c] + 1 \in 1 .. Len(p)
    BY <1>1, <1>4
  <2> QED
    BY <1>2, <1>3, <1>4, <2>1 DEF GetState
<1> QED
  BY <1>2, <1>3, <1>6, <1>7, <1>8 DEF t

-----------------------------------------------------------------------------
(* The invariant.                                                          *)

\* What serialize writes of a storage.
SerializedStorage(s) ==
    [bits |-> BitsPerBlock(Len(s.palette)),
     words |-> Pack(s.blocks, BitsPerBlock(Len(s.palette))), palette |-> s.palette]

\* In memory every block is what it was last set to; the palette has grown by at
\* most a state with each call; what was serialized is of the storage as it is.
StorageInv ==
    /\ GoodStorage(storage, Int)
    /\ sets \in 0 .. MaxSets
    /\ Len(storage.palette) + MaxSets - sets <= BitValue[16]
    /\ lastSet \in [Cell -> Int]
    /\ \A c \in Cell : GetState(storage, c) = lastSet[c]
    /\ serialized = NotSerialized \/ serialized = SerializedStorage(storage)

\* The states set so far are read back from the first on.
LEMMA InitStorage == StorageInit => StorageInv
<1> SUFFICES ASSUME StorageInit PROVE StorageInv
  OBVIOUS
<1> USE StatesAssumption
<1>1. BitValue[16] \in Nat /\ 0 \in Cell /\ Unset \in Int
  BY BitValueGrows DEF Cell
<1>2. PICK n \in Sizes : storage = IF n = 1 THEN NewStorage ELSE AfterStates(n)
  BY DEF StorageInit
<1>3. n \in Nat \ {0} /\ n + MaxSets <= BitValue[16]
  OBVIOUS
<1>4. /\ storage = [palette |-> [i \in 1 .. n |-> i - 1],
                    blocks |-> [c \in Cell |-> IF c = 0 THEN n - 1 ELSE 0]]
  <2>1. CASE n = 1
    <3>1. <<Unset>> = [i \in 1 .. n |-> i - 1]
      BY <2>1
    <3>2. [c \in Cell |-> 0] = [c \in Cell |-> IF c = 0 THEN n - 1 ELSE 0]
      BY <2>1
    <3> QED
      BY <1>2, <2>1, <3>1, <3>2 DEF NewStorage
  <2>2. CASE n # 1
    <3>1. NewStorage.blocks = [c \in Cell |-> 0]
      BY DEF NewStorage
    <3>2. [NewStorage.blocks EXCEPT ![0] = n - 1] = [c \in Cell |-> IF c = 0 THEN n - 1 ELSE 0]
      BY <3>1
    <3> QED
      BY <1>2, <2>2, <3>2 DEF AfterStates
  <2> QED
    BY <2>1, <2>2
<1>5. /\ storage.palette = [i \in 1 .. n |-> i - 1] /\ storage.palette \in Seq(Int)
      /\ Len(storage.palette) = n /\ storage.palette # <<>>
      /\ storage.blocks = [c \in Cell |-> IF c = 0 THEN n - 1 ELSE 0]
  <2> DEFINE numbers == [i \in 1 .. n |-> i - 1]
  <2>1. numbers \in Seq(Int) /\ Len(numbers) = n /\ numbers # <<>>
    BY <1>3
  <2>2. storage.palette = numbers
        /\ storage.blocks = [c \in Cell |-> IF c = 0 THEN n - 1 ELSE 0]
    BY <1>4
  <2> QED
    BY <2>1, <2>2
<1>6. /\ \A c \in Cell : c \in Nat
      /\ lastSet = [c \in Cell |-> IF c = 0 THEN n - 1 ELSE 0] /\ sets = 0
  BY <1>5 DEF StorageInit, Cell
<1>7. GoodStorage(storage, Int)
  <2>1. storage = [palette |-> storage.palette, blocks |-> storage.blocks]
    BY <1>4
  <2>2. storage.blocks \in [Cell -> Nat] /\ \A c \in Cell : storage.blocks[c] < n
    BY <1>3, <1>5
  <2>3. \A i, j \in DOMAIN storage.palette : storage.palette[i] = storage.palette[j] => i = j
    BY <1>3, <1>5
  <2> QED
    BY <1>5, <2>1, <2>2, <2>3 DEF GoodStorage
<1>8. ASSUME NEW c \in Cell PROVE GetState(storage, c) = lastSet[c]
  BY <1>3, <1>5, <1>6 DEF GetState
<1>9. serialized = NotSerialized
  BY DEF StorageInit
<1> QED
  BY <1>1, <1>3, <1>5, <1>6, <1>7, <1>8, <1>9 DEF StorageInv

\* Each call keeps the invariant, whichever block and state it is for.
LEMMA StepStorage == StorageInv /\ [StorageNext]_storageVars => StorageInv'
<1> SUFFICES ASSUME StorageInv, [StorageNext]_storageVars PROVE StorageInv'
  OBVIOUS
<1> USE StatesAssumption
<1>1. CASE UNCHANGED storageVars
  BY <1>1 DEF StorageInv, storageVars, GoodStorage, GetState, SerializedStorage
<1>2. ASSUME NEW at \in Touched, NEW state \in SomeStates, Set(at, state) PROVE StorageInv'
  <2>1. state \in Int
    BY DEF SomeStates
  <2>2. at \in Cell
    BY DEF Cell
  <2>3. /\ GoodStorage(storage', Int)
        /\ Len(storage'.palette) \in Len(storage.palette) .. Len(storage.palette) + 1
        /\ GetState(storage', at) = state
        /\ \A c \in Cell \ {at} : GetState(storage', c) = GetState(storage, c)
    BY <1>2, <2>1, <2>2, SetStateSets DEF Set, StorageInv
  <2>4. /\ sets' = sets + 1 /\ sets < MaxSets /\ lastSet' = [lastSet EXCEPT ![at] = state]
    BY <1>2 DEF Set
  <2>5. lastSet' \in [Cell -> Int] /\ sets' \in 0 .. MaxSets
    BY <2>1, <2>4 DEF StorageInv
  <2>6. ASSUME NEW c \in Cell PROVE GetState(storage', c) = lastSet'[c]
    BY <2>2, <2>3, <2>4 DEF StorageInv
  <2>7. Len(storage'.palette) + MaxSets - sets' <= BitValue[16]
    <3>1. Len(storage.palette) \in Nat
      BY SizeOfPalette DEF StorageInv
    <3>2. sets \in Nat
      BY DEF StorageInv
    <3>3. BitValue[16] \in Nat
      BY BitValueGrows
    <3> QED
      BY <2>3, <2>4, <3>1, <3>2, <3>3 DEF StorageInv
  <2>8. StorageInv' = ( /\ GoodStorage(storage', Int) /\ sets' \in 0 .. MaxSets
                        /\ Len(storage'.palette) + MaxSets - sets' <= BitValue[16]
                        /\ lastSet' \in [Cell -> Int]
                        /\ \A c \in Cell : GetState(storage', c) = lastSet'[c]
                        /\ \/ serialized' = NotSerialized
                           \/ serialized' = SerializedStorage(storage'))
    BY DEF StorageInv, GoodStorage, GetState, SerializedStorage
  <2>9. serialized' = NotSerialized
    BY <1>2 DEF Set
  <2> QED
    BY <2>3, <2>5, <2>6, <2>7, <2>8, <2>9
<1>3. CASE SerializeStorage
  <2>1. serialized' = SerializedStorage(storage)
    BY <1>3 DEF SerializeStorage, SerializedStorage
  <2>2. storage' = storage /\ lastSet' = lastSet /\ sets' = sets
    BY <1>3 DEF SerializeStorage
  <2> QED
    BY <2>1, <2>2 DEF StorageInv, GoodStorage, GetState, SerializedStorage
<1> QED
  BY <1>1, <1>2, <1>3 DEF StorageNext

\* What is sent of a storage is what was set.
LEMMA StorageInvReads == StorageInv => StorageFaithful
<1> SUFFICES ASSUME StorageInv PROVE StorageFaithful
  OBVIOUS
<1> USE StatesAssumption
<1> DEFINE n == Len(storage.palette)
           bits == BitsPerBlock(n)
<1>1. n \in Nat \ {0} /\ n <= BitValue[16]
  <2>1. n \in Nat \ {0}
    BY SizeOfPalette DEF StorageInv
  <2>2. sets \in 0 .. MaxSets /\ n + MaxSets - sets <= BitValue[16]
    BY DEF StorageInv
  <2>3. BitValue[16] \in Nat
    BY BitValueGrows
  <2> HIDE DEF n
  <2> QED
    BY <2>1, <2>2, <2>3
<1>2. bits \in Widths /\ n <= BitValue[bits] /\ BitValue[bits] \in Nat
  <2> HIDE DEF n
  <2>1. bits \in Widths /\ n <= BitValue[bits]
    BY <1>1, WidthFits
  <2> HIDE DEF bits
  <2>2. bits \in 0 .. 16
    BY <2>1 DEF Widths
  <2> QED
    BY <2>1, <2>2, BitValueGrows
<1>3. storage.blocks \in [Cell -> Nat] /\ \A c \in Cell : storage.blocks[c] < BitValue[bits]
  BY <1>1, <1>2 DEF StorageInv, GoodStorage
<1> HIDE DEF bits
<1>4. Unpack(Pack(storage.blocks, bits), bits) = storage.blocks
  BY <1>2, <1>3, UnpackPack
<1>5. ReadBack
  <2> SUFFICES ASSUME serialized # NotSerialized, NEW c \in Cell
               PROVE  serialized.palette[Unpack(serialized.words, serialized.bits)[c] + 1]
                        = lastSet[c]
    BY DEF ReadBack
  <2>1. /\ serialized.bits = bits /\ serialized.words = Pack(storage.blocks, bits)
        /\ serialized.palette = storage.palette
    BY DEF StorageInv, SerializedStorage, bits
  <2>2. GetState(storage, c) = lastSet[c]
    BY DEF StorageInv
  <2> QED
    BY <1>4, <2>1, <2>2 DEF GetState
<1>6. PaletteOfDistinct
  BY DEF PaletteOfDistinct, StorageInv, GoodStorage
<1> QED
  BY <1>5, <1>6 DEF StorageFaithful

\* A subchunk's storage is sent as it was set, for every number of blocks and every
\* size of its palette, through all the widths of an index.
THEOREM StorageAlwaysFaithful == StorageSpec => []StorageFaithful
  BY InitStorage, StepStorage, StorageInvReads, PTL DEF StorageSpec

-----------------------------------------------------------------------------
(* Recursion over a number.                                                *)

\* What holds of 0 and goes from each number to the next holds up to N.
LEMMA UpTo ==
  ASSUME NEW N \in Nat, NEW S, 0 \in S, \A n \in 1 .. N : n - 1 \in S => n \in S
  PROVE  0 .. N \subseteq S
<1> DEFINE Missed == {n \in 0 .. N : n \notin S}
<1> SUFFICES ASSUME Missed # {} PROVE FALSE
  OBVIOUS
<1>1. PICK x \in Missed : \A y \in Missed : x <= y
  <2>1. Missed \subseteq Nat
    OBVIOUS
  <2> HIDE DEF Missed
  <2> QED
    BY <2>1, SmallestOf
<1>2. x \in 1 .. N /\ x - 1 \in 0 .. N
  OBVIOUS
<1>3. x - 1 \in S
  BY <1>1, <1>2
<1> QED
  BY <1>2, <1>3

\* f and g are the same up to N.
Agree(N, f, g) == \A n \in 0 .. N : f[n] = g[n]

\* Functions that begin alike and go on alike are alike.
LEMMA StepwiseEqual ==
  ASSUME NEW N \in Nat, NEW f, NEW g,
         f[0] = g[0], \A n \in 1 .. N : f[n - 1] = g[n - 1] => f[n] = g[n]
  PROVE  Agree(N, f, g)
<1> DEFINE S == {n \in 0 .. N : f[n] = g[n]}
<1>1. 0 \in S /\ \A n \in 1 .. N : n - 1 \in S => n \in S
  OBVIOUS
<1>2. 0 .. N \subseteq S
  <2> HIDE DEF S
  <2> QED
    BY <1>1, UpTo
<1> QED
  BY <1>2 DEF Agree

\* f has the values of a step taken N times from a first value x.
Iterates(N, X, x, step, f) ==
    /\ f \in [0 .. N -> X] /\ f[0] = x
    /\ \A n \in 1 .. N : f[n] = step[n][f[n - 1]]

\* A step that stays in a set can be taken.
LEMMA IterationExists ==
  ASSUME NEW N \in Nat, NEW X, NEW x \in X, NEW step,
         \A n \in 1 .. N : \A v \in X : step[n][v] \in X
  PROVE  \E f : Iterates(N, X, x, step, f)
<1> DEFINE Runs(m, f) == f \in [0 .. m -> X] /\ f[0] = x
                           /\ \A n \in 1 .. m : f[n] = step[n][f[n - 1]]
           S == {m \in 0 .. N : \E f : Runs(m, f)}
<1>1. 0 \in S
  <2>1. Runs(0, [n \in 0 .. 0 |-> x])
    OBVIOUS
  <2> HIDE DEF Runs
  <2> QED
    BY <2>1
<1>2. ASSUME NEW m \in 1 .. N, m - 1 \in S PROVE m \in S
  <2>1. PICK f : Runs(m - 1, f)
    <3> HIDE DEF Runs
    <3> QED
      BY <1>2
  <2> DEFINE g == [n \in 0 .. m |-> IF n < m THEN f[n] ELSE step[m][f[m - 1]]]
  <2>2. f[m - 1] \in X
    BY <2>1
  <2>3. step[m][f[m - 1]] \in X
    BY <2>2
  <2>4. \A n \in 0 .. m - 1 : f[n] \in X
    BY <2>1
  <2>5. g \in [0 .. m -> X] /\ g[0] = x
    BY <2>1, <2>3, <2>4
  <2>6. ASSUME NEW n \in 1 .. m PROVE g[n] = step[n][g[n - 1]]
    <3>1. n - 1 \in 0 .. m /\ n - 1 < m /\ n \in 0 .. m
      OBVIOUS
    <3>2. g[n - 1] = f[n - 1]
      BY <3>1
    <3>3. CASE n < m
      <4>1. g[n] = f[n] /\ n \in 1 .. m - 1
        BY <3>1, <3>3
      <4> QED
        BY <2>1, <3>2, <4>1
    <3>4. CASE n = m
      <4>1. g[n] = step[m][f[m - 1]]
        BY <3>1, <3>4
      <4> QED
        BY <3>2, <3>4, <4>1
    <3> QED
      BY <3>3, <3>4
  <2>7. Runs(m, g)
    <3> HIDE DEF g
    <3> QED
      BY <2>5, <2>6
  <2> HIDE DEF Runs, g
  <2> QED
    BY <2>7
<1>3. 0 .. N \subseteq S
  <2> HIDE DEF S
  <2> QED
    BY <1>1, <1>2, UpTo
<1>4. PICK f : Runs(N, f)
  <2> HIDE DEF Runs
  <2> QED
    BY <1>3
<1> QED
  BY <1>4 DEF Iterates

-----------------------------------------------------------------------------
(* Sequences one after the other.                                          *)

\* What is appended to all but the last of a sequence makes the sequence.
LEMMA AppendNext ==
  ASSUME NEW N \in Nat, NEW f, DOMAIN f = 1 .. N, NEW n \in 1 .. N
  PROVE  Append([i \in 1 .. n - 1 |-> f[i]], f[n]) = [i \in 1 .. n |-> f[i]]
<1> DEFINE S == {f[i] : i \in 1 .. N}
           s == [i \in 1 .. n - 1 |-> f[i]]
           t == [i \in 1 .. n |-> f[i]]
<1>1. s \in Seq(S) /\ Len(s) = n - 1 /\ f[n] \in S
  OBVIOUS
<1>2. t \in Seq(S) /\ Len(t) = n
  OBVIOUS
<1>3. /\ Append(s, f[n]) \in Seq(S) /\ Len(Append(s, f[n])) = n
      /\ \A i \in 1 .. n : Append(s, f[n])[i] = f[i]
  BY <1>1
<1> HIDE DEF S
<1>4. \A i \in 1 .. n : t[i] = f[i]
  OBVIOUS
<1> HIDE DEF t, s
<1> QED
  BY <1>2, <1>3, <1>4, SeqEqual

\* u is s followed by t.
Follows(S, s, t, u) ==
    /\ u = s \o t /\ u \in Seq(S) /\ Len(u) = Len(s) + Len(t)
    /\ Len(s) \in Nat /\ Len(t) \in Nat
    /\ \A i \in 1 .. Len(s) : u[i] = s[i]
    /\ \A i \in 1 .. Len(t) : u[Len(s) + i] = t[i]

\* Of two sequences the elements of the first come first.
LEMMA OfTwo ==
  ASSUME NEW S, NEW s \in Seq(S), NEW t \in Seq(S)
  PROVE  Follows(S, s, t, s \o t)
<1>1. /\ s \o t \in Seq(S) /\ Len(s \o t) = Len(s) + Len(t)
      /\ \A i \in 1 .. Len(s) + Len(t) :
           (s \o t)[i] = IF i <= Len(s) THEN s[i] ELSE t[i - Len(s)]
  BY ConcatProperties
<1>2. Len(s) \in Nat /\ Len(t) \in Nat
  OBVIOUS
<1>3. ASSUME NEW i \in 1 .. Len(s) PROVE (s \o t)[i] = s[i]
  <2>1. i \in 1 .. Len(s) + Len(t) /\ i <= Len(s)
    BY <1>2
  <2> QED
    BY <1>1, <2>1
<1>4. ASSUME NEW i \in 1 .. Len(t) PROVE (s \o t)[Len(s) + i] = t[i]
  <2>1. Len(s) + i \in 1 .. Len(s) + Len(t) /\ ~ (Len(s) + i <= Len(s)) /\ Len(s) + i - Len(s) = i
    BY <1>2
  <2>2. (s \o t)[Len(s) + i] = IF Len(s) + i <= Len(s) THEN s[Len(s) + i] ELSE t[Len(s) + i - Len(s)]
    BY <1>1, <2>1
  <2> QED
    BY ONLY <2>1, <2>2
<1> QED
  BY <1>1, <1>2, <1>3, <1>4 DEF Follows

\* d is a followed by b and by e.
FollowBoth(S, a, b, e, d) ==
    /\ d \in Seq(S) /\ Len(d) = Len(a) + Len(b) + Len(e)
    /\ Len(a) \in Nat /\ Len(b) \in Nat /\ Len(e) \in Nat
    /\ \A i \in 1 .. Len(a) : d[i] = a[i]
    /\ \A i \in 1 .. Len(b) : d[Len(a) + i] = b[i]
    /\ \A i \in 1 .. Len(e) : d[Len(a) + Len(b) + i] = e[i]

\* And so it is of three sequences.
LEMMA OfThree ==
  ASSUME NEW S, NEW a \in Seq(S), NEW b \in Seq(S), NEW e \in Seq(S), NEW d, d = (a \o b) \o e
  PROVE  FollowBoth(S, a, b, e, d)
<1>1. PICK c : c = a \o b
  OBVIOUS
<1>2. Follows(S, a, b, c)
  BY <1>1, OfTwo, Zenon
<1>3. c \in Seq(S) /\ d = c \o e
  BY <1>1, <1>2 DEF Follows
<1>4. Follows(S, c, e, d)
  BY <1>3, OfTwo, Zenon
<1>5. \A i \in 1 .. Len(a) : i \in 1 .. Len(c)
  BY <1>2 DEF Follows
<1>6. \A i \in 1 .. Len(b) : Len(a) + i \in 1 .. Len(c)
  BY <1>2 DEF Follows
<1> QED
  BY ONLY <1>2, <1>4, <1>5, <1>6 DEF Follows, FollowBoth

\* f is a function on the numbers from 1 on.
Numbered(f, n) == f = [i \in 1 .. n |-> f[i]]

\* Such a function is a sequence.
LEMMA FunctionSeq ==
  ASSUME NEW S, NEW n \in Nat, NEW f, Numbered(f, n), \A i \in 1 .. n : f[i] \in S
  PROVE  f \in Seq(S) /\ Len(f) = n
<1>1. f \in [1 .. n -> S]
  BY DEF Numbered
<1> QED
  BY <1>1

\* What is behind the first of two sequences.
LEMMA RestOfTwo ==
  ASSUME NEW S, NEW s \in Seq(S), NEW t \in Seq(S)
  PROVE  SubSeq(s \o t, Len(s) + 1, Len(s \o t)) = t
<1>1. /\ s \o t \in Seq(S) /\ Len(s \o t) = Len(s) + Len(t)
      /\ Len(s) \in Nat /\ Len(t) \in Nat
      /\ \A i \in 1 .. Len(t) : (s \o t)[Len(s) + i] = t[i]
  BY ConcatProperties
<1> DEFINE u == SubSeq(s \o t, Len(s) + 1, Len(s \o t))
<1>2. \A i \in Len(s) + 1 .. Len(s \o t) : (s \o t)[i] \in S
  BY <1>1
<1>3. u \in Seq(S) /\ Len(u) = Len(t) /\ \A i \in 1 .. Len(t) : u[i] = t[i]
  <2>1. /\ u \in Seq(S)
        /\ Len(u) = IF Len(s) + 1 <= Len(s \o t) THEN Len(s \o t) - (Len(s) + 1) + 1 ELSE 0
        /\ \A i \in 1 .. Len(s \o t) - (Len(s) + 1) + 1 : u[i] = (s \o t)[Len(s) + 1 + i - 1]
    <3>1. Len(s) + 1 \in Int /\ Len(s \o t) \in Int
      BY <1>1
    <3> QED
      BY <1>2, <3>1, SubSeqProperties
  <2> HIDE DEF u
  <2>2. Len(u) = Len(t)
    BY <1>1, <2>1
  <2>3. ASSUME NEW i \in 1 .. Len(t) PROVE u[i] = t[i]
    <3>1. i \in 1 .. Len(s \o t) - (Len(s) + 1) + 1 /\ Len(s) + 1 + i - 1 = Len(s) + i
      BY <1>1
    <3> QED
      BY <1>1, <2>1, <3>1
  <2> QED
    BY <2>1, <2>2, <2>3
<1> HIDE DEF u
<1> QED
  BY <1>1, <1>3, SeqEqual DEF u

\* Concat's parts from the i-th on.
From(parts) ==
    CHOOSE from : from = [i \in 1 .. Len(parts) + 1 |->
                            IF i > Len(parts) THEN <<>> ELSE parts[i] \o from[i + 1]]

\* They are the i-th and the parts from the next one on.
LEMMA ConcatIs ==
  ASSUME NEW S, NEW N \in Nat, NEW parts \in [1 .. N -> Seq(S)]
  PROVE  /\ Concat(parts) = From(parts)[1]
         /\ From(parts)[N + 1] = <<>>
         /\ \A i \in 1 .. N : From(parts)[i] = parts[i] \o From(parts)[i + 1]
         /\ \A i \in 1 .. N + 1 : From(parts)[i] \in Seq(S)
<1> DEFINE Solves(f) == f = [i \in 1 .. N + 1 |->
                               IF i > N THEN <<>> ELSE parts[i] \o f[i + 1]]
<1>1. Len(parts) = N
  OBVIOUS
<1>2. From(parts) = CHOOSE f : Solves(f)
  BY <1>1 DEF From
<1>3. Concat(parts) = From(parts)[1]
  BY DEF Concat, From
<1>4. \E f : Solves(f) /\ \A i \in 1 .. N + 1 : f[i] \in Seq(S)
  <2> DEFINE step == [n \in 1 .. N |-> [v \in Seq(S) |-> parts[N + 1 - n] \o v]]
  <2>1. ASSUME NEW n \in 1 .. N, NEW v \in Seq(S)
        PROVE  step[n][v] = parts[N + 1 - n] \o v /\ step[n][v] \in Seq(S)
    <3>1. parts[N + 1 - n] \in Seq(S) /\ step[n][v] = parts[N + 1 - n] \o v
      OBVIOUS
    <3> QED
      BY <3>1, ConcatProperties
  <2>2. <<>> \in Seq(S)
    OBVIOUS
  <2>3. PICK g : Iterates(N, Seq(S), <<>>, step, g)
    <3> HIDE DEF step
    <3> QED
      BY <2>1, <2>2, IterationExists
  <2>4. /\ g \in [0 .. N -> Seq(S)] /\ g[0] = <<>>
        /\ \A n \in 1 .. N : g[n] = parts[N + 1 - n] \o g[n - 1]
    <3> HIDE DEF step
    <3>1. /\ g \in [0 .. N -> Seq(S)] /\ g[0] = <<>>
          /\ \A n \in 1 .. N : g[n] = step[n][g[n - 1]]
      BY <2>3 DEF Iterates
    <3>2. \A n \in 1 .. N : g[n - 1] \in Seq(S)
      BY <3>1
    <3> QED
      BY <2>1, <3>1, <3>2
  <2> DEFINE f == [i \in 1 .. N + 1 |-> g[N + 1 - i]]
  <2>5. \A i \in 1 .. N + 1 : f[i] \in Seq(S)
    BY <2>4
  <2>6. ASSUME NEW i \in 1 .. N + 1
        PROVE  f[i] = IF i > N THEN <<>> ELSE parts[i] \o f[i + 1]
    <3>1. CASE i > N
      <4>1. N + 1 - i = 0
        BY <3>1
      <4> QED
        BY <2>4, <3>1, <4>1
    <3>2. CASE ~ (i > N)
      <4>1. N + 1 - i \in 1 .. N /\ N + 1 - (N + 1 - i) = i /\ N + 1 - i - 1 = N + 1 - (i + 1)
            /\ i + 1 \in 1 .. N + 1 /\ ~ (i > N)
        BY <3>2
      <4>2. f[i] = g[N + 1 - i] /\ f[i + 1] = g[N + 1 - (i + 1)]
        BY <4>1
      <4>3. g[N + 1 - i] = parts[i] \o g[N + 1 - (i + 1)]
        <5>1. PICK n \in 1 .. N : n = N + 1 - i
          BY <4>1
        <5>2. N + 1 - n = i /\ n - 1 = N + 1 - (i + 1)
          BY <4>1, <5>1
        <5>3. g[n] = parts[N + 1 - n] \o g[n - 1]
          BY <2>4
        <5> HIDE DEF f
        <5> QED
          BY ONLY <5>1, <5>2, <5>3
      <4> HIDE DEF f
      <4> QED
        BY <3>2, <4>2, <4>3, Zenon
    <3>3. (i > N) \/ ~ (i > N)
      OBVIOUS
    <3> QED
      BY <3>3, <3>1, <3>2, Zenon
  <2>7. Solves(f)
    <3> HIDE DEF f
    <3>1. f = [i \in 1 .. N + 1 |-> f[i]]
      BY DEF f
    <3> QED
      BY <2>6, <3>1
  <2> HIDE DEF f
  <2> QED
    BY <2>5, <2>7
<1>5. PICK f : Solves(f) /\ \A i \in 1 .. N + 1 : f[i] \in Seq(S)
  BY <1>4
<1>6. Solves(From(parts))
  <2> HIDE DEF Solves
  <2> QED
    BY <1>2, <1>5
<1>7. /\ From(parts)[N + 1] = <<>>
      /\ \A i \in 1 .. N : From(parts)[i] = parts[i] \o From(parts)[i + 1]
  <2> DEFINE h == From(parts)
  <2>1. h = [i \in 1 .. N + 1 |-> IF i > N THEN <<>> ELSE parts[i] \o h[i + 1]]
    BY <1>6
  <2> HIDE DEF h
  <2>2. \A i \in 1 .. N + 1 : h[i] = IF i > N THEN <<>> ELSE parts[i] \o h[i + 1]
    BY ONLY <2>1
  <2>3. N + 1 \in 1 .. N + 1 /\ N + 1 > N /\ \A i \in 1 .. N : i \in 1 .. N + 1 /\ ~ (i > N)
    OBVIOUS
  <2>4. h[N + 1] = <<>> /\ \A i \in 1 .. N : h[i] = parts[i] \o h[i + 1]
    BY ONLY <2>2, <2>3
  <2> QED
    BY <2>4 DEF h
<1> HIDE DEF Solves
<1>8. \A i \in 1 .. N + 1 : From(parts)[i] \in Seq(S)
  <2> DEFINE T == {n \in 0 .. N : From(parts)[N + 1 - n] \in Seq(S)}
  <2> HIDE DEF From
  <2>1. 0 \in T
    <3>1. N + 1 - 0 = N + 1 /\ <<>> \in Seq(S) /\ 0 \in 0 .. N
      OBVIOUS
    <3> QED
      BY <1>7, <3>1
  <2>2. ASSUME NEW n \in 1 .. N, n - 1 \in T PROVE n \in T
    <3>1. N + 1 - n \in 1 .. N /\ N + 1 - n + 1 = N + 1 - (n - 1)
      OBVIOUS
    <3>2. From(parts)[N + 1 - n] = parts[N + 1 - n] \o From(parts)[N + 1 - (n - 1)]
      BY <1>7, <3>1
    <3>3. From(parts)[N + 1 - (n - 1)] \in Seq(S) /\ parts[N + 1 - n] \in Seq(S)
      BY <2>2, <3>1
    <3>4. parts[N + 1 - n] \o From(parts)[N + 1 - (n - 1)] \in Seq(S)
      BY <3>3, ConcatProperties
    <3>5. From(parts)[N + 1 - n] \in Seq(S)
      BY <3>2, <3>4, Zenon
    <3>6. n \in 0 .. N
      OBVIOUS
    <3> QED
      BY <3>5, <3>6, Zenon
  <2>3. 0 .. N \subseteq T
    <3> HIDE DEF T
    <3> QED
      BY <2>1, <2>2, UpTo
  <2>4. ASSUME NEW i \in 1 .. N + 1 PROVE From(parts)[i] \in Seq(S)
    <3>1. N + 1 - i \in 0 .. N /\ N + 1 - (N + 1 - i) = i
      OBVIOUS
    <3> QED
      BY <2>3, <3>1
  <2> QED
    BY <2>4
<1> QED
  BY <1>3, <1>7, <1>8

-----------------------------------------------------------------------------
(* A storage as it is on disk.                                             *)

\* The states a storage may have.
States == {Unset} \cup {Hash(block) : block \in Blocks}

\* What is read and written.
Kinds == {"bits", "words", "size", "block", "state", "version", "count", "height", "biome", "borders"}

Data ==
    [kind : Kinds,
     v : Nat \cup Blocks \cup States \cup {Pack(blocks, bits) : blocks \in [Cell -> Nat], bits \in Widths}]

\* A storage as readChunk has it.
Decoded(s) == [blocks |-> s.blocks, states |-> [i \in 1 .. Len(s.palette) |-> Hash(s.palette[i])]]

\* What is known of a storage on disk.
LEMMA DiskStorage ==
  ASSUME NEW s \in DiskStorages
  PROVE  /\ s.bits = 0 \/ s.bits \in Widths
         /\ s.palette \in Seq(Blocks) /\ Len(s.palette) \in Nat /\ DOMAIN s.palette = 1 .. Len(s.palette)
         /\ s.blocks \in [Cell -> Nat]
         /\ \A c \in Cell : s.blocks[c] < Len(s.palette) /\ s.blocks[c] < BitValue[s.bits]
         /\ s.bits = 0 => Len(s.palette) = 1
  BY DEF DiskStorages

\* A datum of each kind.
LEMMA DatumType ==
  ASSUME NEW kind \in Kinds
  PROVE  /\ \A v \in Nat : Datum(kind, v) \in Data
         /\ \A v \in Blocks : Datum(kind, v) \in Data
         /\ \A v \in States : Datum(kind, v) \in Data
         /\ \A blocks \in [Cell -> Nat], bits \in Widths : Datum(kind, Pack(blocks, bits)) \in Data
         /\ \A v : Datum(kind, v).v = v /\ Datum(kind, v).kind = kind
  BY DEF Datum, Data

\* The data of a storage of one state, and of another storage.
UniformData(s, d) ==
    /\ s.bits = 0 /\ Len(s.palette) = 1
    /\ Len(d) = 2 /\ d[1] = Datum("bits", 0) /\ d[2] = Datum("block", s.palette[1])

MixedData(s, d) ==
    /\ s.bits \in Widths
    /\ Len(d) = 3 + Len(s.palette)
    /\ d[1] = Datum("bits", s.bits * 2) /\ d[2] = Datum("words", Pack(s.blocks, s.bits))
    /\ d[3] = Datum("size", Len(s.palette))
    /\ \A i \in 1 .. Len(s.palette) : d[3 + i] = Datum("block", s.palette[i])

\* Each storage is one of them.
LEMMA StorageDataIs ==
  ASSUME NEW s \in DiskStorages, NEW d, d = StorageData(s)
  PROVE  d \in Seq(Data) /\ (UniformData(s, d) \/ MixedData(s, d))
<1> DEFINE a == <<Datum("bits", s.bits * 2)>>
           b == IF s.bits = 0 THEN <<>>
                ELSE <<Datum("words", Pack(s.blocks, s.bits)), Datum("size", Len(s.palette))>>
           e == [i \in DOMAIN s.palette |-> Datum("block", s.palette[i])]
<1>1. d = (a \o b) \o e
  BY DEF StorageData
<1>2. a \in Seq(Data) /\ Len(a) = 1 /\ a[1] = Datum("bits", s.bits * 2)
  <2>1. s.bits * 2 \in Nat
    BY DiskStorage DEF Widths
  <2>2. Datum("bits", s.bits * 2) \in Data
    BY <2>1, DatumType DEF Kinds
  <2> QED
    BY <2>2
<1>3. b \in Seq(Data)
      /\ \/ s.bits = 0 /\ Len(b) = 0
         \/ /\ s.bits # 0 /\ Len(b) = 2 /\ b[1] = Datum("words", Pack(s.blocks, s.bits))
            /\ b[2] = Datum("size", Len(s.palette))
  <2>1. CASE s.bits = 0
    <3>1. b = <<>>
      BY <2>1
    <3> QED
      BY <2>1, <3>1, EmptySeq
  <2>2. CASE s.bits # 0
    <3>1. b = <<Datum("words", Pack(s.blocks, s.bits)), Datum("size", Len(s.palette))>>
      BY <2>2
    <3>2. Datum("words", Pack(s.blocks, s.bits)) \in Data /\ Datum("size", Len(s.palette)) \in Data
      BY <2>2, DiskStorage, DatumType DEF Kinds
    <3> QED
      BY <2>2, <3>1, <3>2
  <2> QED
    BY <2>1, <2>2
<1>4. e \in Seq(Data) /\ Len(e) = Len(s.palette) /\ Len(s.palette) \in Nat
      /\ \A i \in 1 .. Len(s.palette) : e[i] = Datum("block", s.palette[i])
  <2>1. \A i \in 1 .. Len(s.palette) : Datum("block", s.palette[i]) \in Data
    BY DiskStorage, DatumType DEF Kinds
  <2>2. Len(s.palette) \in Nat /\ DOMAIN s.palette = 1 .. Len(s.palette)
    BY DiskStorage
  <2>3. Numbered(e, Len(s.palette))
        /\ \A i \in 1 .. Len(s.palette) : e[i] = Datum("block", s.palette[i])
    BY <2>2 DEF Numbered
  <2> HIDE DEF e
  <2>4. \A i \in 1 .. Len(s.palette) : e[i] \in Data
    BY <2>1, <2>3
  <2>5. e \in Seq(Data) /\ Len(e) = Len(s.palette)
    BY <2>2, <2>3, <2>4, FunctionSeq, Zenon
  <2> QED
    BY <2>2, <2>3, <2>5, Zenon
<1> HIDE DEF a, b, e
<1>5. FollowBoth(Data, a, b, e, d)
  BY <1>1, <1>2, <1>3, <1>4, OfThree, Zenon
<1>6. d[1] = Datum("bits", s.bits * 2)
  BY <1>2, <1>5 DEF FollowBoth
<1>7. CASE s.bits = 0
  <2>1. Len(b) = 0 /\ Len(a) = 1 /\ Len(e) = 1 /\ Len(s.palette) = 1
    BY <1>2, <1>3, <1>4, <1>7, DiskStorage
  <2>2. Len(d) = 2 /\ d[2] = e[1]
    BY <1>5, <2>1 DEF FollowBoth
  <2>3. e[1] = Datum("block", s.palette[1]) /\ s.bits * 2 = 0
    BY <1>4, <1>7, <2>1
  <2> QED
    BY <1>5, <1>6, <1>7, <2>1, <2>2, <2>3 DEF FollowBoth, UniformData
<1>8. CASE s.bits # 0
  <2>1. Len(b) = 2 /\ Len(a) = 1 /\ b[1] = Datum("words", Pack(s.blocks, s.bits))
        /\ b[2] = Datum("size", Len(s.palette)) /\ s.bits \in Widths
    BY <1>2, <1>3, <1>8, DiskStorage
  <2>2. /\ Len(d) = 3 + Len(e) /\ d[2] = b[1] /\ d[3] = b[2]
        /\ \A i \in 1 .. Len(e) : d[3 + i] = e[i]
    <3>1. /\ Len(d) = 1 + 2 + Len(e) /\ d[1 + 1] = b[1] /\ d[1 + 2] = b[2]
          /\ \A i \in 1 .. Len(e) : d[1 + 2 + i] = e[i]
          /\ Len(e) \in Nat
      BY <1>5, <2>1 DEF FollowBoth
    <3> QED
      BY ONLY <3>1
  <2> QED
    BY <1>4, <1>5, <1>6, <2>1, <2>2 DEF FollowBoth, MixedData
<1> QED
  BY <1>7, <1>8

\* readChunk takes a storage off the front of what is left, as it was saved.
LEMMA ReadStorageReads ==
  ASSUME NEW s \in DiskStorages, NEW rest \in Seq(Data), NEW done
  PROVE  ReadStorage([rest |-> StorageData(s) \o rest, storages |-> done])
           = [rest |-> rest, storages |-> Append(done, Decoded(s))]
<1>1. PICK d, all : d = StorageData(s) /\ all = d \o rest
  OBVIOUS
<1> DEFINE p == [rest |-> all, storages |-> done]
           n == Len(s.palette)
<1>2. d \in Seq(Data) /\ (UniformData(s, d) \/ MixedData(s, d))
  BY <1>1, StorageDataIs
<1>3. Follows(Data, d, rest, all)
  BY <1>1, <1>2, OfTwo, Zenon
<1>4. SubSeq(all, Len(d) + 1, Len(all)) = rest
  BY <1>1, <1>2, RestOfTwo, Zenon
<1>5. n \in Nat /\ s.blocks \in [Cell -> Nat] /\ \A c \in Cell : s.blocks[c] < BitValue[s.bits]
  BY DiskStorage
<1>6. ReadStorage(p) = [rest |-> rest, storages |-> Append(done, Decoded(s))]
  <2>1. CASE UniformData(s, d)
    <3>1. s.bits = 0 /\ n = 1 /\ Len(d) = 2 /\ d[1] = Datum("bits", 0) /\ d[2] = Datum("block", s.palette[1])
      BY <2>1 DEF UniformData
    <3>2. all[1] = d[1] /\ all[2] = d[2] /\ Len(all) \in Nat /\ Len(all) >= 2 /\ all \in Seq(Data)
      BY <1>3, <3>1 DEF Follows
    <3>3. Head(all).v = 0 /\ all[2].v = s.palette[1]
      <4>1. Head(all) = all[1]
        BY <3>2
      <4> QED
        BY <3>1, <3>2, <4>1, DatumType DEF Kinds
    <3>4. Unpack(<<>>, 0) = s.blocks
      <4>1. \A c \in Cell : s.blocks[c] = 0
        <5>1. BitValue[s.bits] = 1
          BY <3>1, BitValuesKnown
        <5>2. ASSUME NEW c \in Cell PROVE s.blocks[c] \in Nat /\ s.blocks[c] < 1
          BY <1>5, <5>1
        <5> QED
          BY <5>2
      <4> QED
        BY <1>5, <4>1 DEF Unpack
    <3>5. ReadStorage(p) =
            [rest |-> SubSeq(all, 2 + 1, Len(all)),
             storages |-> Append(done, [blocks |-> Unpack(<<>>, 0),
                                        states |-> [i \in 1 .. 1 |-> Hash(all[2 + i - 1].v)]])]
      <4>1. Head(all).v \div 2 = 0
        BY <3>3
      <4> QED
        BY <4>1 DEF ReadStorage
    <3>6. [i \in 1 .. 1 |-> Hash(all[2 + i - 1].v)] = [i \in 1 .. n |-> Hash(s.palette[i])]
      BY <3>1, <3>3
    <3> QED
      BY <1>4, <3>1, <3>4, <3>5, <3>6 DEF Decoded
  <2>2. CASE MixedData(s, d)
    <3>1. /\ s.bits \in Widths /\ Len(d) = 3 + n
          /\ d[1] = Datum("bits", s.bits * 2) /\ d[2] = Datum("words", Pack(s.blocks, s.bits))
          /\ d[3] = Datum("size", n)
          /\ \A i \in 1 .. n : d[3 + i] = Datum("block", s.palette[i])
      BY <2>2 DEF MixedData
    <3> HIDE DEF n
    <3>2. /\ all[1] = d[1] /\ all[2] = d[2] /\ all[3] = d[3] /\ all \in Seq(Data)
          /\ Len(all) \in Nat /\ Len(all) >= 3
          /\ \A i \in 1 .. n : all[3 + i] = d[3 + i]
      BY <1>3, <1>5, <3>1 DEF Follows
    <3>3. /\ Head(all).v = s.bits * 2 /\ all[2].v = Pack(s.blocks, s.bits) /\ all[3].v = n
          /\ \A i \in 1 .. n : all[3 + i].v = s.palette[i]
      <4>1. Head(all) = all[1]
        BY <3>2
      <4> QED
        BY <3>1, <3>2, <4>1, DatumType DEF Kinds
    <3>4. Unpack(Pack(s.blocks, s.bits), s.bits) = s.blocks
      BY <1>5, <3>1, UnpackPack, CellsAssumption
    <3>5. s.bits \in Nat /\ s.bits # 0 /\ (s.bits * 2) \div 2 = s.bits
      BY <3>1 DEF Widths
    <3>6. ReadStorage(p) =
            [rest |-> SubSeq(all, 4 + n, Len(all)),
             storages |-> Append(done, [blocks |-> Unpack(Pack(s.blocks, s.bits), s.bits),
                                        states |-> [i \in 1 .. n |-> Hash(all[4 + i - 1].v)]])]
      BY <3>3, <3>5 DEF ReadStorage
    <3>7. [i \in 1 .. n |-> Hash(all[4 + i - 1].v)] = [i \in 1 .. n |-> Hash(s.palette[i])]
      <4>1. \A i \in 1 .. n : 4 + i - 1 = 3 + i
        BY <1>5
      <4> QED
        BY <3>3, <4>1
    <3>8. Len(d) + 1 = 4 + n
      BY <1>5, <3>1
    <3> QED
      BY <1>4, <3>4, <3>6, <3>7, <3>8 DEF Decoded, n
  <2> QED
    BY <1>2, <2>1, <2>2
<1> QED
  BY <1>1, <1>6

-----------------------------------------------------------------------------
(* A subchunk as it is on disk.                                            *)

\* What may be on disk for a subchunk.
DiskSubChunks == [version : Nat, storages : Seq(DiskStorages)]

\* A function of no numbers is the empty sequence.
LEMMA NoNumbers == ASSUME NEW f PROVE [i \in 1 .. 0 |-> f[i]] = <<>>
  OBVIOUS

\* How many data are before the storages, and what they say.
LEMMA SubChunkHeader ==
  ASSUME NEW stored \in DiskSubChunks, NEW body \in Seq(Data), NEW data,
         body = Concat([i \in DOMAIN stored.storages |-> StorageData(stored.storages[i])]),
         data = SubChunkData(stored)
  PROVE  /\ Head(data).v = stored.version /\ data[2].v = Len(stored.storages)
         /\ SubSeq(data, IF stored.version >= 9 THEN 4 ELSE 3, Len(data)) = body
<1> DEFINE a == <<Datum("version", stored.version), Datum("count", Len(stored.storages))>>
           b == IF stored.version >= 9 THEN <<Datum("height", 0)>> ELSE <<>>
           h == a \o b
<1>1. stored.version \in Nat /\ Len(stored.storages) \in Nat
  BY DEF DiskSubChunks
<1>2. data = h \o body
  BY DEF SubChunkData
<1>3. a \in Seq(Data) /\ Len(a) = 2
      /\ a[1] = Datum("version", stored.version) /\ a[2] = Datum("count", Len(stored.storages))
  <2>1. Datum("version", stored.version) \in Data /\ Datum("count", Len(stored.storages)) \in Data
    BY <1>1, DatumType DEF Kinds
  <2> QED
    BY <2>1
<1>4. b \in Seq(Data) /\ Len(b) = IF stored.version >= 9 THEN 1 ELSE 0
  <2>1. CASE stored.version >= 9
    <3>1. b = <<Datum("height", 0)>> /\ Datum("height", 0) \in Data
      BY <2>1, DatumType DEF Kinds
    <3> QED
      BY <2>1, <3>1
  <2>2. CASE ~ (stored.version >= 9)
    <3>1. b = <<>>
      BY <2>2
    <3> QED
      BY <2>2, <3>1, EmptySeq
  <2> QED
    BY <2>1, <2>2
<1> HIDE DEF a, b
<1>5. Follows(Data, a, b, h)
  BY <1>3, <1>4, OfTwo, Zenon
<1>6. h \in Seq(Data) /\ h[1] = a[1] /\ h[2] = a[2] /\ Len(h) = 2 + Len(b) /\ Len(b) \in Nat
  BY <1>3, <1>5 DEF Follows
<1> HIDE DEF h
<1>7. Follows(Data, h, body, data)
  BY <1>2, <1>6, OfTwo, Zenon
<1>8. data[1] = h[1] /\ data[2] = h[2] /\ Head(data) = data[1]
  BY <1>6, <1>7 DEF Follows
<1>9. SubSeq(data, Len(h) + 1, Len(data)) = body
  BY <1>2, <1>6, RestOfTwo, Zenon
<1>10. Len(h) + 1 = IF stored.version >= 9 THEN 4 ELSE 3
  <2>1. CASE stored.version >= 9
    <3>1. Len(b) = 1
      BY <1>4, <2>1, Zenon
    <3> QED
      BY <1>6, <2>1, <3>1
  <2>2. CASE ~ (stored.version >= 9)
    <3>1. Len(b) = 0
      BY <1>4, <2>2, Zenon
    <3> QED
      BY <1>6, <2>2, <3>1
  <2> QED
    BY <2>1, <2>2
<1>11. SubSeq(data, IF stored.version >= 9 THEN 4 ELSE 3, Len(data)) = body
  BY <1>9, <1>10, Zenon
<1>12. Head(data).v = stored.version /\ data[2].v = Len(stored.storages)
  BY <1>3, <1>6, <1>8, DatumType DEF Kinds
<1> QED
  BY <1>11, <1>12

\* A subchunk is read as it is on disk, with its blocks' hashes.
LEMMA ReadSubChunkReads ==
  ASSUME NEW stored \in DiskSubChunks
  PROVE  ReadSubChunk(SubChunkData(stored))
           = [i \in 1 .. Len(stored.storages) |-> Decoded(stored.storages[i])]
<1>1. PICK N, data, parts, f :
        /\ N = Len(stored.storages) /\ data = SubChunkData(stored)
        /\ parts = [i \in DOMAIN stored.storages |-> StorageData(stored.storages[i])]
        /\ f = [i \in 1 .. N |-> Decoded(stored.storages[i])]
  OBVIOUS
<1>2. /\ N \in Nat /\ DOMAIN stored.storages = 1 .. N
      /\ \A i \in 1 .. N : stored.storages[i] \in DiskStorages
  BY <1>1 DEF DiskSubChunks
<1>3. \A i \in 1 .. N : StorageData(stored.storages[i]) \in Seq(Data)
  BY <1>2, StorageDataIs
<1>4. parts \in [1 .. N -> Seq(Data)]
      /\ \A i \in 1 .. N : parts[i] = StorageData(stored.storages[i])
  BY <1>1, <1>2, <1>3
<1>5. /\ Concat(parts) = From(parts)[1]
      /\ \A i \in 1 .. N : From(parts)[i] = parts[i] \o From(parts)[i + 1]
      /\ \A i \in 1 .. N + 1 : From(parts)[i] \in Seq(Data)
  BY <1>2, <1>4, ConcatIs
<1>6. 1 \in 1 .. N + 1
  BY <1>2
<1>7. /\ Head(data).v = stored.version /\ data[2].v = N
      /\ SubSeq(data, IF stored.version >= 9 THEN 4 ELSE 3, Len(data)) = Concat(parts)
  <2>1. Concat(parts) \in Seq(Data)
    BY <1>5, <1>6
  <2> QED
    BY <1>1, <2>1, SubChunkHeader, Zenon
<1> DEFINE start == [rest |-> Concat(parts), storages |-> <<>>]
           Solves(r) == r = [n \in 0 .. N |-> IF n = 0 THEN start ELSE ReadStorage(r[n - 1])]
           g == [n \in 0 .. N |-> [rest |-> From(parts)[n + 1], storages |-> [i \in 1 .. n |-> f[i]]]]
           after == CHOOSE r : Solves(r)
<1>8. ReadSubChunk(data) = after[N].storages
  BY <1>7 DEF ReadSubChunk
<1>9. g[0] = start
  BY <1>2, <1>5, NoNumbers
<1>10. ASSUME NEW n \in 1 .. N PROVE g[n] = ReadStorage(g[n - 1])
  <2>1. n - 1 \in 0 .. N /\ n \in 0 .. N /\ n - 1 + 1 = n /\ n + 1 \in 1 .. N + 1
    BY <1>2
  <2>2. g[n - 1] = [rest |-> From(parts)[n], storages |-> [i \in 1 .. n - 1 |-> f[i]]]
    BY <2>1
  <2>3. From(parts)[n] = StorageData(stored.storages[n]) \o From(parts)[n + 1]
    BY <1>4, <1>5
  <2>4. ReadStorage(g[n - 1])
          = [rest |-> From(parts)[n + 1],
             storages |-> Append([i \in 1 .. n - 1 |-> f[i]], Decoded(stored.storages[n]))]
    <3>1. PICK s, rest, done : /\ s = stored.storages[n] /\ rest = From(parts)[n + 1]
                               /\ done = [i \in 1 .. n - 1 |-> f[i]]
      OBVIOUS
    <3>2. s \in DiskStorages /\ rest \in Seq(Data)
      BY <1>2, <1>5, <2>1, <3>1
    <3> HIDE DEF g
    <3>3. g[n - 1] = [rest |-> StorageData(s) \o rest, storages |-> done]
      BY <2>2, <2>3, <3>1
    <3>4. ReadStorage(g[n - 1]) = [rest |-> rest, storages |-> Append(done, Decoded(s))]
      BY <3>2, <3>3, ReadStorageReads, Zenon
    <3> QED
      BY <3>1, <3>4
  <2>5. Append([i \in 1 .. n - 1 |-> f[i]], f[n]) = [i \in 1 .. n |-> f[i]]
    <3>1. DOMAIN f = 1 .. N
      BY <1>1
    <3> QED
      BY <1>2, <3>1, AppendNext
  <2>6. f[n] = Decoded(stored.storages[n])
    BY <1>1
  <2>7. g[n] = [rest |-> From(parts)[n + 1], storages |-> [i \in 1 .. n |-> f[i]]]
    BY <2>1
  <2> QED
    BY <2>4, <2>5, <2>6, <2>7
<1>11. Solves(g)
  <2>1. ASSUME NEW n \in 0 .. N PROVE g[n] = IF n = 0 THEN start ELSE ReadStorage(g[n - 1])
    <3> HIDE DEF g
    <3>1. n = 0 \/ n \in 1 .. N
      BY <1>2
    <3> QED
      BY <1>9, <1>10, <3>1
  <2>2. g = [n \in 0 .. N |-> g[n]]
    OBVIOUS
  <2> HIDE DEF g, start
  <2> QED
    BY <2>1, <2>2
<1>12. Solves(after)
  <2> HIDE DEF Solves, g
  <2> QED
    BY <1>11
<1>13. after[N] = g[N]
  <2> HIDE DEF g, start
  <2>1. after = [n \in 0 .. N |-> IF n = 0 THEN start ELSE ReadStorage(after[n - 1])]
    BY <1>12
  <2> HIDE DEF after
  <2>2. after[0] = start /\ \A n \in 1 .. N : after[n] = ReadStorage(after[n - 1])
    <3>1. \A n \in 0 .. N : after[n] = IF n = 0 THEN start ELSE ReadStorage(after[n - 1])
      BY ONLY <2>1
    <3>2. 0 \in 0 .. N /\ \A n \in 1 .. N : n \in 0 .. N /\ n # 0
      BY <1>2
    <3> QED
      BY ONLY <3>1, <3>2
  <2>3. \A n \in 1 .. N : after[n - 1] = g[n - 1] => after[n] = g[n]
    BY <1>10, <2>2
  <2>4. Agree(N, after, g)
    BY <1>2, <1>9, <2>2, <2>3, StepwiseEqual
  <2> QED
    BY <1>2, <2>4 DEF Agree
<1>14. g[N].storages = f
  <2>1. f = [i \in 1 .. N |-> f[i]] /\ N \in 0 .. N
    BY <1>1, <1>2
  <2>2. g[N].storages = [i \in 1 .. N |-> f[i]]
    BY <2>1
  <2> QED
    BY <2>1, <2>2
<1> QED
  BY <1>1, <1>8, <1>13, <1>14

-----------------------------------------------------------------------------
(* A block's hash.                                                         *)

\* A sequence without repetitions has as many elements as its range.
LEMMA RangeCounted ==
  ASSUME NEW n \in Nat, NEW s, DOMAIN s = 1 .. n, \A i, j \in 1 .. n : s[i] = s[j] => i = j
  PROVE  Cardinality({s[i] : i \in 1 .. n}) = n
<1> DEFINE S == {s[i] : i \in 1 .. n}
           f == [i \in 1 .. n |-> s[i]]
<1>1. f \in Bijection(1 .. n, S)
  BY DEF Bijection, Injection, Surjection, IsInjective
<1>2. ExistsBijection(1 .. n, S)
  BY <1>1 DEF ExistsBijection
<1> HIDE DEF S
<1> QED
  BY <1>2, FS_CountingElements DEF S

\* The hash of a block on disk is that of the block clients know by it.
LEMMA HashIsKnown ==
  ASSUME NEW block \in Blocks
  PROVE  Hash(block) = Known(block)
<1>1. PICK s, n : s = block.states /\ n = Len(s)
  OBVIOUS
<1>2. n \in Nat /\ DOMAIN s = 1 .. n
  BY <1>1, BlocksAssumption
<1>3. \A i, j \in 1 .. n : s[i] = s[j] => i = j
  BY <1>1, <1>2, BlocksAssumption
<1> DEFINE S == {s[i] : i \in DOMAIN s}
<1>4. Cardinality(S) = n
  BY <1>2, <1>3, RangeCounted
<1>5. [DOMAIN s -> S] = [1 .. Cardinality(S) -> S]
  BY <1>2, <1>4
<1>6. InOrder(s) = CHOOSE o \in [DOMAIN s -> S] : Ascending(o)
  BY DEF InOrder
<1>7. Known(block) = <<block.name, CHOOSE o \in [1 .. Cardinality(S) -> S] : Ascending(o)>>
  BY <1>1 DEF Known
<1> HIDE DEF S
<1>8. InOrder(s) = CHOOSE o \in [1 .. Cardinality(S) -> S] : Ascending(o)
  BY <1>5, <1>6, Zenon
<1> QED
  BY <1>1, <1>7, <1>8, Zenon DEF Hash

-----------------------------------------------------------------------------
(* A column in memory.                                                     *)

\* The storages there may be, and the columns of them.
Storages == {s \in [palette : Seq(States), blocks : [Cell -> Nat]] : GoodStorage(s, States)}

Columns == [0 .. MaxSubChunks - 1 -> Seq(Storages)]

\* The storages are those whose palette is in order.
LEMMA StoragesAre == ASSUME NEW s PROVE s \in Storages <=> GoodStorage(s, States)
<1>1. ASSUME GoodStorage(s, States) PROVE s \in [palette : Seq(States), blocks : [Cell -> Nat]]
  BY <1>1 DEF GoodStorage
<1> QED
  BY <1>1 DEF Storages

\* The storage nobody set anything in is one.
LEMMA NewStorageGood == NewStorage \in Storages /\ Len(NewStorage.palette) = 1
<1> DEFINE q == <<Unset>>
           b == [c \in Cell |-> 0]
<1>1. NewStorage = [palette |-> q, blocks |-> b]
  BY DEF NewStorage
<1>2. Unset \in States
  BY DEF States
<1>3. q \in Seq(States) /\ q # <<>> /\ Len(q) = 1 /\ DOMAIN q = 1 .. 1
  BY <1>2
<1>4. b \in [Cell -> Nat] /\ \A c \in Cell : b[c] < 1
  OBVIOUS
<1> HIDE DEF q, b
<1>5. NewStorage.palette = q /\ NewStorage.blocks = b /\ NewStorage = [palette |-> q, blocks |-> b]
  BY <1>1
<1>6. \A i, j \in DOMAIN q : i = j
  BY <1>3
<1>7. \A c \in Cell : b[c] < Len(q)
  BY <1>3, <1>4
<1> QED
  BY <1>3, <1>4, <1>5, <1>6, <1>7, StoragesAre DEF GoodStorage

\* all are the layers with those up to the wanted one made.
Extends(layers, layer, all) ==
    /\ all \in Seq(Storages)
    /\ Len(layers) \in Nat
    /\ Len(all) = IF layer > Len(layers) THEN layer ELSE Len(layers)
    /\ \A l \in 1 .. Len(layers) : all[l] = layers[l]
    /\ \A l \in Len(layers) + 1 .. layer : all[l] = NewStorage

\* And WithLayer is.
LEMMA WithLayerExtends ==
  ASSUME NEW layers \in Seq(Storages), NEW layer \in Nat \ {0}
  PROVE  Extends(layers, layer, WithLayer(layers, layer))
<1>1. PICK m, made, all : /\ m = layer - Len(layers) /\ made = [i \in 1 .. m |-> NewStorage]
                          /\ all = layers \o made
  OBVIOUS
<1>2. Len(layers) \in Nat /\ m \in Int
  BY <1>1
<1>3. /\ made \in Seq(Storages) /\ Len(made) = IF m > 0 THEN m ELSE 0
      /\ \A i \in 1 .. m : made[i] = NewStorage
  <2>1. CASE m > 0
    <3>1. \A i \in 1 .. m : made[i] = NewStorage /\ made[i] \in Storages
      BY <1>1, NewStorageGood
    <3>2. Numbered(made, m) /\ m \in Nat
      BY <1>1, <1>2, <2>1 DEF Numbered
    <3>3. made \in Seq(Storages) /\ Len(made) = m
      BY <3>1, <3>2, FunctionSeq, Zenon
    <3> QED
      BY <2>1, <3>1, <3>3
  <2>2. CASE ~ (m > 0)
    <3>1. 1 .. m = {} /\ 1 .. 0 = {}
      BY <1>2, <2>2
    <3>2. Numbered(made, 0) /\ \A i \in 1 .. 0 : made[i] \in Storages
      BY <1>1, <3>1 DEF Numbered
    <3>3. made \in Seq(Storages) /\ Len(made) = 0
      BY <3>2, FunctionSeq
    <3> QED
      BY <2>2, <3>1, <3>3
  <2> QED
    BY <2>1, <2>2
<1>4. Follows(Storages, layers, made, all)
  BY <1>1, <1>3, OfTwo, Zenon
<1>5. /\ all \in Seq(Storages) /\ Len(all) = Len(layers) + Len(made)
      /\ \A l \in 1 .. Len(layers) : all[l] = layers[l]
      /\ \A i \in 1 .. Len(made) : all[Len(layers) + i] = made[i]
      /\ Len(made) \in Nat
  BY <1>4 DEF Follows
<1>6. Len(all) = IF layer > Len(layers) THEN layer ELSE Len(layers)
  <2>1. CASE m > 0
    <3>1. Len(made) = m
      BY <1>3, <2>1, Zenon
    <3> QED
      BY <1>1, <1>2, <1>5, <2>1, <3>1
  <2>2. CASE ~ (m > 0)
    <3>1. Len(made) = 0
      BY <1>3, <2>2, Zenon
    <3>2. Len(all) = Len(layers)
      BY <1>2, <1>5, <3>1
    <3>3. ~ (layer > Len(layers))
      BY <1>1, <1>2, <2>2
    <3> QED
      BY <3>2, <3>3, Zenon
  <2> QED
    BY <2>1, <2>2, Zenon
<1>7. ASSUME NEW l \in Len(layers) + 1 .. layer PROVE all[l] = NewStorage
  <2>1. PICK i : i = l - Len(layers)
    OBVIOUS
  <2>2. i \in 1 .. m /\ Len(layers) + i = l /\ m > 0
    BY <1>1, <1>2, <2>1
  <2>3. Len(made) = m
    BY <1>3, <2>2, Zenon
  <2> QED
    BY <1>3, <1>5, <2>2, <2>3
<1>8. WithLayer(layers, layer) = all
  BY <1>1 DEF WithLayer
<1> QED
  BY <1>2, <1>5, <1>6, <1>7, <1>8 DEF Extends

\* new is the column after a block of a layer of one of its subchunks is set.
BlockSet(column, index, c, state, layer, new) ==
    LET before == column[index]
        was == IF layer <= Len(before) THEN before[layer] ELSE NewStorage
    IN /\ new \in Columns
       /\ \A j \in 0 .. MaxSubChunks - 1 : j # index => new[j] = column[j]
       /\ Len(before) \in Nat
       /\ Len(new[index]) = IF layer > Len(before) THEN layer ELSE Len(before)
       /\ \A l \in 1 .. Len(before) : l # layer => new[index][l] = before[l]
       /\ new[index][layer] = SetState(was, c, state)

\* And that is what SetBlock does.
LEMMA SetBlockSets ==
  ASSUME NEW column \in Columns, NEW y \in Height, NEW c \in Cell, NEW state \in States,
         NEW layer \in Nat \ {0}
  PROVE  BlockSet(column, SubChunkIndex(y), c, state, layer, SetBlock(column, y, c, state, layer))
<1>1. PICK index, before, all, was :
        /\ index = SubChunkIndex(y) /\ before = column[index] /\ all = WithLayer(before, layer)
        /\ was = IF layer <= Len(before) THEN before[layer] ELSE NewStorage
  OBVIOUS
<1>2. index \in 0 .. MaxSubChunks - 1 /\ before \in Seq(Storages) /\ Len(before) \in Nat
  <2>1. y \in Int /\ Offset \in Int /\ MaxSubChunks \in Nat
    BY HeightAssumption DEF Height
  <2>2. index \in 0 .. MaxSubChunks - 1
    BY <1>1, <2>1 DEF SubChunkIndex, Height
  <2>3. before \in Seq(Storages)
    BY <1>1, <2>2 DEF Columns
  <2> QED
    BY <2>2, <2>3
<1>3. Extends(before, layer, all)
  BY <1>1, <1>2, WithLayerExtends, Zenon
<1>4. all \in Seq(Storages) /\ layer \in 1 .. Len(all) /\ Len(all) \in Nat
      /\ Len(all) = IF layer > Len(before) THEN layer ELSE Len(before)
  BY <1>2, <1>3 DEF Extends
<1>5. all[layer] = was /\ was \in Storages
  <2>1. all[layer] \in Storages
    BY <1>4
  <2>2. CASE layer <= Len(before)
    <3>1. layer \in 1 .. Len(before)
      BY <1>2, <2>2
    <3> QED
      BY <1>1, <1>3, <2>1, <2>2, <3>1 DEF Extends
  <2>3. CASE ~ (layer <= Len(before))
    <3>1. layer \in Len(before) + 1 .. layer
      BY <1>2, <2>3
    <3> QED
      BY <1>1, <1>3, <2>1, <2>3, <3>1 DEF Extends
  <2> QED
    BY <2>2, <2>3, Zenon
<1>6. PICK set, after, new :
        /\ set = SetState(was, c, state)
        /\ after = [all EXCEPT ![layer] = set]
        /\ new = [column EXCEPT ![index] = after]
  OBVIOUS
<1>7. set \in Storages
  BY <1>5, <1>6, StoragesAre, SetStateSets
<1>8. /\ after \in Seq(Storages) /\ Len(after) = Len(all) /\ after[layer] = set
      /\ \A l \in 1 .. Len(all) : l # layer => after[l] = all[l]
  BY <1>4, <1>6, <1>7, ExceptSeq
<1>9. /\ new \in Columns /\ new[index] = after
      /\ \A j \in 0 .. MaxSubChunks - 1 : j # index => new[j] = column[j]
  BY <1>2, <1>6, <1>8 DEF Columns
<1>10. SetBlock(column, y, c, state, layer) = new
  <2>1. index \in DOMAIN column
    BY <1>2 DEF Columns
  <2> QED
    BY <1>1, <1>5, <1>6, <2>1 DEF SetBlock
<1>11. \A l \in 1 .. Len(before) : l # layer => after[l] = before[l]
  <2>1. ASSUME NEW l \in 1 .. Len(before), l # layer PROVE after[l] = before[l]
    <3>1. l \in 1 .. Len(all)
      <4>1. Len(all) >= Len(before)
        BY <1>2, <1>4
      <4> QED
        BY <1>2, <1>4, <4>1
    <3>2. all[l] = before[l]
      BY <1>3 DEF Extends
    <3> QED
      BY <1>8, <2>1, <3>1, <3>2
  <2> QED
    BY <2>1
<1> QED
  BY <1>1, <1>2, <1>4, <1>6, <1>8, <1>9, <1>10, <1>11 DEF BlockSet

-----------------------------------------------------------------------------
(* A layer is set block by block.                                          *)

\* The state of a block on disk.
StateAt(s, c) == Hash(s.palette[s.blocks[c] + 1])

\* The first n blocks have their states in memory, and at most one more is there.
HoldsUpTo(t, s, n) ==
    /\ t \in Storages /\ Len(t.palette) \in 1 .. n + 1
    /\ \A c \in 0 .. n - 1 : GetState(t, c) = StateAt(s, c)

\* new is the column with the first n blocks of a further layer set.
LayerSoFar(column, index, layer, s, new, n) ==
    /\ new \in Columns
    /\ \A j \in 0 .. MaxSubChunks - 1 : j # index => new[j] = column[j]
    /\ \A l \in 1 .. layer - 1 : new[index][l] = column[index][l]
    /\ Len(new[index]) = IF n = 0 THEN layer - 1 ELSE layer
    /\ n # 0 => HoldsUpTo(new[index][layer], s, n)

\* The states on disk are among the states, and readChunk finds them by the palette.
LEMMA StateAtIs ==
  ASSUME NEW s \in DiskStorages, NEW c \in Cell
  PROVE  /\ StateAt(s, c) \in States
         /\ Decoded(s).states[Decoded(s).blocks[c] + 1] = StateAt(s, c)
<1>1. s.blocks[c] \in Nat /\ s.blocks[c] < Len(s.palette) /\ Len(s.palette) \in Nat
      /\ s.palette \in Seq(Blocks)
  BY DiskStorage
<1>2. s.blocks[c] + 1 \in 1 .. Len(s.palette)
  BY <1>1
<1>3. s.palette[s.blocks[c] + 1] \in Blocks
  BY <1>1, <1>2
<1> QED
  BY <1>2, <1>3 DEF StateAt, States, Decoded

\* The next block is set.
LEMMA LayerNext ==
  ASSUME NEW column \in Columns, NEW y \in Height, NEW s \in DiskStorages, NEW layer \in Nat \ {0},
         NEW n \in 1 .. Cells, NEW v, LayerSoFar(column, SubChunkIndex(y), layer, s, v, n - 1)
  PROVE  LayerSoFar(column, SubChunkIndex(y), layer, s,
                    SetBlock(v, y, n - 1, StateAt(s, n - 1), layer), n)
<1>1. PICK index, new, c, state : /\ index = SubChunkIndex(y) /\ c = n - 1 /\ state = StateAt(s, c)
                                  /\ new = SetBlock(v, y, c, state, layer)
  OBVIOUS
<1>2. Cells \in Nat /\ c \in Cell /\ c \in Nat /\ n = c + 1 /\ n \in Nat
  BY <1>1, CellsAssumption DEF Cell
<1>3. state \in States
  BY <1>1, <1>2, StateAtIs
<1>4. v \in Columns
  BY DEF LayerSoFar
<1>5. BlockSet(v, index, c, state, layer, new)
  BY <1>1, <1>2, <1>3, <1>4, SetBlockSets
<1>6. PICK before, was : /\ before = v[index]
                         /\ was = IF layer <= Len(before) THEN before[layer] ELSE NewStorage
  OBVIOUS
<1>7. /\ new \in Columns
      /\ \A j \in 0 .. MaxSubChunks - 1 : j # index => new[j] = v[j]
      /\ Len(before) \in Nat
      /\ Len(new[index]) = IF layer > Len(before) THEN layer ELSE Len(before)
      /\ \A l \in 1 .. Len(before) : l # layer => new[index][l] = before[l]
      /\ new[index][layer] = SetState(was, c, state)
  BY <1>5, <1>6 DEF BlockSet
<1>8. /\ \A j \in 0 .. MaxSubChunks - 1 : j # index => v[j] = column[j]
      /\ \A l \in 1 .. layer - 1 : before[l] = column[index][l]
      /\ Len(before) = IF c = 0 THEN layer - 1 ELSE layer
      /\ c # 0 => HoldsUpTo(before[layer], s, c)
  BY <1>1, <1>6 DEF LayerSoFar
<1>9. Len(new[index]) = layer /\ layer - 1 <= Len(before)
  <2>1. CASE c = 0
    <3>1. Len(before) = layer - 1
      BY <1>8, <2>1, Zenon
    <3>2. layer > Len(before)
      BY <3>1
    <3> QED
      BY <1>7, <3>1, <3>2
  <2>2. CASE c # 0
    <3>1. Len(before) = layer
      BY <1>8, <2>2, Zenon
    <3> QED
      BY <1>7, <3>1
  <2> QED
    BY <2>1, <2>2
<1>10. \A l \in 1 .. layer - 1 : new[index][l] = column[index][l]
  <2>1. \A l \in 1 .. layer - 1 : l \in 1 .. Len(before) /\ l # layer
    BY <1>7, <1>9
  <2> QED
    BY <1>7, <1>8, <2>1
<1>11. HoldsUpTo(was, s, c)
  <2>1. CASE c = 0
    <3>1. Len(before) = layer - 1
      BY <1>8, <2>1, Zenon
    <3>2. ~ (layer <= Len(before))
      BY <3>1
    <3>3. was = NewStorage
      BY <1>6, <3>2
    <3> QED
      BY <2>1, <3>3, NewStorageGood DEF HoldsUpTo
  <2>2. CASE c # 0
    <3>1. Len(before) = layer
      BY <1>8, <2>2, Zenon
    <3>2. was = before[layer]
      BY <1>6, <3>1
    <3> QED
      BY <1>8, <2>2, <3>2
  <2> QED
    BY <2>1, <2>2
<1>12. PICK t : t = SetState(was, c, state)
  OBVIOUS
<1>13. /\ GoodStorage(t, States)
       /\ Len(t.palette) \in Len(was.palette) .. Len(was.palette) + 1
       /\ GetState(t, c) = state
       /\ \A d \in Cell \ {c} : GetState(t, d) = GetState(was, d)
  <2>1. GoodStorage(was, States)
    BY <1>11, StoragesAre DEF HoldsUpTo
  <2> QED
    BY <1>2, <1>3, <1>12, <2>1, SetStateSets
<1>14. HoldsUpTo(t, s, n)
  <2>1. t \in Storages
    BY <1>13, StoragesAre
  <2>2. Len(t.palette) \in 1 .. n + 1
    <3>1. Len(was.palette) \in 1 .. c + 1
      BY <1>11 DEF HoldsUpTo
    <3>2. Len(was.palette) \in Nat
      BY <1>2, <3>1
    <3> QED
      BY <1>2, <1>13, <3>1, <3>2
  <2>3. ASSUME NEW d \in 0 .. n - 1 PROVE GetState(t, d) = StateAt(s, d)
    <3>1. CASE d = c
      BY <1>1, <1>13, <3>1
    <3>2. CASE d # c
      <4>1. d \in 0 .. c - 1 /\ d \in Cell \ {c}
        BY <1>2, <3>2 DEF Cell
      <4> QED
        BY <1>11, <1>13, <4>1 DEF HoldsUpTo
    <3> QED
      BY <3>1, <3>2
  <2> QED
    BY <2>1, <2>2, <2>3 DEF HoldsUpTo
<1>15. n # 0 /\ \A j \in 0 .. MaxSubChunks - 1 : j # index => new[j] = column[j]
  BY <1>7, <1>8
<1> QED
  BY <1>1, <1>7, <1>9, <1>10, <1>12, <1>14, <1>15 DEF LayerSoFar

\* after are the columns while a layer is set, and last is what becomes of them.
LayerRun(column, y, layer, s, after, last) ==
    /\ after \in [0 .. Cells -> Columns] /\ after[0] = column /\ after[Cells] = last
    /\ \A n \in 1 .. Cells :
         after[n] = SetBlock(after[n - 1], y, n - 1, StateAt(s, n - 1), layer)

\* Setting a layer passes through columns.
LEMMA SetLayerRuns ==
  ASSUME NEW column \in Columns, NEW y \in Height, NEW s \in DiskStorages, NEW layer \in Nat \ {0}
  PROVE  /\ \E after : LayerRun(column, y, layer, s, after, SetLayer(column, y, layer, Decoded(s)))
         /\ SetLayer(column, y, layer, Decoded(s)) \in Columns
<1> DEFINE Value(n) == Decoded(s).states[Decoded(s).blocks[n - 1] + 1]
           Solves(r) == r = [n \in 0 .. Cells |->
                               IF n = 0 THEN column ELSE SetBlock(r[n - 1], y, n - 1, Value(n), layer)]
           step == [n \in 1 .. Cells |-> [v \in Columns |-> SetBlock(v, y, n - 1, Value(n), layer)]]
           after == CHOOSE r : Solves(r)
<1>1. Cells \in Nat /\ \A n \in 1 .. Cells : n - 1 \in Cell
  BY CellsAssumption DEF Cell
<1>2. \A n \in 1 .. Cells : Value(n) = StateAt(s, n - 1) /\ Value(n) \in States
  BY <1>1, StateAtIs
<1> HIDE DEF Value
<1>3. \A n \in 1 .. Cells, v \in Columns : SetBlock(v, y, n - 1, Value(n), layer) \in Columns
  BY <1>1, <1>2, SetBlockSets DEF BlockSet
<1>4. \A n \in 1 .. Cells : \A v \in Columns :
        step[n][v] = SetBlock(v, y, n - 1, Value(n), layer) /\ step[n][v] \in Columns
  BY <1>3
<1>5. PICK f : Iterates(Cells, Columns, column, step, f)
  <2> HIDE DEF step
  <2> QED
    BY <1>1, <1>4, IterationExists
<1>6. /\ f \in [0 .. Cells -> Columns] /\ f[0] = column
      /\ \A n \in 1 .. Cells : f[n] = SetBlock(f[n - 1], y, n - 1, Value(n), layer)
  <2> HIDE DEF step
  <2>1. /\ f \in [0 .. Cells -> Columns] /\ f[0] = column
        /\ \A n \in 1 .. Cells : f[n] = step[n][f[n - 1]]
    BY <1>5 DEF Iterates
  <2>2. \A n \in 1 .. Cells : f[n - 1] \in Columns
    BY <1>1, <2>1
  <2> QED
    BY <1>4, <2>1, <2>2
<1>7. Solves(f)
  <2>1. ASSUME NEW n \in 0 .. Cells
        PROVE  f[n] = IF n = 0 THEN column ELSE SetBlock(f[n - 1], y, n - 1, Value(n), layer)
    <3>1. n = 0 \/ n \in 1 .. Cells
      BY <1>1
    <3> QED
      BY <1>6, <3>1
  <2>2. f = [n \in 0 .. Cells |-> f[n]]
    BY <1>6
  <2> QED
    BY <2>1, <2>2
<1>8. Solves(after)
  <2> HIDE DEF Solves
  <2> QED
    BY <1>7
<1>9. after[0] = column
      /\ \A n \in 1 .. Cells : after[n] = SetBlock(after[n - 1], y, n - 1, Value(n), layer)
  <2>1. after = [n \in 0 .. Cells |->
                   IF n = 0 THEN column ELSE SetBlock(after[n - 1], y, n - 1, Value(n), layer)]
    BY <1>8
  <2> HIDE DEF after
  <2>2. \A n \in 0 .. Cells :
          after[n] = IF n = 0 THEN column ELSE SetBlock(after[n - 1], y, n - 1, Value(n), layer)
    BY ONLY <2>1
  <2>3. 0 \in 0 .. Cells /\ \A n \in 1 .. Cells : n \in 0 .. Cells /\ n # 0
    BY <1>1
  <2> QED
    BY ONLY <2>2, <2>3
<1>10. SetLayer(column, y, layer, Decoded(s)) = after[Cells]
  BY DEF SetLayer, Value
<1> HIDE DEF Solves
<1>11. after \in [0 .. Cells -> Columns]
  <2>1. Agree(Cells, after, f)
    <3> HIDE DEF after
    <3>1. after[0] = f[0] /\ \A n \in 1 .. Cells : after[n - 1] = f[n - 1] => after[n] = f[n]
      BY <1>6, <1>9
    <3> QED
      BY <1>1, <3>1, StepwiseEqual
  <2>2. after = [n \in 0 .. Cells |-> after[n]]
    <3>1. after = [n \in 0 .. Cells |->
                     IF n = 0 THEN column ELSE SetBlock(after[n - 1], y, n - 1, Value(n), layer)]
      BY <1>8 DEF Solves
    <3> HIDE DEF after
    <3> QED
      BY <3>1
  <2> HIDE DEF after
  <2> QED
    BY <1>6, <2>1, <2>2 DEF Agree
<1> HIDE DEF after
<1>12. LayerRun(column, y, layer, s, after, SetLayer(column, y, layer, Decoded(s)))
  BY <1>2, <1>9, <1>10, <1>11 DEF LayerRun
<1>13. after[Cells] \in Columns
  BY <1>1, <1>11
<1> QED
  BY <1>10, <1>12, <1>13

\* A layer is set whole.
LEMMA SetLayerSets ==
  ASSUME NEW column \in Columns, NEW y \in Height, NEW s \in DiskStorages, NEW layer \in Nat \ {0},
         Len(column[SubChunkIndex(y)]) = layer - 1
  PROVE  LayerSoFar(column, SubChunkIndex(y), layer, s, SetLayer(column, y, layer, Decoded(s)), Cells)
<1>1. PICK after : LayerRun(column, y, layer, s, after, SetLayer(column, y, layer, Decoded(s)))
  BY SetLayerRuns
<1>2. Cells \in Nat
  BY CellsAssumption
<1> DEFINE S == {n \in 0 .. Cells : LayerSoFar(column, SubChunkIndex(y), layer, s, after[n], n)}
<1>3. 0 \in S
  BY <1>1, <1>2 DEF LayerSoFar, LayerRun
<1>4. ASSUME NEW n \in 1 .. Cells, n - 1 \in S PROVE n \in S
  <2>1. LayerSoFar(column, SubChunkIndex(y), layer, s, after[n - 1], n - 1)
    BY <1>4
  <2>2. after[n] = SetBlock(after[n - 1], y, n - 1, StateAt(s, n - 1), layer)
    BY <1>1 DEF LayerRun
  <2>3. LayerSoFar(column, SubChunkIndex(y), layer, s, after[n], n)
    BY <2>1, <2>2, LayerNext
  <2>4. n \in 0 .. Cells
    BY <1>2
  <2> QED
    BY <2>3, <2>4
<1>5. Cells \in S
  <2> HIDE DEF S
  <2>1. 0 .. Cells \subseteq S
    BY <1>2, <1>3, <1>4, UpTo
  <2> QED
    BY <1>2, <2>1
<1> QED
  BY <1>1, <1>5 DEF LayerRun

-----------------------------------------------------------------------------
(* A subchunk is set layer by layer.                                       *)

\* What is in memory of a subchunk's storages.
SubChunkHolds(layers, storages) ==
    /\ Len(layers) = Len(storages)
    /\ \A l \in 1 .. Len(storages) : HoldsUpTo(layers[l], storages[l], Cells)

\* new is the column with the first n layers of a subchunk set.
LayersSoFar(column, index, storages, new, n) ==
    /\ new \in Columns
    /\ \A j \in 0 .. MaxSubChunks - 1 : j # index => new[j] = column[j]
    /\ Len(new[index]) = n
    /\ \A l \in 1 .. n : HoldsUpTo(new[index][l], storages[l], Cells)

\* after are the columns while the layers are set, and last is what becomes of them.
LayersRun(column, y, storages, after, last) ==
    /\ after \in [0 .. Len(storages) -> Columns]
    /\ after[0] = column /\ after[Len(storages)] = last
    /\ \A n \in 1 .. Len(storages) : after[n] = SetLayer(after[n - 1], y, n, Decoded(storages[n]))

\* Setting the layers passes through columns.
LEMMA SetAllRuns ==
  ASSUME NEW column \in Columns, NEW y \in Height, NEW storages \in Seq(DiskStorages), NEW decoded,
         decoded = [i \in 1 .. Len(storages) |-> Decoded(storages[i])]
  PROVE  /\ \E after : LayersRun(column, y, storages, after, SetAll(column, y, decoded))
         /\ SetAll(column, y, decoded) \in Columns
<1>1. PICK N : N = Len(storages)
  OBVIOUS
<1>2. /\ N \in Nat /\ Len(decoded) = N
      /\ \A n \in 1 .. N : decoded[n] = Decoded(storages[n]) /\ storages[n] \in DiskStorages
  BY <1>1
<1> DEFINE Solves(r) == r = [n \in 0 .. N |->
                               IF n = 0 THEN column ELSE SetLayer(r[n - 1], y, n, decoded[n])]
           step == [n \in 1 .. N |-> [v \in Columns |-> SetLayer(v, y, n, decoded[n])]]
           after == CHOOSE r : Solves(r)
<1>3. \A n \in 1 .. N, v \in Columns : SetLayer(v, y, n, decoded[n]) \in Columns
  <2>1. ASSUME NEW n \in 1 .. N, NEW v \in Columns PROVE SetLayer(v, y, n, decoded[n]) \in Columns
    <3>1. storages[n] \in DiskStorages /\ n \in Nat \ {0}
      BY <1>2
    <3>2. SetLayer(v, y, n, Decoded(storages[n])) \in Columns
      BY <3>1, SetLayerRuns
    <3> QED
      BY <1>2, <3>2
  <2> QED
    BY <2>1
<1>4. \A n \in 1 .. N : \A v \in Columns :
        step[n][v] = SetLayer(v, y, n, decoded[n]) /\ step[n][v] \in Columns
  BY <1>3
<1>5. PICK f : Iterates(N, Columns, column, step, f)
  <2> HIDE DEF step
  <2> QED
    BY <1>2, <1>4, IterationExists
<1>6. /\ f \in [0 .. N -> Columns] /\ f[0] = column
      /\ \A n \in 1 .. N : f[n] = SetLayer(f[n - 1], y, n, decoded[n])
  <2> HIDE DEF step
  <2>1. /\ f \in [0 .. N -> Columns] /\ f[0] = column
        /\ \A n \in 1 .. N : f[n] = step[n][f[n - 1]]
    BY <1>5 DEF Iterates
  <2>2. \A n \in 1 .. N : f[n - 1] \in Columns
    BY <1>2, <2>1
  <2> QED
    BY <1>4, <2>1, <2>2
<1>7. Solves(f)
  <2>1. ASSUME NEW n \in 0 .. N
        PROVE  f[n] = IF n = 0 THEN column ELSE SetLayer(f[n - 1], y, n, decoded[n])
    <3>1. n = 0 \/ n \in 1 .. N
      BY <1>2
    <3> QED
      BY <1>6, <3>1
  <2>2. f = [n \in 0 .. N |-> f[n]]
    BY <1>6
  <2> QED
    BY <2>1, <2>2
<1>8. Solves(after)
  <2> HIDE DEF Solves
  <2> QED
    BY <1>7
<1>9. SetAll(column, y, decoded) = after[N]
  BY <1>2 DEF SetAll
<1>10. /\ after = [n \in 0 .. N |-> after[n]] /\ after[0] = column
       /\ \A n \in 1 .. N : after[n] = SetLayer(after[n - 1], y, n, decoded[n])
  <2>1. after = [n \in 0 .. N |-> IF n = 0 THEN column ELSE SetLayer(after[n - 1], y, n, decoded[n])]
    BY <1>8
  <2> HIDE DEF after, Solves
  <2>2. \A n \in 0 .. N :
          after[n] = IF n = 0 THEN column ELSE SetLayer(after[n - 1], y, n, decoded[n])
    BY ONLY <2>1
  <2>3. 0 \in 0 .. N /\ \A n \in 1 .. N : n \in 0 .. N /\ n # 0
    BY <1>2
  <2>4. after[0] = column /\ \A n \in 1 .. N : after[n] = SetLayer(after[n - 1], y, n, decoded[n])
    BY ONLY <2>2, <2>3
  <2> QED
    BY <2>1, <2>4
<1> HIDE DEF after, Solves
<1>11. after \in [0 .. N -> Columns]
  <2>1. after[0] = f[0] /\ \A n \in 1 .. N : after[n - 1] = f[n - 1] => after[n] = f[n]
    BY <1>6, <1>10
  <2>2. Agree(N, after, f)
    BY <1>2, <2>1, StepwiseEqual
  <2> QED
    BY <1>6, <1>10, <2>2 DEF Agree
<1>12. LayersRun(column, y, storages, after, SetAll(column, y, decoded))
  BY <1>1, <1>2, <1>9, <1>10, <1>11 DEF LayersRun
<1>13. after[N] \in Columns
  BY <1>2, <1>11
<1> QED
  BY <1>9, <1>12, <1>13

\* A subchunk is set whole.
LEMMA SetAllSets ==
  ASSUME NEW column \in Columns, NEW y \in Height, NEW storages \in Seq(DiskStorages), NEW decoded,
         decoded = [i \in 1 .. Len(storages) |-> Decoded(storages[i])],
         Len(column[SubChunkIndex(y)]) = 0
  PROVE  LayersSoFar(column, SubChunkIndex(y), storages, SetAll(column, y, decoded), Len(storages))
<1>1. PICK after : LayersRun(column, y, storages, after, SetAll(column, y, decoded))
  BY SetAllRuns
<1>2. PICK N, index : N = Len(storages) /\ index = SubChunkIndex(y)
  OBVIOUS
<1>3. N \in Nat /\ \A n \in 1 .. N : storages[n] \in DiskStorages
  BY <1>2
<1> DEFINE S == {n \in 0 .. N : LayersSoFar(column, index, storages, after[n], n)}
<1>4. 0 \in S
  BY <1>1, <1>2, <1>3 DEF LayersSoFar, LayersRun
<1>5. ASSUME NEW n \in 1 .. N, n - 1 \in S PROVE n \in S
  <2>1. PICK v, new : v = after[n - 1] /\ new = after[n]
    OBVIOUS
  <2>2. LayersSoFar(column, index, storages, v, n - 1)
    BY <1>5, <2>1
  <2>3. new = SetLayer(v, y, n, Decoded(storages[n]))
    BY <1>1, <1>2, <2>1 DEF LayersRun
  <2>4. /\ v \in Columns /\ Len(v[index]) = n - 1 /\ storages[n] \in DiskStorages /\ n \in Nat \ {0}
        /\ \A j \in 0 .. MaxSubChunks - 1 : j # index => v[j] = column[j]
        /\ \A l \in 1 .. n - 1 : HoldsUpTo(v[index][l], storages[l], Cells)
    BY <1>3, <2>2 DEF LayersSoFar
  <2>5. LayerSoFar(v, index, n, storages[n], new, Cells)
    BY <1>2, <2>3, <2>4, SetLayerSets
  <2>6. /\ new \in Columns /\ Len(new[index]) = n
        /\ \A j \in 0 .. MaxSubChunks - 1 : j # index => new[j] = v[j]
        /\ \A l \in 1 .. n - 1 : new[index][l] = v[index][l]
        /\ HoldsUpTo(new[index][n], storages[n], Cells)
    BY <2>5, CellsAssumption DEF LayerSoFar
  <2>7. ASSUME NEW l \in 1 .. n PROVE HoldsUpTo(new[index][l], storages[l], Cells)
    <3>1. l = n \/ l \in 1 .. n - 1
      BY <1>3
    <3> QED
      BY <2>4, <2>6, <3>1
  <2>8. LayersSoFar(column, index, storages, new, n)
    BY <2>4, <2>6, <2>7 DEF LayersSoFar
  <2>9. n \in 0 .. N
    BY <1>3
  <2> QED
    BY <2>1, <2>8, <2>9
<1>6. N \in S
  <2> HIDE DEF S
  <2>1. 0 .. N \subseteq S
    BY <1>3, <1>4, <1>5, UpTo
  <2> QED
    BY <1>3, <2>1
<1> QED
  BY <1>1, <1>2, <1>6 DEF LayersRun

-----------------------------------------------------------------------------
(* A chunk is read.                                                        *)

\* What readChunk's keys may give.
DiskColumns == [saved : BOOLEAN, at : [Height -> DiskSubChunks]]

\* The storages on disk of a subchunk, none if the chunk was never saved.
Saved(y) == IF disk.saved THEN disk.at[y].storages ELSE <<>>

\* The heights are the subchunks'.
LEMMA HeightsAre ==
  /\ \A y \in Height : SubChunkIndex(y) \in 0 .. MaxSubChunks - 1
                       /\ SubChunkIndex(y) - Offset = y /\ SubChunkIndex(y) \in Nat
  /\ \A n \in 0 .. MaxSubChunks - 1 : n - Offset \in Height /\ SubChunkIndex(n - Offset) = n
<1>1. MaxSubChunks \in Nat \ {0} /\ Offset \in Nat
  BY HeightAssumption
<1> QED
  BY <1>1 DEF SubChunkIndex, Height

\* A height is read whole, and no other one is touched.
LEMMA ReadHeightReads ==
  ASSUME disk \in DiskColumns, NEW column \in Columns, NEW y \in Height
  PROVE  /\ ReadHeight(column, y) \in Columns
         /\ Len(column[SubChunkIndex(y)]) = 0 =>
              LayersSoFar(column, SubChunkIndex(y), disk.at[y].storages, ReadHeight(column, y),
                          Len(disk.at[y].storages))
<1>1. PICK stored, storages, decoded :
        /\ stored = disk.at[y] /\ storages = stored.storages
        /\ decoded = [i \in 1 .. Len(storages) |-> Decoded(storages[i])]
  OBVIOUS
<1>2. stored \in DiskSubChunks
  BY <1>1 DEF DiskColumns
<1>3. storages \in Seq(DiskStorages)
  BY <1>1, <1>2 DEF DiskSubChunks
<1>4. CASE stored = Missing
  <2>1. ReadHeight(column, y) = column
    BY <1>1, <1>4 DEF ReadHeight
  <2>2. storages = <<>> /\ Len(storages) = 0
    BY <1>1, <1>4 DEF Missing
  <2>3. ASSUME Len(column[SubChunkIndex(y)]) = 0
        PROVE  LayersSoFar(column, SubChunkIndex(y), storages, column, 0)
    BY <2>3 DEF LayersSoFar
  <2> QED
    BY <1>1, <2>1, <2>2, <2>3
<1>5. CASE stored # Missing
  <2>1. ReadHeight(column, y) = SetAll(column, y, decoded)
    <3>1. ReadSubChunk(SubChunkData(stored)) = decoded
      BY <1>1, <1>2, ReadSubChunkReads
    <3> QED
      BY <1>1, <1>5, <3>1 DEF ReadHeight
  <2>2. SetAll(column, y, decoded) \in Columns
    BY <1>1, <1>3, SetAllRuns
  <2>3. ASSUME Len(column[SubChunkIndex(y)]) = 0
        PROVE  LayersSoFar(column, SubChunkIndex(y), storages, SetAll(column, y, decoded), Len(storages))
    BY <1>1, <1>3, <2>3, SetAllSets
  <2> QED
    BY <1>1, <2>1, <2>2, <2>3
<1> QED
  BY <1>4, <1>5

\* new is the column with the lowest n heights read.
HeightsSoFar(new, n) ==
    /\ new \in Columns
    /\ \A j \in 0 .. n - 1 : SubChunkHolds(new[j], disk.at[j - Offset].storages)
    /\ \A j \in n .. MaxSubChunks - 1 : Len(new[j]) = 0

\* The column no height was read of yet.
LEMMA NewChunkEmpty == NewChunk \in Columns /\ HeightsSoFar(NewChunk, 0)
<1>1. \A j \in 0 .. MaxSubChunks - 1 : NewChunk[j] = <<>>
  BY DEF NewChunk
<1>2. <<>> \in Seq(Storages) /\ Len(<<>>) = 0
  BY EmptySeq
<1>3. NewChunk \in Columns
  BY <1>2 DEF NewChunk, Columns
<1> QED
  BY <1>1, <1>2, <1>3 DEF HeightsSoFar

\* The next height is read.
LEMMA HeightNext ==
  ASSUME disk \in DiskColumns, NEW n \in 1 .. MaxSubChunks, NEW v, HeightsSoFar(v, n - 1)
  PROVE  HeightsSoFar(ReadHeight(v, n - 1 - Offset), n)
<1>1. PICK index, y, new : index = n - 1 /\ y = n - 1 - Offset /\ new = ReadHeight(v, y)
  OBVIOUS
<1>2. MaxSubChunks \in Nat /\ n \in Nat
  BY HeightAssumption
<1>3. index \in 0 .. MaxSubChunks - 1 /\ y \in Height /\ SubChunkIndex(y) = index /\ y = index - Offset
  BY <1>1, <1>2, HeightsAre
<1>4. v \in Columns /\ Len(v[index]) = 0
  <2>1. index \in n - 1 .. MaxSubChunks - 1
    BY <1>1, <1>2
  <2> QED
    BY <2>1 DEF HeightsSoFar
<1>5. LayersSoFar(v, index, disk.at[y].storages, new, Len(disk.at[y].storages))
  BY <1>1, <1>3, <1>4, ReadHeightReads
<1>6. /\ new \in Columns
      /\ \A j \in 0 .. MaxSubChunks - 1 : j # index => new[j] = v[j]
      /\ SubChunkHolds(new[index], disk.at[y].storages)
  BY <1>5 DEF LayersSoFar, SubChunkHolds
<1>7. ASSUME NEW j \in 0 .. n - 1 PROVE SubChunkHolds(new[j], disk.at[j - Offset].storages)
  <2>1. CASE j = index
    BY <1>3, <1>6, <2>1
  <2>2. CASE j # index
    <3>1. j \in 0 .. n - 1 - 1 /\ j \in 0 .. MaxSubChunks - 1
      BY <1>1, <1>2, <2>2
    <3> QED
      BY <1>6, <2>2, <3>1 DEF HeightsSoFar
  <2> QED
    BY <2>1, <2>2
<1>8. ASSUME NEW j \in n .. MaxSubChunks - 1 PROVE Len(new[j]) = 0
  <2>1. j \in n - 1 .. MaxSubChunks - 1 /\ j \in 0 .. MaxSubChunks - 1 /\ j # index
    BY <1>1, <1>2
  <2> QED
    BY <1>6, <2>1 DEF HeightsSoFar
<1> QED
  BY <1>1, <1>6, <1>7, <1>8 DEF HeightsSoFar

\* The column holds what is on disk.
ColumnHolds(column) ==
    /\ column \in Columns
    /\ \A y \in Height : SubChunkHolds(column[SubChunkIndex(y)], Saved(y))

\* So does the column readChunk makes.
LEMMA ReadChunkReads ==
  ASSUME disk \in DiskColumns
  PROVE  ColumnHolds(ReadChunk)
<1>1. PICK N : N = MaxSubChunks
  OBVIOUS
<1>2. N \in Nat /\ N # 0
  BY <1>1, HeightAssumption
<1> DEFINE Solves(r) == r = [n \in 0 .. N |->
                               IF n = 0 THEN NewChunk ELSE ReadHeight(r[n - 1], n - 1 - Offset)]
           step == [n \in 1 .. N |-> [v \in Columns |-> ReadHeight(v, n - 1 - Offset)]]
           after == CHOOSE r : Solves(r)
<1>3. \A n \in 1 .. N : \A v \in Columns :
        step[n][v] = ReadHeight(v, n - 1 - Offset) /\ step[n][v] \in Columns
  <2>1. ASSUME NEW n \in 1 .. N, NEW v \in Columns PROVE ReadHeight(v, n - 1 - Offset) \in Columns
    <3>1. n - 1 \in 0 .. MaxSubChunks - 1
      BY <1>1, <1>2
    <3>2. n - 1 - Offset \in Height
      BY <3>1, HeightsAre
    <3> QED
      BY <3>2, ReadHeightReads
  <2> QED
    BY <2>1
<1>4. PICK f : Iterates(N, Columns, NewChunk, step, f)
  <2> HIDE DEF step
  <2> QED
    BY <1>2, <1>3, NewChunkEmpty, IterationExists
<1>5. /\ f \in [0 .. N -> Columns] /\ f[0] = NewChunk
      /\ \A n \in 1 .. N : f[n] = ReadHeight(f[n - 1], n - 1 - Offset)
  <2> HIDE DEF step
  <2>1. /\ f \in [0 .. N -> Columns] /\ f[0] = NewChunk
        /\ \A n \in 1 .. N : f[n] = step[n][f[n - 1]]
    BY <1>4 DEF Iterates
  <2>2. \A n \in 1 .. N : f[n - 1] \in Columns
    BY <1>2, <2>1
  <2> QED
    BY <1>3, <2>1, <2>2
<1>6. Solves(f)
  <2>1. ASSUME NEW n \in 0 .. N
        PROVE  f[n] = IF n = 0 THEN NewChunk ELSE ReadHeight(f[n - 1], n - 1 - Offset)
    <3>1. n = 0 \/ n \in 1 .. N
      BY <1>2
    <3> QED
      BY <1>5, <3>1
  <2>2. f = [n \in 0 .. N |-> f[n]]
    BY <1>5
  <2> QED
    BY <2>1, <2>2
<1>7. Solves(after)
  <2> HIDE DEF Solves
  <2> QED
    BY <1>6
<1>8. ReadChunk = IF disk.saved THEN after[N] ELSE NewChunk
  BY <1>1 DEF ReadChunk
<1>9. after[0] = NewChunk
      /\ \A n \in 1 .. N : after[n] = ReadHeight(after[n - 1], n - 1 - Offset)
  <2>1. after = [n \in 0 .. N |->
                   IF n = 0 THEN NewChunk ELSE ReadHeight(after[n - 1], n - 1 - Offset)]
    BY <1>7
  <2> HIDE DEF after, Solves
  <2>2. \A n \in 0 .. N :
          after[n] = IF n = 0 THEN NewChunk ELSE ReadHeight(after[n - 1], n - 1 - Offset)
    BY ONLY <2>1
  <2>3. 0 \in 0 .. N /\ \A n \in 1 .. N : n \in 0 .. N /\ n # 0
    BY <1>2
  <2> QED
    BY ONLY <2>2, <2>3
<1> HIDE DEF after, Solves
<1> DEFINE S == {n \in 0 .. N : HeightsSoFar(after[n], n)}
<1>10. 0 \in S
  BY <1>2, <1>9, NewChunkEmpty
<1>11. ASSUME NEW n \in 1 .. N, n - 1 \in S PROVE n \in S
  <2>1. HeightsSoFar(after[n - 1], n - 1) /\ n \in 1 .. MaxSubChunks
    BY <1>1, <1>11
  <2>2. HeightsSoFar(ReadHeight(after[n - 1], n - 1 - Offset), n)
    BY <2>1, HeightNext
  <2>3. n \in 0 .. N
    BY <1>2
  <2> QED
    BY <1>9, <2>2, <2>3
<1>12. HeightsSoFar(after[N], N)
  <2> HIDE DEF S
  <2>1. 0 .. N \subseteq S
    BY <1>2, <1>10, <1>11, UpTo
  <2>2. N \in S
    BY <1>2, <2>1
  <2> QED
    BY <2>2 DEF S
<1>13. CASE disk.saved
  <2>1. ReadChunk = after[N]
    BY <1>8, <1>13
  <2>2. ASSUME NEW y \in Height PROVE SubChunkHolds(after[N][SubChunkIndex(y)], Saved(y))
    <3>1. SubChunkIndex(y) \in 0 .. N - 1 /\ SubChunkIndex(y) - Offset = y
      BY <1>1, HeightsAre
    <3> QED
      BY <1>12, <1>13, <3>1 DEF HeightsSoFar, Saved
  <2> QED
    BY <1>12, <2>1, <2>2 DEF ColumnHolds, HeightsSoFar
<1>14. CASE ~ disk.saved
  <2>1. ReadChunk = NewChunk
    BY <1>8, <1>14
  <2>2. ASSUME NEW y \in Height PROVE SubChunkHolds(NewChunk[SubChunkIndex(y)], Saved(y))
    <3>1. NewChunk[SubChunkIndex(y)] = <<>> /\ Saved(y) = <<>> /\ Len(<<>>) = 0
      BY <1>14, HeightsAre DEF NewChunk, Saved
    <3> QED
      BY <3>1 DEF SubChunkHolds
  <2> QED
    BY <2>1, <2>2, NewChunkEmpty DEF ColumnHolds
<1> QED
  BY <1>13, <1>14

-----------------------------------------------------------------------------
(* The server's view.                                                      *)

\* Subchunk by subchunk the column in memory holds what is on disk.
LEMMA HeldLayers ==
  ASSUME disk \in DiskColumns, ColumnHolds(chunk), NEW y \in Height, NEW layers,
         layers = chunk[SubChunkIndex(y)]
  PROVE  /\ layers \in Seq(Storages) /\ Len(layers) \in Nat
         /\ \A l \in Nat \ {0} : IsStored(y, l) <=> l <= Len(layers)
         /\ \A l \in 1 .. Len(layers) : ~ IsEmpty(layers[l])
         /\ \A l \in 1 .. Len(layers), c \in Cell : GetState(layers[l], c) = StoredBlock(y, c, l)
<1>1. PICK storages : storages = disk.at[y].storages
  OBVIOUS
<1>2. storages \in Seq(DiskStorages) /\ disk.saved \in BOOLEAN
  BY <1>1 DEF DiskColumns, DiskSubChunks
<1>3. layers \in Seq(Storages) /\ Len(layers) \in Nat
  <2>1. SubChunkIndex(y) \in 0 .. MaxSubChunks - 1
    BY HeightsAre
  <2> QED
    BY <2>1 DEF ColumnHolds, Columns
<1>4. SubChunkHolds(layers, Saved(y))
  BY DEF ColumnHolds
<1>5. ASSUME NEW l \in Nat \ {0} PROVE IsStored(y, l) <=> l <= Len(layers)
  <2>1. CASE disk.saved
    <3>1. Len(layers) = Len(storages) /\ DOMAIN storages = 1 .. Len(storages)
      BY <1>1, <1>2, <1>4, <2>1 DEF SubChunkHolds, Saved
    <3> QED
      BY <1>1, <1>3, <2>1, <3>1 DEF IsStored
  <2>2. CASE ~ disk.saved
    <3>1. Len(layers) = Len(<<>>)
      BY <1>4, <2>2 DEF SubChunkHolds, Saved
    <3> QED
      BY <2>2, <3>1 DEF IsStored
  <2> QED
    BY <2>1, <2>2
<1>6. ASSUME NEW l \in 1 .. Len(layers)
      PROVE  /\ ~ IsEmpty(layers[l])
             /\ \A c \in Cell : GetState(layers[l], c) = StoredBlock(y, c, l)
  <2>1. IsStored(y, l) /\ l \in 1 .. Len(storages)
    <3>1. IsStored(y, l)
      BY <1>3, <1>5
    <3> QED
      BY <1>1, <1>2, <3>1 DEF IsStored
  <2>2. PICK s, t : s = storages[l] /\ t = layers[l]
    OBVIOUS
  <2>3. s \in DiskStorages
    BY <1>2, <2>1, <2>2
  <2>4. HoldsUpTo(t, s, Cells)
    <3>1. Saved(y) = storages
      BY <1>1, <2>1 DEF IsStored, Saved
    <3> QED
      BY <1>4, <2>1, <2>2, <3>1 DEF SubChunkHolds
  <2>5. ASSUME NEW c \in Cell
        PROVE  /\ GetState(t, c) = Hash(s.palette[s.blocks[c] + 1])
               /\ s.palette[s.blocks[c] + 1] \in Blocks
    <3>1. c \in 0 .. Cells - 1
      BY DEF Cell
    <3>2. GetState(t, c) = StateAt(s, c)
      BY <2>4, <3>1 DEF HoldsUpTo
    <3>3. s.blocks[c] \in Nat /\ s.blocks[c] < Len(s.palette) /\ Len(s.palette) \in Nat
          /\ s.palette \in Seq(Blocks)
      BY <2>3, DiskStorage
    <3>4. s.blocks[c] + 1 \in 1 .. Len(s.palette)
      BY <3>3
    <3> QED
      BY <3>2, <3>3, <3>4 DEF StateAt
  <2>6. ASSUME NEW c \in Cell PROVE GetState(t, c) = StoredBlock(y, c, l)
    <3>1. StoredBlock(y, c, l) = Known(s.palette[s.blocks[c] + 1])
      BY <1>1, <2>2 DEF StoredBlock
    <3> QED
      BY <2>5, <3>1, HashIsKnown
  <2>7. ~ IsEmpty(t)
    <3>1. 0 \in Cell
      BY CellsAssumption DEF Cell
    <3>2. GetState(t, 0) # Unset
      BY <2>5, <3>1, BlocksAssumption
    <3>3. GoodStorage(t, States)
      BY <2>4, StoragesAre DEF HoldsUpTo
    <3>4. t.blocks[0] \in Nat /\ t.blocks[0] < Len(t.palette)
      BY <3>1, <3>3 DEF GoodStorage
    <3>5. ASSUME IsEmpty(t) PROVE FALSE
      <4>1. t.palette = <<Unset>>
        BY <3>5 DEF IsEmpty
      <4>2. Len(t.palette) = 1 /\ t.palette[1] = Unset
        BY <4>1
      <4>3. t.blocks[0] + 1 = 1
        BY <3>4, <4>2
      <4> QED
        BY <3>2, <4>2, <4>3 DEF GetState
    <3> QED
      BY <3>5
  <2> QED
    BY <2>2, <2>6, <2>7
<1> QED
  BY <1>3, <1>5, <1>6

\* The server's view of the column is the disk's.
LEMMA HeldAgrees ==
  ASSUME disk \in DiskColumns, ColumnHolds(chunk)
  PROVE  GetBlockAgrees
<1>1. ASSUME NEW y \in Height, NEW c \in Cell
      PROVE  GetBlock(y, c, 1) = IF IsStored(y, 1) THEN StoredBlock(y, c, 1) ELSE Air
  <2>1. PICK index, layers : index = SubChunkIndex(y) /\ layers = chunk[index]
    OBVIOUS
  <2>2. index \in DOMAIN chunk
    BY <2>1, HeightsAre DEF ColumnHolds, Columns
  <2>3. /\ layers \in Seq(Storages) /\ Len(layers) \in Nat
        /\ IsStored(y, 1) <=> 1 <= Len(layers)
        /\ \A l \in 1 .. Len(layers) : GetState(layers[l], c) = StoredBlock(y, c, l)
    BY <2>1, HeldLayers
  <2>4. CASE IsStored(y, 1)
    <3>1. layers # <<>> /\ ~ (1 > Len(layers)) /\ 1 \in 1 .. Len(layers)
      BY <2>3, <2>4
    <3>2. GetBlock(y, c, 1) = GetState(layers[1], c)
      BY <2>1, <2>2, <3>1 DEF GetBlock, Exists
    <3> QED
      BY <2>3, <2>4, <3>1, <3>2
  <2>5. CASE ~ IsStored(y, 1)
    <3>1. layers = <<>>
      BY <2>3, <2>5
    <3>2. GetBlock(y, c, 1) = Air
      BY <2>1, <3>1 DEF GetBlock, Exists
    <3> QED
      BY <2>5, <3>2
  <2> QED
    BY <2>4, <2>5
<1> QED
  BY <1>1 DEF GetBlockAgrees

-----------------------------------------------------------------------------
(* How many subchunks are sent.                                            *)

\* Numbers up to N have a largest.
LEMMA LargestOf ==
  ASSUME NEW N \in Nat, NEW S, S \subseteq 0 .. N, S # {}
  PROVE  \E x \in S : \A z \in S : z <= x
<1> DEFINE T == {N - x : x \in S}
<1>1. T \subseteq Nat /\ T # {}
  <2>1. \A x \in S : N - x \in Nat
    OBVIOUS
  <2>2. PICK x : x \in S
    OBVIOUS
  <2>3. N - x \in T
    BY <2>2
  <2> QED
    BY <2>1, <2>3
<1>2. PICK t \in T : \A u \in T : t <= u
  <2> HIDE DEF T
  <2> QED
    BY <1>1, SmallestOf
<1>3. PICK x \in S : t = N - x
  OBVIOUS
<1>4. \A z \in S : N - z \in T
  OBVIOUS
<1>5. \A z \in S : N - x <= N - z
  BY <1>2, <1>3, <1>4
<1> HIDE DEF T
<1>6. x \in Int /\ \A z \in S : z \in Int
  <2>1. \A z \in S : z \in 0 .. N
    BY ONLY S \subseteq 0 .. N
  <2> QED
    BY ONLY <2>1, x \in S, N \in Nat
<1> QED
  BY <1>5, <1>6

\* All that hold a block.
LEMMA SendCountCovers ==
  ASSUME disk \in DiskColumns, ColumnHolds(chunk)
  PROVE  /\ SendCount \in 0 .. MaxSubChunks
         /\ \A j \in 0 .. MaxSubChunks - 1 : j >= SendCount => chunk[j] = <<>>
<1> DEFINE solid == {i \in DOMAIN chunk : chunk[i] # <<>> /\ ~ IsEmptySubChunk(chunk[i])}
           last == CHOOSE i \in solid : \A j \in solid : j <= i
<1>1. MaxSubChunks \in Nat \ {0}
  BY HeightAssumption
<1>2. DOMAIN chunk = 0 .. MaxSubChunks - 1
  BY DEF ColumnHolds, Columns
<1>3. ASSUME NEW j \in 0 .. MaxSubChunks - 1, chunk[j] # <<>> PROVE j \in solid
  <2>1. PICK y, layers : y = j - Offset /\ layers = chunk[j]
    OBVIOUS
  <2>2. y \in Height /\ SubChunkIndex(y) = j
    BY <2>1, HeightsAre
  <2>3. /\ layers \in Seq(Storages) /\ Len(layers) \in Nat
        /\ \A l \in 1 .. Len(layers) : ~ IsEmpty(layers[l])
    BY <2>1, <2>2, HeldLayers
  <2>4. 1 \in DOMAIN layers /\ 1 \in 1 .. Len(layers)
    BY <1>3, <2>1, <2>3
  <2> QED
    BY <1>2, <1>3, <2>1, <2>3, <2>4 DEF IsEmptySubChunk
<1>4. SendCount = IF solid = {} THEN 0 ELSE 1 + last
  BY DEF SendCount
<1>5. CASE solid = {}
  <2>1. SendCount = 0
    BY <1>4, <1>5
  <2> QED
    BY <1>1, <1>3, <1>5, <2>1
<1>6. CASE solid # {}
  <2>1. solid \subseteq 0 .. MaxSubChunks - 1 /\ MaxSubChunks - 1 \in Nat
    BY <1>1, <1>2
  <2>2. \E x \in solid : \A z \in solid : z <= x
    <3> HIDE DEF solid
    <3> QED
      BY <1>6, <2>1, LargestOf
  <2>3. last \in solid /\ \A j \in solid : j <= last
    <3> HIDE DEF solid
    <3> QED
      BY <2>2
  <2>4. SendCount = 1 + last
    BY <1>4, <1>6
  <2> HIDE DEF last, solid
  <2>5. last \in 0 .. MaxSubChunks - 1
    BY <2>1, <2>3
  <2>6. SendCount \in 0 .. MaxSubChunks
    BY <1>1, <2>4, <2>5
  <2>7. ASSUME NEW j \in 0 .. MaxSubChunks - 1, j >= SendCount PROVE chunk[j] = <<>>
    <3>1. SUFFICES ASSUME chunk[j] # <<>> PROVE FALSE
      OBVIOUS
    <3>2. j <= last
      BY <1>3, <2>3, <3>1
    <3> QED
      BY <1>1, <2>4, <2>5, <2>7, <3>2
  <2> QED
    BY <2>6, <2>7
<1> QED
  BY <1>5, <1>6

-----------------------------------------------------------------------------
(* A layer on the wire.                                                    *)

\* The storages that were read from disk: a state for each block and the unset one.
SentStorages == {t \in Storages : Len(t.palette) \in 1 .. Cells + 1}

\* What is known of one.
LEMMA SentStorage ==
  ASSUME NEW t \in SentStorages
  PROVE  /\ t = [blocks |-> t.blocks, palette |-> t.palette]
         /\ Len(t.palette) \in Nat /\ t.palette \in Seq(States)
         /\ t.palette = [i \in 1 .. Len(t.palette) |-> t.palette[i]]
         /\ t.blocks \in [Cell -> Nat]
         /\ BitsPerBlock(Len(t.palette)) \in Widths
         /\ \A c \in Cell : t.blocks[c] < BitValue[BitsPerBlock(Len(t.palette))]
<1>1. PICK n : n = Len(t.palette)
  OBVIOUS
<1>2. GoodStorage(t, States) /\ n \in 1 .. Cells + 1
  BY <1>1, StoragesAre DEF SentStorages
<1>3. Cells \in Nat /\ BitValue[16] = 65536 /\ Cells < BitValue[16]
  BY CellsAssumption, BitValuesKnown
<1>4. n \in Nat \ {0} /\ n <= BitValue[16]
  BY <1>2, <1>3
<1>5. BitsPerBlock(n) \in Widths /\ n <= BitValue[BitsPerBlock(n)]
  BY <1>4, WidthFits
<1>6. BitValue[BitsPerBlock(n)] \in Nat
  <2>1. BitsPerBlock(n) \in 0 .. 16
    BY <1>5 DEF Widths
  <2> QED
    BY <2>1, BitValueGrows
<1>7. t.blocks \in [Cell -> Nat] /\ \A c \in Cell : t.blocks[c] < n
  BY <1>1, <1>2 DEF GoodStorage
<1>8. ASSUME NEW c \in Cell PROVE t.blocks[c] < BitValue[BitsPerBlock(n)]
  <2>1. t.blocks[c] \in Nat /\ t.blocks[c] < n
    BY <1>7
  <2> QED
    BY <1>4, <1>5, <1>6, <2>1
<1>9. t.palette \in Seq(States) /\ t.palette = [i \in 1 .. n |-> t.palette[i]]
  BY <1>1, <1>2 DEF GoodStorage
<1>10. t = [palette |-> t.palette, blocks |-> t.blocks]
  BY <1>2 DEF GoodStorage
<1>11. t = [blocks |-> t.blocks, palette |-> t.palette]
  <2>1. PICK q, b : q = t.palette /\ b = t.blocks
    OBVIOUS
  <2>2. t = [palette |-> q, blocks |-> b]
    BY <1>10, <2>1
  <2>3. t = [blocks |-> b, palette |-> q]
    BY ONLY <2>2
  <2> QED
    BY <2>1, <2>3
<1> QED
  BY <1>1, <1>4, <1>5, <1>7, <1>8, <1>9, <1>11

\* The data of a layer.
LayerIs(t, bits, d) ==
    /\ Len(d) = 3 + Len(t.palette)
    /\ d[1] = Datum("bits", bits * 2 + 1) /\ d[2] = Datum("words", Pack(t.blocks, bits))
    /\ d[3] = Datum("size", Len(t.palette))
    /\ \A i \in 1 .. Len(t.palette) : d[3 + i] = Datum("state", t.palette[i])

\* They are what serialize writes.
LEMMA LayerDataIs ==
  ASSUME NEW t \in SentStorages, NEW d, d = LayerData(t)
  PROVE  d \in Seq(Data) /\ LayerIs(t, BitsPerBlock(Len(t.palette)), d)
<1>1. PICK bits, n : n = Len(t.palette) /\ bits = BitsPerBlock(n)
  OBVIOUS
<1>2. /\ bits \in Widths /\ n \in Nat /\ t.blocks \in [Cell -> Nat]
      /\ t.palette \in Seq(States) /\ DOMAIN t.palette = 1 .. n
  BY <1>1, SentStorage
<1> DEFINE a == <<Datum("bits", bits * 2 + 1), Datum("words", Pack(t.blocks, bits)), Datum("size", n)>>
           e == [i \in DOMAIN t.palette |-> Datum("state", t.palette[i])]
<1>3. d = a \o e
  BY <1>1 DEF LayerData
<1>4. a \in Seq(Data) /\ Len(a) = 3 /\ a[1] = Datum("bits", bits * 2 + 1)
      /\ a[2] = Datum("words", Pack(t.blocks, bits)) /\ a[3] = Datum("size", n)
  <2>1. bits * 2 + 1 \in Nat
    BY <1>2 DEF Widths
  <2>2. Datum("bits", bits * 2 + 1) \in Data /\ Datum("words", Pack(t.blocks, bits)) \in Data
        /\ Datum("size", n) \in Data
    BY <1>2, <2>1, DatumType DEF Kinds
  <2> QED
    BY <2>2
<1>5. e \in Seq(Data) /\ Len(e) = n /\ \A i \in 1 .. n : e[i] = Datum("state", t.palette[i])
  <2>1. \A i \in 1 .. n : Datum("state", t.palette[i]) \in Data
    <3>1. \A i \in 1 .. n : t.palette[i] \in States
      BY <1>2
    <3> QED
      BY <3>1, DatumType DEF Kinds
  <2>2. Numbered(e, n) /\ \A i \in 1 .. n : e[i] = Datum("state", t.palette[i])
    BY <1>2 DEF Numbered
  <2> HIDE DEF e
  <2>3. \A i \in 1 .. n : e[i] \in Data
    BY <2>1, <2>2
  <2>4. e \in Seq(Data) /\ Len(e) = n
    BY <1>2, <2>2, <2>3, FunctionSeq, Zenon
  <2> QED
    BY <2>2, <2>4, Zenon
<1> HIDE DEF a, e
<1>6. Follows(Data, a, e, d)
  BY <1>3, <1>4, <1>5, OfTwo, Zenon
<1>7. /\ d \in Seq(Data) /\ Len(d) = 3 + n
      /\ d[1] = a[1] /\ d[2] = a[2] /\ d[3] = a[3]
      /\ \A i \in 1 .. n : d[3 + i] = e[i]
  BY <1>4, <1>5, <1>6 DEF Follows
<1> QED
  BY <1>1, <1>4, <1>5, <1>7 DEF LayerIs

\* The client takes a layer off the front of what is left, as it is in memory.
LEMMA ClientLayerReads ==
  ASSUME NEW t \in SentStorages, NEW rest \in Seq(Data), NEW done
  PROVE  ClientLayer([rest |-> LayerData(t) \o rest, layers |-> done])
           = [rest |-> rest, layers |-> Append(done, t)]
<1>1. PICK d, all, n, bits : /\ d = LayerData(t) /\ all = d \o rest
                             /\ n = Len(t.palette) /\ bits = BitsPerBlock(n)
  OBVIOUS
<1> DEFINE p == [rest |-> all, layers |-> done]
<1>2. d \in Seq(Data) /\ LayerIs(t, bits, d)
  BY <1>1, LayerDataIs
<1>3. Follows(Data, d, rest, all)
  BY <1>1, <1>2, OfTwo, Zenon
<1>4. SubSeq(all, Len(d) + 1, Len(all)) = rest
  BY <1>1, <1>2, RestOfTwo, Zenon
<1>5. /\ n \in Nat /\ bits \in Widths /\ t.blocks \in [Cell -> Nat]
      /\ \A c \in Cell : t.blocks[c] < BitValue[bits]
      /\ t.palette = [i \in 1 .. n |-> t.palette[i]]
      /\ t = [blocks |-> t.blocks, palette |-> t.palette]
  BY <1>1, SentStorage
<1>6. /\ Len(d) = 3 + n
      /\ d[1] = Datum("bits", bits * 2 + 1) /\ d[2] = Datum("words", Pack(t.blocks, bits))
      /\ d[3] = Datum("size", n)
      /\ \A i \in 1 .. n : d[3 + i] = Datum("state", t.palette[i])
  BY <1>1, <1>2 DEF LayerIs
<1>7. /\ all[1] = d[1] /\ all[2] = d[2] /\ all[3] = d[3] /\ all \in Seq(Data)
      /\ Len(all) \in Nat /\ Len(all) >= 3
      /\ \A i \in 1 .. n : all[3 + i] = d[3 + i]
  BY <1>3, <1>5, <1>6 DEF Follows
<1>8. /\ Head(all).v = bits * 2 + 1 /\ all[2].v = Pack(t.blocks, bits) /\ all[3].v = n
      /\ \A i \in 1 .. n : all[3 + i].v = t.palette[i]
  <2>1. Head(all) = all[1]
    BY <1>7
  <2> QED
    BY <1>6, <1>7, <2>1, DatumType DEF Kinds
<1>9. Unpack(Pack(t.blocks, bits), bits) = t.blocks
  BY <1>5, UnpackPack, CellsAssumption
<1>10. (bits * 2 + 1) \div 2 = bits
  BY <1>5 DEF Widths
<1>11. ClientLayer(p) =
         [rest |-> SubSeq(all, 4 + n, Len(all)),
          layers |-> Append(done, [blocks |-> Unpack(Pack(t.blocks, bits), bits),
                                   palette |-> [i \in 1 .. n |-> all[3 + i].v]])]
  BY <1>8, <1>10 DEF ClientLayer
<1>12. [i \in 1 .. n |-> all[3 + i].v] = t.palette
  <2>1. [i \in 1 .. n |-> all[3 + i].v] = [i \in 1 .. n |-> t.palette[i]]
    BY <1>8
  <2> QED
    BY <1>5, <2>1, Zenon
<1>13. Len(d) + 1 = 4 + n
  BY <1>5, <1>6
<1>14. ClientLayer(p) = [rest |-> rest,
                         layers |-> Append(done, [blocks |-> t.blocks, palette |-> t.palette])]
  BY <1>4, <1>9, <1>11, <1>12, <1>13
<1> QED
  BY <1>1, <1>5, <1>14

-----------------------------------------------------------------------------
(* A subchunk on the wire.                                                 *)

\* The parts from the i-th on, before what follows them all, are the i-th before the others.
LEMMA FromBefore ==
  ASSUME NEW S, NEW N \in Nat, NEW parts \in [1 .. N -> Seq(S)], NEW rest \in Seq(S)
  PROVE  /\ \A i \in 1 .. N : From(parts)[i] \o rest = parts[i] \o (From(parts)[i + 1] \o rest)
         /\ From(parts)[N + 1] \o rest = rest
         /\ \A i \in 1 .. N + 1 : From(parts)[i] \o rest \in Seq(S)
<1>1. /\ Concat(parts) = From(parts)[1]
      /\ From(parts)[N + 1] = <<>>
      /\ \A i \in 1 .. N : From(parts)[i] = parts[i] \o From(parts)[i + 1]
      /\ \A i \in 1 .. N + 1 : From(parts)[i] \in Seq(S)
  BY ConcatIs, Zenon
<1>2. ASSUME NEW i \in 1 .. N
      PROVE  From(parts)[i] \o rest = parts[i] \o (From(parts)[i + 1] \o rest)
  <2>1. PICK a, b : a = parts[i] /\ b = From(parts)[i + 1]
    OBVIOUS
  <2>2. a \in Seq(S) /\ b \in Seq(S)
    BY <1>1, <2>1
  <2>3. (a \o b) \o rest = a \o (b \o rest)
    BY ONLY <2>2, ConcatAssociative
  <2> QED
    BY <1>1, <2>1, <2>3, Zenon
<1>3. From(parts)[N + 1] \o rest = rest
  <2>1. <<>> \o rest = rest
    BY ConcatEmptySeq
  <2> QED
    BY <1>1, <2>1, Zenon
<1>4. ASSUME NEW i \in 1 .. N + 1 PROVE From(parts)[i] \o rest \in Seq(S)
  BY <1>1, ConcatProperties
<1> QED
  BY <1>2, <1>3, <1>4

\* The data of a subchunk: two for its version and its layers' number, then the layers.
LEMMA SerializedIs ==
  ASSUME NEW layers \in Seq(SentStorages), NEW parts,
         parts = [i \in DOMAIN layers |-> LayerData(layers[i])]
  PROVE  /\ parts \in [1 .. Len(layers) -> Seq(Data)]
         /\ \A i \in 1 .. Len(layers) : parts[i] = LayerData(layers[i])
         /\ Concat(parts) \in Seq(Data) /\ SerializedSubChunk(layers) \in Seq(Data)
         /\ \A rest \in Seq(Data) :
              LET all == SerializedSubChunk(layers) \o rest
              IN all[2].v = Len(layers) /\ SubSeq(all, 3, Len(all)) = Concat(parts) \o rest
<1>1. PICK N, h, body : /\ N = Len(layers)
                        /\ h = <<Datum("version", 8), Datum("count", N)>>
                        /\ body = Concat(parts)
  OBVIOUS
<1>2. N \in Nat /\ DOMAIN layers = 1 .. N /\ \A i \in 1 .. N : layers[i] \in SentStorages
  BY <1>1
<1>3. \A i \in 1 .. N : LayerData(layers[i]) \in Seq(Data)
  BY <1>2, LayerDataIs
<1>4. parts \in [1 .. N -> Seq(Data)] /\ \A i \in 1 .. N : parts[i] = LayerData(layers[i])
  BY <1>2, <1>3
<1>5. body \in Seq(Data)
  <2>1. /\ Concat(parts) = From(parts)[1]
        /\ \A i \in 1 .. N + 1 : From(parts)[i] \in Seq(Data)
    BY <1>2, <1>4, ConcatIs
  <2>2. 1 \in 1 .. N + 1
    BY <1>2
  <2> QED
    BY <1>1, <2>1, <2>2
<1>6. h \in Seq(Data) /\ Len(h) = 2 /\ h[2] = Datum("count", N)
  <2>1. Datum("version", 8) \in Data /\ Datum("count", N) \in Data
    BY <1>2, DatumType DEF Kinds
  <2> QED
    BY <1>1, <2>1
<1>7. PICK written : written = SerializedSubChunk(layers)
  OBVIOUS
<1>8. written = h \o body
  BY <1>1, <1>7 DEF SerializedSubChunk
<1>9. written \in Seq(Data)
  BY <1>5, <1>6, <1>8, ConcatProperties
<1>10. ASSUME NEW rest \in Seq(Data), NEW all, all = written \o rest
       PROVE  all[2].v = N /\ SubSeq(all, 3, Len(all)) = body \o rest
  <2>1. PICK tail : tail = body \o rest
    OBVIOUS
  <2>2. tail \in Seq(Data)
    BY <1>5, <2>1, ConcatProperties
  <2>3. all = h \o tail
    <3>1. (h \o body) \o rest = h \o (body \o rest)
      BY ONLY <1>5, <1>6, <1>10, ConcatAssociative
    <3> QED
      BY <1>8, <1>10, <2>1, <3>1, Zenon
  <2>4. Follows(Data, h, tail, all)
    BY <1>6, <2>2, <2>3, OfTwo, Zenon
  <2>5. SubSeq(all, Len(h) + 1, Len(all)) = tail
    BY <1>6, <2>2, <2>3, RestOfTwo, Zenon
  <2>6. all[2] = h[2] /\ Len(h) + 1 = 3
    BY <1>6, <2>4 DEF Follows
  <2>7. all[2].v = N
    BY <1>6, <2>6, DatumType DEF Kinds
  <2>8. SubSeq(all, 3, Len(all)) = tail
    BY <2>5, <2>6, Zenon
  <2> QED
    BY <2>1, <2>7, <2>8, Zenon
<1> QED
  BY <1>1, <1>4, <1>5, <1>7, <1>9, <1>10

\* The client takes a subchunk off the front of what is left, as it is in memory.
LEMMA ClientSubChunkReads ==
  ASSUME NEW layers \in Seq(SentStorages), NEW rest \in Seq(Data), NEW done
  PROVE  ClientSubChunk([rest |-> SerializedSubChunk(layers) \o rest, subchunks |-> done])
           = [rest |-> rest, subchunks |-> Append(done, layers)]
<1>1. PICK N, all, parts, p :
        /\ N = Len(layers) /\ all = SerializedSubChunk(layers) \o rest
        /\ parts = [i \in DOMAIN layers |-> LayerData(layers[i])]
        /\ p = [rest |-> all, subchunks |-> done]
  OBVIOUS
<1>2. /\ N \in Nat /\ DOMAIN layers = 1 .. N /\ \A i \in 1 .. N : layers[i] \in SentStorages
      /\ layers = [i \in 1 .. N |-> layers[i]]
  BY <1>1
<1>3. /\ parts \in [1 .. N -> Seq(Data)] /\ \A i \in 1 .. N : parts[i] = LayerData(layers[i])
      /\ all[2].v = N /\ SubSeq(all, 3, Len(all)) = Concat(parts) \o rest
  BY <1>1, SerializedIs
<1>4. /\ \A i \in 1 .. N : From(parts)[i] \o rest = parts[i] \o (From(parts)[i + 1] \o rest)
      /\ From(parts)[N + 1] \o rest = rest
      /\ \A i \in 1 .. N + 1 : From(parts)[i] \o rest \in Seq(Data)
  <2>1. N \in Nat /\ parts \in [1 .. N -> Seq(Data)] /\ rest \in Seq(Data)
    BY <1>2, <1>3
  <2> QED
    BY ONLY <2>1, FromBefore
<1>5. Concat(parts) = From(parts)[1]
  BY DEF Concat, From
<1> DEFINE start == [rest |-> Concat(parts) \o rest, layers |-> <<>>]
           Solves(r) == r = [n \in 0 .. N |-> IF n = 0 THEN start ELSE ClientLayer(r[n - 1])]
           g == [n \in 0 .. N |-> [rest |-> From(parts)[n + 1] \o rest,
                                   layers |-> [i \in 1 .. n |-> layers[i]]]]
           after == CHOOSE r : Solves(r)
<1>6. ClientSubChunk(p) = [rest |-> after[N].rest, subchunks |-> Append(done, after[N].layers)]
  <2>1. p.rest = all /\ p.subchunks = done
    BY <1>1
  <2> QED
    BY <1>3, <2>1 DEF ClientSubChunk
<1>7. g[0] = start
  BY <1>2, <1>5, NoNumbers
<1>8. ASSUME NEW n \in 1 .. N PROVE g[n] = ClientLayer(g[n - 1])
  <2>1. n - 1 \in 0 .. N /\ n \in 0 .. N /\ n - 1 + 1 = n /\ n + 1 \in 1 .. N + 1
    BY <1>2
  <2>2. g[n - 1] = [rest |-> From(parts)[n] \o rest, layers |-> [i \in 1 .. n - 1 |-> layers[i]]]
    BY <2>1
  <2>3. PICK t, behind, before : /\ t = layers[n] /\ behind = From(parts)[n + 1] \o rest
                                 /\ before = [i \in 1 .. n - 1 |-> layers[i]]
    OBVIOUS
  <2>4. t \in SentStorages /\ behind \in Seq(Data)
    BY <1>2, <1>4, <2>1, <2>3
  <2>5. g[n - 1] = [rest |-> LayerData(t) \o behind, layers |-> before]
    <3>1. From(parts)[n] \o rest = LayerData(t) \o behind
      BY <1>3, <1>4, <2>3
    <3> HIDE DEF g
    <3> QED
      BY <2>2, <2>3, <3>1
  <2>6. ClientLayer(g[n - 1]) = [rest |-> behind, layers |-> Append(before, t)]
    <3> HIDE DEF g
    <3> QED
      BY <2>4, <2>5, ClientLayerReads, Zenon
  <2>7. Append(before, t) = [i \in 1 .. n |-> layers[i]]
    BY <1>2, <2>3, AppendNext
  <2>8. g[n] = [rest |-> From(parts)[n + 1] \o rest, layers |-> [i \in 1 .. n |-> layers[i]]]
    BY <2>1
  <2> HIDE DEF g
  <2> QED
    BY <2>3, <2>6, <2>7, <2>8
<1>9. Solves(g)
  <2>1. ASSUME NEW n \in 0 .. N PROVE g[n] = IF n = 0 THEN start ELSE ClientLayer(g[n - 1])
    <3> HIDE DEF g
    <3>1. n = 0 \/ n \in 1 .. N
      BY <1>2
    <3> QED
      BY <1>7, <1>8, <3>1
  <2>2. g = [n \in 0 .. N |-> g[n]]
    OBVIOUS
  <2> HIDE DEF g, start
  <2> QED
    BY <2>1, <2>2
<1>10. Solves(after)
  <2> HIDE DEF Solves, g
  <2> QED
    BY <1>9
<1>11. after[N] = g[N]
  <2> HIDE DEF g, start
  <2>1. after = [n \in 0 .. N |-> IF n = 0 THEN start ELSE ClientLayer(after[n - 1])]
    BY <1>10
  <2> HIDE DEF after
  <2>2. after[0] = start /\ \A n \in 1 .. N : after[n] = ClientLayer(after[n - 1])
    <3>1. \A n \in 0 .. N : after[n] = IF n = 0 THEN start ELSE ClientLayer(after[n - 1])
      BY ONLY <2>1
    <3>2. 0 \in 0 .. N /\ \A n \in 1 .. N : n \in 0 .. N /\ n # 0
      BY <1>2
    <3> QED
      BY ONLY <3>1, <3>2
  <2>3. \A n \in 1 .. N : after[n - 1] = g[n - 1] => after[n] = g[n]
    BY <1>8, <2>2
  <2>4. Agree(N, after, g)
    BY <1>2, <1>7, <2>2, <2>3, StepwiseEqual
  <2> QED
    BY <1>2, <2>4 DEF Agree
<1>12. g[N].rest = rest /\ g[N].layers = layers
  <2>1. N \in 0 .. N
    BY <1>2
  <2>2. g[N].rest = From(parts)[N + 1] \o rest /\ g[N].layers = [i \in 1 .. N |-> layers[i]]
    BY <2>1
  <2> HIDE DEF g
  <2> QED
    BY <1>2, <1>4, <2>2, Zenon
<1> HIDE DEF g, after
<1> QED
  BY <1>1, <1>6, <1>11, <1>12

-----------------------------------------------------------------------------
(* The packet.                                                             *)

\* What a subchunk of the column is in the packet.
LEMMA SentLayers ==
  ASSUME disk \in DiskColumns, ColumnHolds(chunk), NEW j \in 0 .. MaxSubChunks - 1
  PROVE  chunk[j] \in Seq(SentStorages)
<1>1. PICK y, layers : y = j - Offset /\ layers = chunk[j]
  OBVIOUS
<1>2. y \in Height /\ SubChunkIndex(y) = j
  BY <1>1, HeightsAre
<1>3. layers \in Seq(Storages) /\ SubChunkHolds(layers, Saved(y))
  BY <1>1, <1>2 DEF ColumnHolds, Columns
<1>4. \A l \in 1 .. Len(layers) : layers[l] \in SentStorages
  BY <1>3 DEF SubChunkHolds, HoldsUpTo, SentStorages
<1> QED
  BY <1>1, <1>3, <1>4

\* What is behind the subchunks.
Behind == Biomes(SendCount) \o <<Datum("borders", 0)>>

\* It is the biomes and the border byte.
LEMMA BehindIs ==
  ASSUME SendCount \in Nat
  PROVE  /\ Biomes(SendCount) \in Seq(Data) /\ Behind \in Seq(Data)
         /\ Len(Behind) = 2 * SendCount + 1 /\ Behind[2 * SendCount + 1].kind = "borders"
         /\ \A i \in 1 .. SendCount : Behind[2 * i - 1].kind = "bits" /\ Behind[2 * i].kind = "biome"
<1>1. PICK n, m, s, t, u : /\ n = SendCount /\ m = 2 * n /\ s = Biomes(n) /\ u = Behind
                           /\ t = <<Datum("borders", 0)>>
  OBVIOUS
<1>2. n \in Nat /\ m \in Nat
  BY <1>1
<1>3. s = [i \in 1 .. m |-> IF i % 2 = 1 THEN Datum("bits", 0) ELSE Datum("biome", 1)]
  BY <1>1 DEF Biomes
<1>4. Datum("bits", 0) \in Data /\ Datum("biome", 1) \in Data /\ Datum("borders", 0) \in Data
      /\ Datum("bits", 0).kind = "bits" /\ Datum("biome", 1).kind = "biome"
      /\ Datum("borders", 0).kind = "borders"
  BY DatumType DEF Kinds
<1>5. s \in Seq(Data) /\ Len(s) = m
  <2>1. Numbered(s, m) /\ \A i \in 1 .. m : s[i] \in Data
    BY <1>3, <1>4 DEF Numbered
  <2> QED
    BY <1>2, <2>1, FunctionSeq, Zenon
<1>6. t \in Seq(Data) /\ Len(t) = 1 /\ t[1] = Datum("borders", 0)
  BY <1>1, <1>4
<1>7. Follows(Data, s, t, u)
  <2>1. u = s \o t
    BY <1>1 DEF Behind
  <2> QED
    BY <1>5, <1>6, <2>1, OfTwo, Zenon
<1>8. /\ u \in Seq(Data) /\ Len(u) = m + 1 /\ u[m + 1] = Datum("borders", 0)
      /\ \A i \in 1 .. m : u[i] = s[i]
  BY <1>5, <1>6, <1>7 DEF Follows
<1>9. ASSUME NEW i \in 1 .. n PROVE u[2 * i - 1].kind = "bits" /\ u[2 * i].kind = "biome"
  <2>1. 2 * i - 1 \in 1 .. m /\ 2 * i \in 1 .. m /\ (2 * i - 1) % 2 = 1 /\ (2 * i) % 2 # 1
    BY <1>1, <1>2
  <2>2. s[2 * i - 1] = Datum("bits", 0) /\ s[2 * i] = Datum("biome", 1)
    BY <1>3, <2>1
  <2> QED
    BY <1>4, <1>8, <2>1, <2>2
<1> QED
  BY <1>1, <1>4, <1>5, <1>8, <1>9

\* What the client makes of the packet: the column's subchunks as they are in memory,
\* and what is behind them.
LEMMA ClientReads ==
  ASSUME disk \in DiskColumns, ColumnHolds(chunk)
  PROVE  Client(Packet) = [rest |-> Behind, subchunks |-> [i \in 1 .. SendCount |-> chunk[i - 1]]]
<1>1. PICK N, tail, parts, f, p :
        /\ N = SendCount /\ tail = Behind
        /\ parts = [i \in 1 .. N |-> SerializedSubChunk(chunk[i - 1])]
        /\ f = [i \in 1 .. N |-> chunk[i - 1]]
        /\ p = Packet
  OBVIOUS
<1>2. N \in 0 .. MaxSubChunks /\ N \in Nat
  <2>1. MaxSubChunks \in Nat
    BY HeightAssumption
  <2> QED
    BY <1>1, <2>1, SendCountCovers
<1>3. \A i \in 1 .. N : f[i] = chunk[i - 1] /\ f[i] \in Seq(SentStorages)
  <2>1. ASSUME NEW i \in 1 .. N PROVE f[i] = chunk[i - 1] /\ f[i] \in Seq(SentStorages)
    <3>1. i - 1 \in 0 .. MaxSubChunks - 1
      BY <1>2, HeightAssumption
    <3>2. chunk[i - 1] \in Seq(SentStorages)
      BY <3>1, SentLayers
    <3> QED
      BY <1>1, <3>2
  <2> QED
    BY <2>1
<1>4. parts \in [1 .. N -> Seq(Data)] /\ \A i \in 1 .. N : parts[i] = SerializedSubChunk(f[i])
  <2>1. ASSUME NEW i \in 1 .. N PROVE SerializedSubChunk(f[i]) \in Seq(Data)
    <3>1. PICK layers, dataOf : layers = f[i]
                                /\ dataOf = [l \in DOMAIN layers |-> LayerData(layers[l])]
      OBVIOUS
    <3>2. layers \in Seq(SentStorages)
      BY <1>3, <3>1
    <3> QED
      BY <3>1, <3>2, SerializedIs
  <2>2. \A i \in 1 .. N : parts[i] = SerializedSubChunk(f[i])
    BY <1>1, <1>3
  <2>3. parts = [i \in 1 .. N |-> parts[i]]
    BY <1>1
  <2> QED
    BY <2>1, <2>2, <2>3
<1>5. Biomes(N) \in Seq(Data) /\ tail \in Seq(Data)
  BY <1>1, <1>2, BehindIs
<1>6. /\ \A i \in 1 .. N : From(parts)[i] \o tail = parts[i] \o (From(parts)[i + 1] \o tail)
      /\ From(parts)[N + 1] \o tail = tail
      /\ \A i \in 1 .. N + 1 : From(parts)[i] \o tail \in Seq(Data)
  <2>1. N \in Nat /\ parts \in [1 .. N -> Seq(Data)] /\ tail \in Seq(Data)
    BY <1>2, <1>4, <1>5
  <2> QED
    BY ONLY <2>1, FromBefore
<1>7. Concat(parts) = From(parts)[1] /\ Concat(parts) \in Seq(Data)
  <2>1. /\ Concat(parts) = From(parts)[1]
        /\ \A i \in 1 .. N + 1 : From(parts)[i] \in Seq(Data)
    BY <1>2, <1>4, ConcatIs
  <2>2. 1 \in 1 .. N + 1
    BY <1>2
  <2> QED
    BY <2>1, <2>2
<1>8. p.count = N /\ p.data = Concat(parts) \o tail
  <2>1. PICK a, b, e : a = Concat(parts) /\ b = Biomes(N) /\ e = <<Datum("borders", 0)>>
    OBVIOUS
  <2>2. p.count = N /\ p.data = (a \o b) \o e
    BY <1>1, <2>1 DEF Packet
  <2>3. a \in Seq(Data) /\ b \in Seq(Data) /\ e \in Seq(Data)
    <3>1. Datum("borders", 0) \in Data
      BY DatumType DEF Kinds
    <3> QED
      BY <1>5, <1>7, <2>1, <3>1
  <2>4. (a \o b) \o e = a \o (b \o e)
    BY ONLY <2>3, ConcatAssociative
  <2>5. tail = b \o e
    BY <1>1, <2>1 DEF Behind
  <2> QED
    BY <2>1, <2>2, <2>4, <2>5, Zenon
<1> DEFINE start == [rest |-> Concat(parts) \o tail, subchunks |-> <<>>]
           Solves(r) == r = [n \in 0 .. N |-> IF n = 0 THEN start ELSE ClientSubChunk(r[n - 1])]
           g == [n \in 0 .. N |-> [rest |-> From(parts)[n + 1] \o tail,
                                   subchunks |-> [i \in 1 .. n |-> f[i]]]]
           after == CHOOSE r : Solves(r)
<1>9. Client(p) = after[N]
  BY <1>8 DEF Client
<1>10. g[0] = start
  BY <1>2, <1>7, NoNumbers
<1>11. ASSUME NEW n \in 1 .. N PROVE g[n] = ClientSubChunk(g[n - 1])
  <2>1. n - 1 \in 0 .. N /\ n \in 0 .. N /\ n - 1 + 1 = n /\ n + 1 \in 1 .. N + 1
    BY <1>2
  <2>2. g[n - 1] = [rest |-> From(parts)[n] \o tail, subchunks |-> [i \in 1 .. n - 1 |-> f[i]]]
    BY <2>1
  <2>3. PICK layers, behind, before : /\ layers = f[n] /\ behind = From(parts)[n + 1] \o tail
                                      /\ before = [i \in 1 .. n - 1 |-> f[i]]
    OBVIOUS
  <2>4. layers \in Seq(SentStorages) /\ behind \in Seq(Data)
    BY <1>3, <1>6, <2>1, <2>3
  <2>5. g[n - 1] = [rest |-> SerializedSubChunk(layers) \o behind, subchunks |-> before]
    <3>1. From(parts)[n] \o tail = SerializedSubChunk(layers) \o behind
      BY <1>4, <1>6, <2>3
    <3> HIDE DEF g
    <3> QED
      BY <2>2, <2>3, <3>1
  <2>6. ClientSubChunk(g[n - 1]) = [rest |-> behind, subchunks |-> Append(before, layers)]
    <3> HIDE DEF g
    <3> QED
      BY <2>4, <2>5, ClientSubChunkReads, Zenon
  <2>7. Append(before, layers) = [i \in 1 .. n |-> f[i]]
    <3>1. DOMAIN f = 1 .. N
      BY <1>1
    <3> QED
      BY <1>2, <2>3, <3>1, AppendNext
  <2>8. g[n] = [rest |-> From(parts)[n + 1] \o tail, subchunks |-> [i \in 1 .. n |-> f[i]]]
    BY <2>1
  <2> HIDE DEF g
  <2> QED
    BY <2>3, <2>6, <2>7, <2>8
<1>12. Solves(g)
  <2>1. ASSUME NEW n \in 0 .. N PROVE g[n] = IF n = 0 THEN start ELSE ClientSubChunk(g[n - 1])
    <3> HIDE DEF g
    <3>1. n = 0 \/ n \in 1 .. N
      BY <1>2
    <3> QED
      BY <1>10, <1>11, <3>1
  <2>2. g = [n \in 0 .. N |-> g[n]]
    OBVIOUS
  <2> HIDE DEF g, start
  <2> QED
    BY <2>1, <2>2
<1>13. Solves(after)
  <2> HIDE DEF Solves, g
  <2> QED
    BY <1>12
<1>14. after[N] = g[N]
  <2> HIDE DEF g, start
  <2>1. after = [n \in 0 .. N |-> IF n = 0 THEN start ELSE ClientSubChunk(after[n - 1])]
    BY <1>13
  <2> HIDE DEF after
  <2>2. after[0] = start /\ \A n \in 1 .. N : after[n] = ClientSubChunk(after[n - 1])
    <3>1. \A n \in 0 .. N : after[n] = IF n = 0 THEN start ELSE ClientSubChunk(after[n - 1])
      BY ONLY <2>1
    <3>2. 0 \in 0 .. N /\ \A n \in 1 .. N : n \in 0 .. N /\ n # 0
      BY <1>2
    <3> QED
      BY ONLY <3>1, <3>2
  <2>3. \A n \in 1 .. N : after[n - 1] = g[n - 1] => after[n] = g[n]
    BY <1>11, <2>2
  <2>4. Agree(N, after, g)
    BY <1>2, <1>10, <2>2, <2>3, StepwiseEqual
  <2> QED
    BY <1>2, <2>4 DEF Agree
<1>15. g[N] = [rest |-> tail, subchunks |-> f]
  <2>1. N \in 0 .. N
    BY <1>2
  <2>2. g[N] = [rest |-> From(parts)[N + 1] \o tail, subchunks |-> [i \in 1 .. N |-> f[i]]]
    BY <2>1
  <2>3. f = [i \in 1 .. N |-> f[i]]
    BY <1>1
  <2> HIDE DEF g
  <2> QED
    BY <1>6, <2>2, <2>3, Zenon
<1> HIDE DEF g, after
<1> QED
  BY <1>1, <1>9, <1>14, <1>15

\* In the packet of what is in memory every block has the state it has on disk.
LEMMA PacketAgrees ==
  ASSUME disk \in DiskColumns, ColumnHolds(chunk), cache = Packet
  PROVE  StoredIsSent /\ BiomesFound
<1>1. PICK N, client : N = SendCount /\ client = Client(cache)
  OBVIOUS
<1>2. N \in 0 .. MaxSubChunks /\ N \in Nat
  <2>1. MaxSubChunks \in Nat
    BY HeightAssumption
  <2> QED
    BY <1>1, <2>1, SendCountCovers
<1>3. cache.count = N
  BY <1>1 DEF Packet
<1>4. client.rest = Behind /\ client.subchunks = [i \in 1 .. N |-> chunk[i - 1]]
  BY <1>1, ClientReads
<1> DEFINE At(y) == IF SubChunkIndex(y) < cache.count THEN client.subchunks[SubChunkIndex(y) + 1]
                    ELSE <<>>
<1>5. ASSUME NEW y \in Height PROVE At(y) = chunk[SubChunkIndex(y)]
  <2>1. PICK j : j = SubChunkIndex(y)
    OBVIOUS
  <2>2. j \in 0 .. MaxSubChunks - 1 /\ j \in Nat
    BY <2>1, HeightsAre
  <2>3. CASE j < N
    <3>1. PICK k : k = j + 1
      OBVIOUS
    <3>2. k \in 1 .. N /\ k - 1 = j
      BY <1>2, <2>2, <2>3, <3>1
    <3>3. client.subchunks[k] = chunk[k - 1]
      BY <1>4, <3>2
    <3> QED
      BY <1>3, <2>1, <2>3, <3>1, <3>2, <3>3
  <2>4. CASE ~ (j < N)
    <3>1. j >= N
      BY <1>2, <2>2, <2>4
    <3>2. chunk[j] = <<>>
      BY <1>1, <2>2, <3>1, SendCountCovers
    <3> QED
      BY <1>3, <2>1, <2>4, <3>2
  <2> QED
    BY <2>3, <2>4
<1> HIDE DEF At
<1>6. ASSUME NEW y \in Height, NEW c \in Cell, NEW layer \in 1 .. 2
      PROVE  IF IsStored(y, layer)
             THEN /\ layer <= Len(At(y))
                  /\ LET s == At(y)[layer]
                     IN s.palette[s.blocks[c] + 1] = StoredBlock(y, c, layer)
             ELSE At(y) = <<>> \/ layer > Len(At(y))
  <2>1. PICK layers : layers = chunk[SubChunkIndex(y)]
    OBVIOUS
  <2>2. layer \in Nat \ {0}
    OBVIOUS
  <2>3. /\ Len(layers) \in Nat /\ (IsStored(y, layer) <=> layer <= Len(layers))
        /\ \A l \in 1 .. Len(layers) : GetState(layers[l], c) = StoredBlock(y, c, l)
    BY <2>1, <2>2, HeldLayers
  <2>4. At(y) = layers
    BY <1>5, <2>1
  <2>5. CASE IsStored(y, layer)
    <3>1. layer \in 1 .. Len(layers)
      BY <2>2, <2>3, <2>5
    <3>2. GetState(layers[layer], c) = StoredBlock(y, c, layer)
      BY <2>3, <3>1
    <3> QED
      BY <2>3, <2>4, <2>5, <3>2 DEF GetState
  <2>6. CASE ~ IsStored(y, layer)
    <3>1. layer > Len(layers)
      BY <2>2, <2>3, <2>6
    <3> QED
      BY <2>4, <2>6, <3>1
  <2> QED
    BY <2>5, <2>6
<1>7. StoredIsSent
  BY <1>1, <1>6 DEF StoredIsSent, At
<1>8. BiomesFound
  <2>1. /\ Len(client.rest) = 2 * N + 1 /\ client.rest[2 * N + 1].kind = "borders"
        /\ \A i \in 1 .. N : client.rest[2 * i - 1].kind = "bits" /\ client.rest[2 * i].kind = "biome"
    BY <1>1, <1>2, <1>4, BehindIs
  <2> QED
    BY <1>1, <1>3, <2>1 DEF BiomesFound
<1> QED
  BY <1>7, <1>8

-----------------------------------------------------------------------------
(* The column's inductive invariant.                                       *)

\* What is in memory was read from the disk as it is, and what is cached was made of
\* what is in memory.
ColumnInv ==
    /\ disk \in DiskColumns
    /\ chunk = NotLoaded \/ chunk = ReadChunk
    /\ cache = NoPacket \/ (chunk # NotLoaded /\ cache = Packet)

\* The first state has it.
LEMMA InitColumn == ColumnInit => ColumnInv
<1> SUFFICES ASSUME ColumnInit PROVE ColumnInv
  OBVIOUS
<1>1. Missing \in DiskSubChunks
  <2>1. <<>> \in Seq(DiskStorages)
    BY EmptySeq
  <2> QED
    BY <2>1 DEF Missing, DiskSubChunks
<1>2. Stored \subseteq DiskSubChunks
  BY StoredAssumption DEF DiskSubChunks
<1> QED
  BY <1>1, <1>2 DEF ColumnInit, ColumnInv, DiskColumns

\* Every step keeps it: loading reads the disk, and the packet goes when the chunk does.
LEMMA StepColumn == ColumnInv /\ [ColumnNext]_columnVars => ColumnInv'
<1> SUFFICES ASSUME ColumnInv, [ColumnNext]_columnVars PROVE ColumnInv'
  OBVIOUS
<1>1. disk' = disk
  BY DEF ColumnNext, GenerateChunk, Serialize, Unload, columnVars
<1>2. ReadChunk' = ReadChunk
  BY <1>1 DEF ReadChunk, ReadHeight
<1>3. CASE GenerateChunk
  BY <1>1, <1>2, <1>3 DEF GenerateChunk, ColumnInv
<1>4. CASE Serialize
  <2>1. chunk' = chunk
    BY <1>4 DEF Serialize
  <2>2. Packet' = Packet
    BY <2>1 DEF Packet, SendCount
  <2> QED
    BY <1>1, <1>2, <1>4, <2>1, <2>2 DEF Serialize, ColumnInv
<1>5. CASE Unload
  BY <1>1, <1>5 DEF Unload, ColumnInv
<1>6. CASE UNCHANGED columnVars
  <2>1. chunk' = chunk /\ cache' = cache
    BY <1>6 DEF columnVars
  <2>2. Packet' = Packet
    BY <2>1 DEF Packet, SendCount
  <2> QED
    BY <1>1, <1>2, <2>1, <2>2 DEF ColumnInv
<1> QED
  BY <1>3, <1>4, <1>5, <1>6 DEF ColumnNext

\* With it every view of the column is the disk's.
LEMMA ColumnInvReads == ColumnInv => StoredIsSent /\ ViewsAgree
<1> SUFFICES ASSUME ColumnInv PROVE StoredIsSent /\ ViewsAgree
  OBVIOUS
<1>1. disk \in DiskColumns
  BY DEF ColumnInv
<1>2. chunk # NotLoaded => ColumnHolds(chunk)
  BY <1>1, ReadChunkReads DEF ColumnInv
<1>3. GetBlockAgrees
  BY <1>1, <1>2, HeldAgrees DEF GetBlockAgrees
<1>4. StoredIsSent /\ BiomesFound
  <2>1. CASE cache = NoPacket
    BY <2>1 DEF StoredIsSent, BiomesFound
  <2>2. CASE cache # NoPacket
    <3>1. chunk # NotLoaded /\ cache = Packet
      BY <2>2 DEF ColumnInv
    <3> QED
      BY <1>1, <1>2, <3>1, PacketAgrees
  <2> QED
    BY <2>1, <2>2
<1> QED
  BY <1>3, <1>4 DEF ViewsAgree

\* What a client is sent of a column is what is on disk, block by block, whichever
\* subchunks, versions, widths and palettes are there.
THEOREM StoredAlwaysSent == ColumnSpec => []StoredIsSent
<1>1. ColumnInv => StoredIsSent
  BY ColumnInvReads
<1> QED
  BY InitColumn, StepColumn, <1>1, PTL DEF ColumnSpec

\* The biomes and the border byte are right behind the last subchunk, and the
\* server's own view of a block is the disk's.
THEOREM ViewsAlwaysAgree == ColumnSpec => []ViewsAgree
<1>1. ColumnInv => ViewsAgree
  BY ColumnInvReads
<1> QED
  BY InitColumn, StepColumn, <1>1, PTL DEF ColumnSpec
=============================================================================

---------------------------- MODULE PacketCodec ----------------------------
(***************************************************************************)
(* A packet is serialised, and what its serialize wrote is deserialised,   *)
(* by the deserialize of the same class where there is one.  Of a packet   *)
(* the server only writes or only reads, the other side is the client's,   *)
(* which goes by the same layout with nothing but what it has read so far  *)
(* to decide by: the flags, counts and types must come before what they    *)
(* decide.                                                                 *)
(***************************************************************************)
EXTENDS PacketsWritten, PacketsRead
LOCAL INSTANCE SequencesExt

CONSTANT Samples  \* bound: samples of each packet

VARIABLES
    packet,  \* the name of the packet
    fields,  \* the fields it is given
    stream,  \* the tokens written
    result,  \* the reader after deserialize
    stage    \* "fresh", "written" or "read"

vars == <<packet, fields, stream, result, stage>>

WrittenLayouts ==
    [RequestNetworkSettings |-> WrittenRequestNetworkSettings,
     NetworkSettings |-> WrittenNetworkSettings, PlayStatus |-> WrittenPlayStatus,
     ServerToClientHandshake |-> WrittenServerToClientHandshake,
     Disconnect |-> WrittenDisconnect, ResourcePacksInfo |-> WrittenResourcePacksInfo,
     ResourcePackStack |-> WrittenResourcePackStack,
     ResourcePackDataInfo |-> WrittenResourcePackDataInfo,
     ResourcePackClientResponse |-> WrittenResourcePackClientResponse,
     StartGame |-> WrittenStartGame,
     AvailableActorIdentifiers |-> WrittenAvailableActorIdentifiers,
     ItemRegistry |-> WrittenItemRegistry, CreativeContent |-> WrittenCreativeContent,
     CraftingData |-> WrittenCraftingData, BiomeDefinitionList |-> WrittenBiomeDefinitionList,
     AvailableCommands |-> WrittenAvailableCommands, SetActorData |-> WrittenSetActorData,
     UpdateAbilities |-> WrittenUpdateAbilities, MovePlayer |-> WrittenMovePlayer,
     LevelSoundEvent |-> WrittenLevelSoundEvent, LevelChunk |-> WrittenLevelChunk,
     SubChunk |-> WrittenSubChunk, SubChunkRequest |-> WrittenSubChunkRequest,
     UpdateSubChunkBlocks |-> WrittenUpdateSubChunkBlocks,
     NetworkChunkPublisherUpdate |-> WrittenNetworkChunkPublisherUpdate,
     ChunkRadiusUpdate |-> WrittenChunkRadiusUpdate, SetTime |-> WrittenSetTime,
     Text |-> WrittenText, ToastRequest |-> WrittenToastRequest,
     OnScreenTextureAnimation |-> WrittenOnScreenTextureAnimation,
     ShowScreen |-> WrittenShowScreen, ShapeColor |-> WrittenShapeColor,
     ServerScriptDebugDrawer |-> WrittenServerScriptDebugDrawer]

ReadLayouts ==
    [RequestNetworkSettings |-> ReadRequestNetworkSettings,
     NetworkSettings |-> ReadNetworkSettings, PlayStatus |-> ReadPlayStatus,
     ServerToClientHandshake |-> ReadServerToClientHandshake,
     Disconnect |-> ReadDisconnect, ResourcePacksInfo |-> ReadResourcePacksInfo,
     ResourcePackStack |-> ReadResourcePackStack,
     ResourcePackDataInfo |-> ReadResourcePackDataInfo,
     ResourcePackClientResponse |-> ReadResourcePackClientResponse,
     ItemRegistry |-> ReadItemRegistry, CreativeContent |-> ReadCreativeContent,
     CraftingData |-> ReadCraftingData, BiomeDefinitionList |-> ReadBiomeDefinitionList,
     LevelChunk |-> ReadLevelChunk, SubChunk |-> ReadSubChunk,
     SubChunkRequest |-> ReadSubChunkRequest,
     UpdateSubChunkBlocks |-> ReadUpdateSubChunkBlocks,
     NetworkChunkPublisherUpdate |-> ReadNetworkChunkPublisherUpdate,
     ChunkRadiusUpdate |-> ReadChunkRadiusUpdate, SetTime |-> ReadSetTime,
     Text |-> ReadText, ToastRequest |-> ReadToastRequest,
     OnScreenTextureAnimation |-> ReadOnScreenTextureAnimation,
     ShapeColor |-> ReadShapeColor,
     CommandRequest |-> ReadCommandRequest, PlayerAuthInput |-> ReadPlayerAuthInput,
     Interact |-> ReadInteract, RequestChunkRadius |-> ReadRequestChunkRadius,
     ServerBoundLoadingScreen |-> ReadServerBoundLoadingScreen]

\* Where one side is the client's it goes by the layout of the other.
LayoutWritten(name) ==
    IF name \in DOMAIN WrittenLayouts THEN WrittenLayouts[name] ELSE ReadLayouts[name]

LayoutRead(name) ==
    IF name \in DOMAIN ReadLayouts THEN ReadLayouts[name] ELSE WrittenLayouts[name]
-----------------------------------------------------------------------------
Init ==
    /\ packet \in DOMAIN WrittenLayouts \cup DOMAIN ReadLayouts
    /\ \E n \in 1 .. Samples : fields = Sample(LayoutWritten(packet), 1, n)
    /\ stream = <<>>
    /\ result = Reader(<<>>)
    /\ stage = "fresh"

Serialize ==
    /\ stage = "fresh"
    /\ stage' = "written"
    /\ stream' = Write(LayoutWritten(packet), fields)
    /\ UNCHANGED <<packet, fields, result>>

Deserialize ==
    /\ stage = "written"
    /\ stage' = "read"
    /\ result' = Read(LayoutRead(packet), Reader(stream))
    /\ UNCHANGED <<packet, fields, stream>>

Next == Serialize \/ Deserialize

Spec == Init /\ [][Next]_vars
-----------------------------------------------------------------------------
\* The NBT between the items is not skipped when they are read.
Definitions == IF packet = "ItemRegistry" THEN Len(fields.definitions) ELSE 0

TooManyBlobs ==
    /\ packet \in {"LevelChunk", "SubChunk"} /\ fields.cacheEnabled = 1
    /\ Len(fields.blobs) > 64

\* The fields but for what is not read back: an item's properties, and the upper half
\* of the tick a player moved at.
Kept ==
    CASE packet = "ItemRegistry" ->
           [fields EXCEPT !.definitions =
              [i \in DOMAIN @ |-> [@[i] EXCEPT !.propertiesNbt = 0]]]
      [] packet = "MovePlayer" -> [fields EXCEPT !.tickUpperHalf = 0]
      [] OTHER -> fields

\* deserialize gives every field it keeps the value serialize wrote for it, whichever
\* optional parts, types and counts the packet has.  What is written and yet not
\* read back is an item registry beyond its first item and a chunk with more than 64
\* blobs.
RoundTrip ==
    stage = "read" =>
       IF Definitions > 1 \/ TooManyBlobs THEN ~ result.ok
       ELSE result.ok /\ result.r = Kept

\* Everything written is read: what follows the packet in its batch is found
\* where its length says.  Left over are only the closing flag of the biome
\* definitions, which their deserialize does not read, and the NBT of an item.
NothingLeft ==
    stage = "read" /\ result.ok =>
       Len(result.rest) = IF packet = "BiomeDefinitionList" THEN 1 ELSE Definitions

\* A shape as read by the payload type it announces, 5 being "Sphere or circle".
AnnouncedShape ==
    LET OfPayloadType(type) == When("payloadType", {PayloadType(type)}, Payload(type))
    IN ShapeHead \o Choice("varInt32", "payloadType", <<0, 1, 2, 3, 4, 5>>)
         \o OfPayloadType(Arrow) \o OfPayloadType(Box) \o OfPayloadType(Line)
         \o OfPayloadType(Sphere) \o OfPayloadType(ShapeText)

\* The payload type a shape announces tells what its payload is: the case of the
\* sphere, serverScriptDebugDrawer.hpp:139, is to serve the circle as well.
AnnouncedPayload ==
    stage = "written" /\ packet = "ServerScriptDebugDrawer" =>
       Read(List("varInt32", "shapes", AnnouncedShape), Reader(stream)).ok
=============================================================================

---------------------------- MODULE PacketsRead ----------------------------
(***************************************************************************)
(* The deserialize of every packet that has one, in the order of its calls.*)
(***************************************************************************)
EXTENDS PacketFormat

LOCAL One(kind) == Fields(kind, <<"value">>)

ReadVec3f == Fields("float32LE", <<"x", "y", "z">>)

ReadVec2f == Fields("float32LE", <<"x", "z">>)

ReadChunkCoords == Fields("zigZag32", <<"x", "z">>)

ReadBlockLocation ==
    Fields("zigZag32", <<"x">>) \o Fields("varInt32", <<"y">>) \o Fields("zigZag32", <<"z">>)
-----------------------------------------------------------------------------
(* What clients send.                                                      *)

ReadRequestNetworkSettings == Fields("uint32", <<"clientNetworkVersion">>)

ReadResourcePackClientResponse ==
    Fields("uint8", <<"response">>) \o List("uint16LE", "packs", Joined("uuid", "version"))

\* Player 0, devConsole 1, test 2, automationPlayer 3; any other name throws.
ReadCommandOrigin ==
    Choice("string", "type", <<0, 1, 2, 3>>) \o Fields("uuid", <<"uuid">>)
      \o Fields("string", <<"requestId">>)
      \o When("type", {1, 2}, Fields("zigZag64", <<"playerEntityId">>))

ReadCommandRequest ==
    Fields("string", <<"command">>) \o Struct("origin", ReadCommandOrigin)
      \o Fields("bool", <<"internal">>) \o Fields("string", <<"version">>)

ReadPlayerAuthInput ==
    Fields("float32LE", <<"pitch", "yaw">>) \o Struct("position", ReadVec3f)

ReadInteract == Fields("uint8", <<"actionId">>) \o Fields("varInt32", <<"targetEntityId">>)

ReadRequestChunkRadius ==
    Fields("zigZag32", <<"chunkRadius">>) \o Fields("uint8", <<"maxChunkRadius">>)

ReadServerBoundLoadingScreen ==
    Fields("varInt32", <<"loadingScreenType">>) \o Fields("uint32", <<"loadingScreenId">>)

ReadSubChunkRequest ==
    Fields("zigZag32", <<"dimension">>)
      \o List("varInt32", "requests",
              Struct("coords", ReadChunkCoords) \o Fields("uint8", <<"minIndex", "maxIndex">>))

ReadText ==
    Fields("bool", <<"localize">>) \o Choice("varInt32", "contentType", <<0, 1, 2>>)
      \o When("contentType", {0},
              Fields("uint8", <<"messageType">>) \o Fields("string", <<"message">>))
      \o When("contentType", {1},
              Fields("uint8", <<"messageType">>) \o Fields("string", <<"playerName", "message">>))
      \o When("contentType", {2},
              Fields("uint8", <<"messageType">>) \o Fields("string", <<"message">>)
                \o List("varInt32", "parameters", One("string")))
      \o Fields("string", <<"xuid", "platformChatId">>)
      \o Optional("hasFilteredMessage", Fields("string", <<"filteredMessage">>))
-----------------------------------------------------------------------------
ReadNetworkSettings ==
    Fields("uint16LE", <<"compressionThreshold", "compressionAlgorithm">>)
      \o Fields("uint8", <<"clientThrottleEnabled", "clientThrottleThreshold">>)
      \o Fields("float32LE", <<"clientThrottleScalar">>)

ReadPlayStatus == Fields("int32", <<"status">>)

ReadServerToClientHandshake == Fields("string", <<"token">>)

ReadDisconnect ==
    Fields("varInt32", <<"reason">>) \o Choice("uint8", "hideDisconnectScreen", <<0, 1>>)
      \o When("hideDisconnectScreen", {0}, Fields("string", <<"message">>))

ReadResourcePackDescriptor ==
    Fields("uuid", <<"uuid">>) \o Fields("string", <<"version">>)
      \o Fields("uint64LE", <<"size">>)
      \o Fields("string", <<"contentKey", "subpackName", "contentIdentity">>)
      \o Fields("bool", <<"hasScripts", "isAddonPack", "hasRtxCapabilities">>)
      \o Fields("string", <<"cdnUrl">>)

ReadResourcePacksInfo ==
    Fields("bool", <<"mustAccept", "hasAddons", "hasScripts", "forceDisableVibrantVisuals">>)
      \o Fields("uuid", <<"worldTemplateUuid">>) \o Fields("string", <<"worldTemplateVersion">>)
      \o List("uint16LE", "packs", ReadResourcePackDescriptor)

ReadResourcePackStack ==
    Fields("bool", <<"mustAccept">>)
      \o List("varInt32", "texturePacks", Fields("string", <<"uuid", "version", "name">>))
      \o Fields("string", <<"gameVersion">>)
      \o List("uint32LE", "experiments",
              Fields("string", <<"name">>) \o Fields("bool", <<"enabled">>))
      \o Fields("bool", <<"experimentsPreviouslyToggled", "hasEditorPacks">>)

ReadResourcePackDataInfo ==
    Fields("string", <<"resourceName">>) \o Fields("uint32LE", <<"chunkSize", "numberOfChunks">>)
      \o Fields("uint64LE", <<"fileSize">>) \o Fields("string", <<"fileHash">>)
      \o Fields("bool", <<"isPremiumPack">>) \o Fields("uint8", <<"packType">>)

\* The NBT of the item is left where it is, and its properties are cleared.
ReadItemData ==
    Fields("string", <<"identifier">>) \o Fields("uint16LE", <<"networkId">>)
      \o Fields("bool", <<"isComponentBased">>) \o Fields("zigZag32", <<"itemVersion">>)
      \o Lost("propertiesNbt")

ReadItemRegistry == List("varInt32", "definitions", ReadItemData)

ReadItemInstance ==
    Choice("zigZag32", "networkId", <<0, 1, -1>>)
      \o When("networkId", {1, -1},
              Fields("uint16LE", <<"stackSize">>) \o Fields("varInt32", <<"metadata">>)
                \o Fields("zigZag32", <<"networkBlockId">>)
                \o List("varInt32", "extras", One("uint8")))

ReadCreativeContent ==
    List("varInt32", "groups",
         Fields("uint32LE", <<"category">>) \o Fields("string", <<"name">>)
           \o Struct("icon", ReadItemInstance))
      \o List("varInt32", "items",
              Fields("varInt32", <<"itemIndex">>) \o Struct("itemInstance", ReadItemInstance)
                \o Fields("varInt32", <<"groupIndex">>))

\* The counts are ignored.
ReadCraftingData ==
    Skipped("varInt32") \o Skipped("varInt32") \o Skipped("varInt32")
      \o Skipped("varInt32") \o Fields("bool", <<"clearRecipes">>)

ReadBiomeDefinition ==
    Fields("uint16LE", <<"identifier">>)
      \o Fields("float32LE", <<"temperature", "downfall", "snowFoliage", "depth", "scale">>)
      \o Struct("waterColor", Fields("uint8", <<"red", "green", "blue", "alpha">>))
      \o Fields("bool", <<"canRain">>) \o ListIfAny("varInt32", "tagIndices", One("uint16LE"))
      \o Fields("bool", <<"hasClientSidedChunkGeneration">>)

ReadBiomeDefinitionList ==
    List("varInt32", "definitions",
         Fields("uint16LE", <<"identifierIndex">>) \o Struct("definition", ReadBiomeDefinition))
      \o List("varInt32", "identifiers", One("string"))
-----------------------------------------------------------------------------
\* More than 64 blobs throw.
ReadBlobsAndData ==
    Choice("bool", "cacheEnabled", <<0, 1, 1>>)
      \o When("cacheEnabled", {1},
              ListUpTo(64, <<>>, "varInt32", "blobs", One("uint64LE")))
      \o List("varInt32", "data", One("uint8"))

\* Mutant of ReadLevelChunk: the highest sub chunk is not read.
ReadLevelChunkWithoutHighest ==
    Fields("zigZag32", <<"x", "z", "dimension">>)
      \o Choice("varInt32", "subChunkCount", <<-2, 0, 24>>) \o ReadBlobsAndData

ReadLevelChunk ==
    Fields("zigZag32", <<"x", "z", "dimension">>)
      \o Choice("varInt32", "subChunkCount", <<-2, 0, 24>>)
      \o When("subChunkCount", {-2}, Fields("uint16LE", <<"highestSubChunkCount">>))
      \o ReadBlobsAndData

ReadSubChunk ==
    Fields("zigZag32", <<"x", "z", "dimension">>) \o Fields("uint8", <<"subChunkIndex">>)
      \o ReadBlobsAndData

ReadUpdateSubChunkBlocks ==
    Fields("zigZag32", <<"x", "z", "dimension">>) \o Fields("uint8", <<"subChunkIndex">>)
      \o List("varInt32", "changes",
              Fields("uint8", <<"bx", "by", "bz">>) \o Fields("zigZag32", <<"state">>))

ReadNetworkChunkPublisherUpdate ==
    Struct("coordinate", ReadBlockLocation) \o Fields("varInt32", <<"radius">>)
      \o List("uint32LE", "savedChunks", ReadChunkCoords)

ReadChunkRadiusUpdate == Fields("zigZag32", <<"radius">>)

ReadSetTime == Fields("varInt32", <<"time">>)

ReadToastRequest == Fields("string", <<"title", "content">>)

ReadOnScreenTextureAnimation == Fields("uint32", <<"effectId">>)

ReadShapeColor == Packed("uint32LE", <<"alpha", "red", "green", "blue">>)
=============================================================================

--------------------------- MODULE PacketsWritten ---------------------------
(***************************************************************************)
(* The serialize of every packet that has one, in the order of its calls.  *)
(***************************************************************************)
EXTENDS PacketFormat

LOCAL One(kind) == Fields(kind, <<"value">>)

WrittenVec3f == Fields("float32LE", <<"x", "y", "z">>)

WrittenVec2f == Fields("float32LE", <<"x", "z">>)

WrittenChunkCoords == Fields("zigZag32", <<"x", "z">>)

WrittenBlockLocation ==
    Fields("zigZag32", <<"x">>) \o Fields("varInt32", <<"y">>) \o Fields("zigZag32", <<"z">>)
-----------------------------------------------------------------------------
WrittenRequestNetworkSettings == Fields("uint32", <<"clientNetworkVersion">>)

WrittenNetworkSettings ==
    Fields("uint16LE", <<"compressionThreshold", "compressionAlgorithm">>)
      \o Fields("uint8", <<"clientThrottleEnabled", "clientThrottleThreshold">>)
      \o Fields("float32LE", <<"clientThrottleScalar">>)

WrittenPlayStatus == Fields("int32", <<"status">>)

WrittenServerToClientHandshake == Fields("string", <<"token">>)

WrittenDisconnect ==
    Fields("varInt32", <<"reason">>) \o Choice("uint8", "hideDisconnectScreen", <<0, 1>>)
      \o When("hideDisconnectScreen", {0}, Fields("string", <<"message">>))

WrittenResourcePackDescriptor ==
    Fields("uuid", <<"uuid">>) \o Fields("string", <<"version">>)
      \o Fields("uint64LE", <<"size">>)
      \o Fields("string", <<"contentKey", "subpackName", "contentIdentity">>)
      \o Fields("bool", <<"hasScripts", "isAddonPack", "hasRtxCapabilities">>)
      \o Fields("string", <<"cdnUrl">>)

WrittenResourcePacksInfo ==
    Fields("bool", <<"mustAccept", "hasAddons", "hasScripts", "forceDisableVibrantVisuals">>)
      \o Fields("uuid", <<"worldTemplateUuid">>) \o Fields("string", <<"worldTemplateVersion">>)
      \o List("uint16LE", "packs", WrittenResourcePackDescriptor)

WrittenResourcePackStack ==
    Fields("bool", <<"mustAccept">>)
      \o List("varInt32", "texturePacks", Fields("string", <<"uuid", "version", "name">>))
      \o Fields("string", <<"gameVersion">>)
      \o List("uint32LE", "experiments",
              Fields("string", <<"name">>) \o Fields("bool", <<"enabled">>))
      \o Fields("bool", <<"experimentsPreviouslyToggled", "hasEditorPacks">>)

WrittenResourcePackDataInfo ==
    Fields("string", <<"resourceName">>) \o Fields("uint32LE", <<"chunkSize", "numberOfChunks">>)
      \o Fields("uint64LE", <<"fileSize">>) \o Fields("string", <<"fileHash">>)
      \o Fields("bool", <<"isPremiumPack">>) \o Fields("uint8", <<"packType">>)

WrittenResourcePackClientResponse ==
    Fields("uint8", <<"response">>) \o List("uint16LE", "packs", Joined("uuid", "version"))
-----------------------------------------------------------------------------
\* The value of a game rule is written by its type.
WrittenGameRule ==
    Fields("string", <<"name">>) \o Fields("bool", <<"editable">>)
      \o Choice("varInt32", "type", <<1, 2, 3>>)
      \o When("type", {1}, One("bool")) \o When("type", {2}, One("zigZag32"))
      \o When("type", {3}, One("float32LE"))

StartGameWorld ==
    Fields("zigZag64", <<"entityId">>) \o Fields("varInt64", <<"runtimeEntityId">>)
      \o Fields("zigZag32", <<"playerGameMode">>) \o Struct("playerPosition", WrittenVec3f)
      \o Struct("rotation", WrittenVec2f) \o Fields("uint64LE", <<"seed">>)
      \o Fields("int16LE", <<"biomeType">>) \o Fields("string", <<"biomeName">>)
      \o Fields("zigZag32", <<"dimension", "generator", "worldGameMode">>)
      \o Fields("bool", <<"hardcore">>) \o Fields("zigZag32", <<"difficulty">>)
      \o Struct("spawnPosition", WrittenBlockLocation) \o Fields("bool", <<"achievementsDisabled">>)
      \o Fields("zigZag32", <<"editorWorldType">>)
      \o Fields("bool", <<"createdInEditor", "exportedFromEditor">>)
      \o Fields("zigZag32", <<"dayCycleStopTime", "eduOffer">>)
      \o Fields("bool", <<"eduFeaturesEnabled">>) \o Fields("string", <<"eduProductUuid">>)
      \o Fields("float32LE", <<"rainLevel", "lightningLevel">>)
      \o Fields("bool", <<"hasConfirmedPlatformLockedContent", "isMultiplayer", "broadcastToLan">>)
      \o Fields("varInt32", <<"xboxLiveBroadcastMode", "platformBroadcastMode">>)
      \o Fields("bool", <<"enableCommands", "isTexturepacksRequired">>)

StartGameRules ==
    List("varInt32", "gameRules", WrittenGameRule)
      \o List("int32LE", "experiments",
              Fields("string", <<"first">>) \o Fields("bool", <<"second">>))
      \o Fields("bool", <<"experimentsPreviouslyUsed", "bonusChest", "mapEnabled">>)
      \o Fields("uint8", <<"permissionLevel">>) \o Fields("int32LE", <<"serverChunkTickRange">>)
      \o Fields("bool", <<"hasLockedBehaviorPack", "hasLockedResourcePack",
                          "isFromLockedWorldTemplate", "msaGamertasOnly", "isFromWorldTemplate",
                          "isWorldTemplateOptionLocked", "onlySpawnV1Villagers",
                          "personaDisabled", "customSkinsDisabled", "emoteChatMuted">>)
      \o Fields("string", <<"gameVersion">>)
      \o Fields("int32LE", <<"limitedWorldWidth", "limitedWorldLength">>)
      \o Fields("bool", <<"isNewNether">>) \o Fields("string", <<"buttonName", "linkUri">>)
      \o Fields("bool", <<"experimentalGameplayOverride">>)
      \o Fields("uint8", <<"chatRestrictionLevel">>)
      \o Fields("bool", <<"disablePlayerInteractions">>)
      \o Fields("string", <<"levelId", "worldName", "premiumWorldTemplateId">>)

\* The join info is gathered only where it is contained.
WrittenJoinInfo ==
    Choice("bool", "containsJoinInfo", <<0, 1>>)
      \o When("containsJoinInfo", {1},
              Choice("bool", "gatherJoinInfo", <<0, 1, 1>>)
                \o When("gatherJoinInfo", {1},
                        Fields("string", <<"experienceId", "experienceName", "experienceWorldId",
                                           "experienceWorldName", "experienceCreatorId",
                                           "experienceStoreId">>)))

\* An empty propertyData is written as the NBT of an empty compound.
WrittenStartGame ==
    StartGameWorld \o StartGameRules
      \o Fields("bool", <<"isTrial">>) \o Fields("zigZag32", <<"rewindHistorySize">>)
      \o Fields("bool", <<"serverAuthoritativeBlockBreaking">>)
      \o Fields("int64LE", <<"currentTick">>) \o Fields("zigZag32", <<"enchantmentSeed">>)
      \o List("varInt32", "blockProperties",
              Fields("string", <<"name">>) \o Fields("nbt", <<"stateNbt">>))
      \o Fields("string", <<"multiplayerCorrelationId">>)
      \o Fields("bool", <<"serverAuthoritativeInventory">>) \o Fields("string", <<"engine">>)
      \o Fields("nbt", <<"propertyData">>) \o Fields("uint64LE", <<"blockPaletteChecksum">>)
      \o Fields("bytes16", <<"worldTemplateId">>)
      \o Fields("bool", <<"clientSideGeneration", "blockNetworkIdsAreHashes",
                          "serverControlledSound">>)
      \o WrittenJoinInfo
      \o Fields("string", <<"serverId", "scenarioId", "worldId", "ownerId">>)
-----------------------------------------------------------------------------
WrittenAvailableActorIdentifiers ==
    Constant("nbt", 0)  \* a compound with an empty list "idlist"

\* Without properties, 0, the NBT of an empty compound is written.
WrittenItemData ==
    Fields("string", <<"identifier">>) \o Fields("uint16LE", <<"networkId">>)
      \o Fields("bool", <<"isComponentBased">>) \o Fields("zigZag32", <<"itemVersion">>)
      \o Choice("nbt", "propertiesNbt", <<0, 1>>)

WrittenItemRegistry == List("varInt32", "definitions", WrittenItemData)

\* Nothing follows the id of an empty item.
WrittenItemInstance ==
    Choice("zigZag32", "networkId", <<0, 1, -1>>)
      \o When("networkId", {1, -1},
              Fields("uint16LE", <<"stackSize">>) \o Fields("varInt32", <<"metadata">>)
                \o Fields("zigZag32", <<"networkBlockId">>)
                \o List("varInt32", "extras", One("uint8")))

WrittenCreativeContent ==
    List("varInt32", "groups",
         Fields("uint32LE", <<"category">>) \o Fields("string", <<"name">>)
           \o Struct("icon", WrittenItemInstance))
      \o List("varInt32", "items",
              Fields("varInt32", <<"itemIndex">>) \o Struct("itemInstance", WrittenItemInstance)
                \o Fields("varInt32", <<"groupIndex">>))

WrittenCraftingData ==
    Constant("varInt32", 0) \o Constant("varInt32", 0) \o Constant("varInt32", 0)
      \o Constant("varInt32", 0) \o Fields("bool", <<"clearRecipes">>)

\* The tag indices come with a flag, false when there are none.
WrittenBiomeDefinition ==
    Fields("uint16LE", <<"identifier">>)
      \o Fields("float32LE", <<"temperature", "downfall", "snowFoliage", "depth", "scale">>)
      \o Struct("waterColor", Fields("uint8", <<"red", "green", "blue", "alpha">>))
      \o Fields("bool", <<"canRain">>) \o ListIfAny("varInt32", "tagIndices", One("uint16LE"))
      \o Fields("bool", <<"hasClientSidedChunkGeneration">>)

WrittenBiomeDefinitionList ==
    List("varInt32", "definitions",
         Fields("uint16LE", <<"identifierIndex">>) \o Struct("definition", WrittenBiomeDefinition))
      \o List("varInt32", "identifiers", One("string")) \o Constant("bool", 0)
-----------------------------------------------------------------------------
WrittenNamedList(kind) == Fields("string", <<"name">>) \o List("varInt32", "values", One(kind))

WrittenChainedSubcommand ==
    Fields("string", <<"name">>)
      \o List("varInt32", "values", Fields("uint16LE", <<"index", "value">>))

WrittenEnumConstraint ==
    Fields("uint32LE", <<"valueIndex", "enumIndex">>)
      \o List("varInt32", "constraints", One("uint8"))

\* The two types of a parameter share an integer.
WrittenParameter ==
    Fields("string", <<"parameterName">>)
      \o Packed("uint32LE", <<"commandEnumType", "commandValueType">>)
      \o Fields("bool", <<"optional">>) \o Fields("uint8", <<"options">>)

WrittenCommandData ==
    Fields("string", <<"name", "description">>) \o Fields("uint16LE", <<"flags">>)
      \o Fields("string", <<"permissionLevel">>) \o Fields("int32LE", <<"alias">>)
      \o List("varInt32", "chainedSubcommandOffsets", One("uint16LE"))
      \o List("varInt32", "overloads",
              Fields("bool", <<"chaining">>) \o List("varInt32", "parameters", WrittenParameter))

WrittenAvailableCommands ==
    List("varInt32", "enumValues", One("string"))
      \o List("varInt32", "chainedSubcommandValues", One("string"))
      \o List("varInt32", "suffixes", One("string"))
      \o List("varInt32", "enums", WrittenNamedList("uint32LE"))
      \o List("varInt32", "chainedSubcommands", WrittenChainedSubcommand)
      \o List("varInt32", "commandData", WrittenCommandData)
      \o List("varInt32", "dynamicEnums", WrittenNamedList("string"))
      \o List("varInt32", "enumConstraints", WrittenEnumConstraint)
-----------------------------------------------------------------------------
\* The value is written by its type; Compound (5) throws and is never written.
WrittenMetaData ==
    LET Typed(type, format) == When("type", {type}, format)
    IN Fields("varInt32", <<"key">>) \o Choice("varInt32", "type", <<0, 1, 2, 3, 4, 6, 7, 8>>)
         \o Typed(0, One("uint8")) \o Typed(1, One("int16LE")) \o Typed(2, One("zigZag32"))
         \o Typed(3, One("float32LE")) \o Typed(4, One("string"))
         \o Typed(6, Struct("value", WrittenBlockLocation)) \o Typed(7, One("zigZag64"))
         \o Typed(8, Struct("value", WrittenVec3f))

WrittenSetActorData ==
    Fields("varInt64", <<"runtimeEntityId">>) \o List("varInt32", "metaData", WrittenMetaData)
      \o List("varInt32", "ints", One("zigZag32")) \o List("varInt32", "floats", One("float32LE"))
      \o Fields("varInt64", <<"tick">>)

WrittenUpdateAbilities ==
    Fields("int64LE", <<"entityUniqueId">>)
      \o Fields("uint8", <<"permissionLevel", "commandPermissionLevel">>)
      \o List("uint8", "abilityLayers",
              Fields("uint16LE", <<"type">>)
                \o Fields("uint32LE", <<"allowedAbilities", "enabledAbilities">>)
                \o Fields("float32LE", <<"flySpeed", "verticalFlySpeed", "walkSpeed">>))

\* A teleport (2) has its cause with it.  Of the int64 tick the lower half is written.
WrittenMovePlayer ==
    Fields("varInt32", <<"runtimeId">>) \o Struct("position", WrittenVec3f)
      \o Fields("float32LE", <<"pitch", "yaw", "headYaw">>)
      \o Choice("uint8", "mode", <<0, 1, 2, 3>>) \o Fields("bool", <<"onGround">>)
      \o Fields("varInt32", <<"riddenRuntimeId">>)
      \o When("mode", {2}, Fields("int32LE", <<"teleportCause", "sourceEntityType">>))
      \o Fields("varInt32", <<"tick">>) \o Lost("tickUpperHalf")

WrittenLevelSoundEvent ==
    Fields("varInt32", <<"eventId">>) \o Struct("position", WrittenVec3f)
      \o Fields("zigZag32", <<"data">>) \o Fields("string", <<"actorIdentifier">>)
      \o Fields("bool", <<"isBaby", "isGlobal">>) \o Fields("int64LE", <<"actorUniqueId">>)
-----------------------------------------------------------------------------
\* Whether there are blobs, any number of them, and the data.
WrittenBlobsAndData ==
    Choice("bool", "cacheEnabled", <<0, 1, 1>>)
      \o When("cacheEnabled", {1},
              ListUpTo(MaxInt32, <<0, 1, 64, 65>>, "varInt32", "blobs", One("uint64LE")))
      \o List("varInt32", "data", One("uint8"))

\* A count of -2 leaves the sub chunks to be asked for, up to the highest.
WrittenLevelChunk ==
    Fields("zigZag32", <<"x", "z", "dimension">>)
      \o Choice("varInt32", "subChunkCount", <<-2, 0, 24>>)
      \o When("subChunkCount", {-2}, Fields("uint16LE", <<"highestSubChunkCount">>))
      \o WrittenBlobsAndData

WrittenSubChunk ==
    Fields("zigZag32", <<"x", "z", "dimension">>) \o Fields("uint8", <<"subChunkIndex">>)
      \o WrittenBlobsAndData

WrittenSubChunkRequest ==
    Fields("zigZag32", <<"dimension">>)
      \o List("varInt32", "requests",
              Struct("coords", WrittenChunkCoords) \o Fields("uint8", <<"minIndex", "maxIndex">>))

WrittenUpdateSubChunkBlocks ==
    Fields("zigZag32", <<"x", "z", "dimension">>) \o Fields("uint8", <<"subChunkIndex">>)
      \o List("varInt32", "changes",
              Fields("uint8", <<"bx", "by", "bz">>) \o Fields("zigZag32", <<"state">>))

WrittenNetworkChunkPublisherUpdate ==
    Struct("coordinate", WrittenBlockLocation) \o Fields("varInt32", <<"radius">>)
      \o List("uint32LE", "savedChunks", WrittenChunkCoords)

WrittenChunkRadiusUpdate == Fields("zigZag32", <<"radius">>)

WrittenSetTime == Fields("varInt32", <<"time">>)
-----------------------------------------------------------------------------
\* The type of content decides what goes with the message.
WrittenText ==
    Fields("bool", <<"localize">>) \o Choice("varInt32", "contentType", <<0, 1, 2>>)
      \o When("contentType", {0},
              Fields("uint8", <<"messageType">>) \o Fields("string", <<"message">>))
      \o When("contentType", {1},
              Fields("uint8", <<"messageType">>) \o Fields("string", <<"playerName", "message">>))
      \o When("contentType", {2},
              Fields("uint8", <<"messageType">>) \o Fields("string", <<"message">>)
                \o List("varInt32", "parameters", One("string")))
      \o Fields("string", <<"xuid", "platformChatId">>)
      \o Optional("hasFilteredMessage", Fields("string", <<"filteredMessage">>))

WrittenToastRequest == Fields("string", <<"title", "content">>)

WrittenOnScreenTextureAnimation == Fields("uint32", <<"effectId">>)

WrittenShowScreen == Fields("string", <<"screenId">>)

Line == 0
Box == 1
Sphere == 2
Circle == 3
ShapeText == 4
Arrow == 5

\* Per type of shape the payload's type and the payload.  A box or a line that
\* was not given is written as zeros, a text as the empty one.
PayloadType(type) ==
    CASE type = Arrow -> 1 [] type = ShapeText -> 2 [] type = Box -> 3
      [] type = Line -> 4 [] type \in {Sphere, Circle} -> 5

Payload(type) ==
    CASE type = Arrow ->
           Optional("hasLineEnd", Struct("lineEndLocation", WrittenVec3f))
             \o Optional("hasHeadLength", Fields("float32LE", <<"arrowHeadLength">>))
             \o Optional("hasHeadRadius", Fields("float32LE", <<"arrowHeadRadius">>))
             \o Optional("hasSegments", Fields("uint8", <<"numSegments">>))
      [] type = Box       -> Struct("boxBound", WrittenVec3f)
      [] type = Line      -> Struct("lineEndLocation", WrittenVec3f)
      [] type = Sphere    -> Fields("uint8", <<"numSegments">>)
      [] type = ShapeText -> Fields("string", <<"text">>)
      [] type = Circle    -> <<>>

WrittenShapeColor == Packed("uint32LE", <<"alpha", "red", "green", "blue">>)

ShapeHead ==
    Fields("zigZag64", <<"runtimeId">>)
      \o Optional("hasType",
                  Choice("uint8", "type", <<Line, Box, Sphere, Circle, ShapeText, Arrow>>))
      \o Optional("hasLocation", Struct("location", WrittenVec3f))
      \o Optional("hasScale", Fields("float32LE", <<"scale">>))
      \o Optional("hasRotation", Struct("rotation", WrittenVec3f))
      \o Optional("hasTimeLeft", Fields("float32LE", <<"totalTimeLeft">>))
      \o Optional("hasColor", Struct("color", WrittenShapeColor))
      \o Fields("varInt32", <<"dimension">>)

WrittenShape ==
    LET OfType(type) ==
            When("type", {type}, Constant("varInt32", PayloadType(type)) \o Payload(type))
    IN ShapeHead \o When("hasType", {0}, Constant("varInt32", 0))
         \o OfType(Arrow) \o OfType(Box) \o OfType(Line) \o OfType(Sphere)
         \o OfType(Circle) \o OfType(ShapeText)

WrittenServerScriptDebugDrawer == List("varInt32", "shapes", WrittenShape)
=============================================================================

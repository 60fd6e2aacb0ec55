----------------------- MODULE ClientConnection_proofs -----------------------
(***************************************************************************)
(* The client from its first datagram into the game, for every set of view *)
(* distances, request sizes and every bound: both sides agree on the       *)
(* framing, the game is set up before anything of it is sent, a client of  *)
(* an old connection reads nothing, and the datagrams pass the path.       *)
(*                                                                         *)
(* The session's properties are about packets that were sent long before;  *)
(* what carries them is where the conversation stands (SessionInv): which  *)
(* packets are on their way or in hand says what must have been sent, and  *)
(* so whether the framing was changed and the game set up.                 *)
(*                                                                         *)
(* Of the login, for chains of any length: its structs are set whole or    *)
(* not at all, by what each try block has read so far (LoginInv).          *)
(***************************************************************************)
EXTENDS ClientConnection, LoginPacket, WellFoundedInduction, TLAPS

-----------------------------------------------------------------------------
(* Where the conversation stands.                                          *)

Framed == connection.networkSettingsSent

\* What is in the client's framed batches.
GameNames ==
    {"Login", "HaveAllPacks", "Completed", "RequestChunkRadius",
     "ServerboundLoadingScreen", "PlayerAuthInput"}

\* What the server sends.
ServerNames ==
    {"NetworkSettings", "LoginSuccess", "ResourcePacksInfo", "ResourcePackStack",
     "StartGame", "UpdateAbilities", "PlayerSpawn", "LevelChunk",
     "NetworkChunkPublisherUpdate"}

Todo == network.todo

\* What a handler may have yet to do, by the handler and what it did.
Asked(todo) == todo = HandleSettings
Telling(todo) == todo = <<SetOp("networkSettingsSent", TRUE)>>
LoggingIn(todo) ==
    \/ todo = <<SendOp("LoginSuccess"), SendOp("ResourcePacksInfo")>>
    \/ todo = <<SendOp("ResourcePacksInfo")>>
    \/ todo = <<SendOp("ResourcePackStack")>>
SettingUp(todo) == todo = <<SendOp("StartGame"), SendOp("UpdateAbilities")>>
HalfSetUp(todo) == todo = <<SendOp("UpdateAbilities")>>
Widening(todo) == \E d \in Nat : todo = <<SetOp("playerViewDistance", d)>>
Spawning(todo) == todo = <<SetOp("playerSpawned", TRUE), SendOp("PlayerSpawn")>>
Announcing(todo) == todo = <<SendOp("PlayerSpawn")>>

\* What the handlers of framed packets do.
InGameTodo(todo) ==
    \/ LoggingIn(todo) \/ SettingUp(todo) \/ HalfSetUp(todo)
    \/ Widening(todo) \/ Spawning(todo) \/ Announcing(todo)

SessionTypeOK ==
    /\ connection \in [networkSettingsSent : BOOLEAN, playerSpawned : BOOLEAN,
                       playerViewDistance : Nat, playerLoadedChunks : SUBSET Nat]
    /\ network \in [packets : Seq([name : GameNames \cup {"RequestNetworkSettings"}, n : Nat]),
                    todo : {Todo}]
    /\ Todo = <<>> \/ Asked(Todo) \/ Telling(Todo) \/ InGameTodo(Todo)
    /\ tick \in [chunks : SUBSET Nat, update : BOOLEAN]
    /\ \A batch \in toServer :
         \/ batch = SettingsRequest
         \/ batch \in [framed : {TRUE}, packets : Seq([name : GameNames, n : Nat])]
    /\ client \in [session : Nat \ {0}, here : BOOLEAN, settings : BOOLEAN,
                   received : SUBSET [name : ServerNames, n : Nat], late : BOOLEAN]
    /\ extras \in Nat /\ spawns \in Nat
    /\ \A misread \in garbled :
         misread \in [by : {"client", "server"}, framed : BOOLEAN, session : Nat \ {0}]

\* The settings' request in hand, and the game's packets.
Requested == network.packets = <<Packet("RequestNetworkSettings", 0)>>
GamePackets == network.packets \in Seq([name : GameNames, n : Nat]) \ {<<>>}

\* The framing changes once, right after NetworkSettings was sent.
FramingInv ==
    /\ "NetworkSettings" \in sent => Framed \/ Telling(Todo)
    /\ Framed \/ Telling(Todo) => "NetworkSettings" \in sent
    /\ Requested \/ Asked(Todo) => ~ Framed /\ "NetworkSettings" \notin sent
    /\ Telling(Todo) => ~ Framed
    /\ network.packets = <<>> \/ Requested \/ GamePackets
    /\ Requested => Todo = <<>>
    /\ Asked(Todo) \/ Telling(Todo) => network.packets = <<>>
    /\ GamePackets \/ InGameTodo(Todo) \/ connection.playerSpawned => Framed
    /\ tick # Resting => connection.playerSpawned

\* A frame on its way is of a packet that was sent; the settings' alone is not framed.
FramesOK ==
    \A frame \in toClient :
      /\ frame \in [framed : BOOLEAN, packet : [name : ServerNames, n : Nat]]
      /\ frame.packet.name \in sent
      /\ frame.framed => frame.packet.name # "NetworkSettings"
      /\ ~ frame.framed => frame.packet = Packet("NetworkSettings", 0)

\* The first client changes over before the server hears anything framed of it, and
\* before the server says anything framed to it.
FirstClientInv ==
    client.session = 1 =>
      /\ client.settings => "NetworkSettings" \in sent
      /\ client.received # {} => client.settings
      /\ (\E batch \in toServer : batch.framed) => client.settings
      /\ GamePackets \/ InGameTodo(Todo) \/ connection.playerSpawned => client.settings
      /\ (\E frame \in toClient : frame.framed) => client.settings
      /\ client.settings => \A frame \in toClient : frame.framed

SetUp == \A i \in DOMAIN GameSetUp : GameSetUp[i] \in sent

Screen(packets) ==
    \E i \in DOMAIN packets : packets[i].name = "ServerboundLoadingScreen"

\* The game is set up before a loading screen is handled.
SetUpInv ==
    /\ "StartGame" \in sent => SetUp \/ HalfSetUp(Todo)
    /\ HalfSetUp(Todo) => "StartGame" \in sent
    /\ Screen(network.packets) => "StartGame" \in sent
    /\ \A batch \in toServer : Screen(batch.packets) => "StartGame" \in sent
    /\ Spawning(Todo) \/ Announcing(Todo) \/ connection.playerSpawned => SetUp
    /\ sent \cap {"LevelChunk", "NetworkChunkPublisherUpdate", "PlayerSpawn"} # {} => SetUp

\* The player is spawned once.
SpawnInv ==
    /\ Spawning(Todo) => ~ connection.playerSpawned
    /\ Announcing(Todo) => connection.playerSpawned /\ spawns = 0
    /\ ~ connection.playerSpawned => spawns = 0
    /\ spawns <= 1

\* A client of an old connection reads nothing.
LateInv ==
    client.late =>
      /\ Framed /\ ~ client.settings /\ client.received = {}
      /\ \A frame \in toClient : frame.framed

SessionInv ==
    /\ SessionTypeOK
    /\ FramingInv
    /\ FramesOK
    /\ FirstClientInv
    /\ SetUpInv
    /\ SpawnInv
    /\ LateInv
    /\ FramingAgreed

-----------------------------------------------------------------------------
(* Induction over the numbers, from the library's well-founded order.      *)

\* A set of numbers has a smallest one.
LEMMA SmallestOf ==
  ASSUME NEW S, S \subseteq Nat, S # {}
  PROVE  \E x \in S : \A y \in S : x <= y
<1> DEFINE R == {ss \in Nat \X Nat : ss[1] < ss[2]}
<1>1. R = OpToRel(<, Nat)
  BY Zenon DEF OpToRel
<1>2. IsWellFoundedOn(OpToRel(<, Nat), Nat)
  BY NatLessThanWellFounded, Zenon
<1>3. IsWellFoundedOn(R, Nat)
  BY <1>1, <1>2, Zenon
<1> HIDE DEF R
<1>4. PICK x \in S : \A y \in S : ~ (<<y, x>> \in R)
  BY WFMin, <1>3
<1>5. ASSUME NEW y \in S PROVE x <= y
  <2>1. x \in Nat /\ y \in Nat
    OBVIOUS
  <2>2. <<y, x>> \notin R
    BY <1>4
  <2> QED
    BY <2>1, <2>2 DEF R
<1> QED
  BY <1>5

\* What has 0, and with a number the next one, has every number.
LEMMA NatSetInduction ==
  ASSUME NEW S, 0 \in S, \A n \in Nat : n \in S => n + 1 \in S
  PROVE  Nat \subseteq S
<1> SUFFICES ASSUME Nat \ S # {} PROVE FALSE
  OBVIOUS
<1>1. PICK x \in Nat \ S : \A y \in Nat \ S : x <= y
  BY SmallestOf
<1>2. x # 0 /\ x - 1 \in Nat
  OBVIOUS
<1>3. x - 1 \in S
  BY <1>1, <1>2
<1> QED
  BY <1>2, <1>3

\* Among the view distances one is the smallest.
LEMMA SmallestIsDistance == Smallest \in Distances /\ Smallest \in Nat
<1> DEFINE Above == {n \in Nat : (\A d \in Distances : n < d)
                                 \/ \E d \in Distances : \A e \in Distances : d <= e}
<1>1. CASE \E d \in Distances : \A e \in Distances : d <= e
  BY <1>1, DistancesAssumption DEF Smallest
<1>2. CASE ~ \E d \in Distances : \A e \in Distances : d <= e
  <2>1. 0 \in Above
    BY <1>2, DistancesAssumption
  <2>2. ASSUME NEW n \in Nat, n \in Above PROVE n + 1 \in Above
    BY <1>2, <2>2, DistancesAssumption
  <2>3. Nat \subseteq Above
    <3> HIDE DEF Above
    <3> QED
      BY <2>1, <2>2, NatSetInduction
  <2>4. PICK d \in Distances : TRUE
    BY DistancesAssumption
  <2>5. d \in Nat /\ d \in Above
    BY <2>3, <2>4, DistancesAssumption
  <2> QED
    BY <1>2, <2>5
<1> QED
  BY <1>1, <1>2

-----------------------------------------------------------------------------
(* What a handler has yet to do.                                           *)

\* What is left of two operations after the first.
LEMMA TailOfPair == ASSUME NEW a, NEW b PROVE Tail(<<a, b>>) = <<b>>
  OBVIOUS

\* A completed login has two operations to do.
LEMMA HandleCompletedPair ==
  HandleCompleted = <<SendOp("StartGame"), SendOp("UpdateAbilities")>>
  BY DEF HandleCompleted, GameSetUp

\* No two of the handlers' places are the same.
LEMMA ShapesApart ==
  ASSUME NEW todo
  PROVE  /\ Asked(todo) \/ Telling(todo) \/ InGameTodo(todo) => todo # <<>>
         /\ Asked(todo) => ~ Telling(todo) /\ ~ InGameTodo(todo)
         /\ Telling(todo) => ~ InGameTodo(todo)
         /\ LoggingIn(todo) => ~ SettingUp(todo) /\ ~ HalfSetUp(todo)
                               /\ ~ Widening(todo) /\ ~ Spawning(todo) /\ ~ Announcing(todo)
         /\ SettingUp(todo) => ~ HalfSetUp(todo) /\ ~ Widening(todo)
                               /\ ~ Spawning(todo) /\ ~ Announcing(todo)
         /\ HalfSetUp(todo) => ~ Widening(todo) /\ ~ Spawning(todo) /\ ~ Announcing(todo)
         /\ Widening(todo) => ~ Spawning(todo) /\ ~ Announcing(todo)
         /\ Spawning(todo) => ~ Announcing(todo)
<1> USE DEF SendOp, SetOp
<1>1. Asked(todo) => /\ Len(todo) = 2 /\ todo[1] = SendOp("NetworkSettings")
                     /\ todo[1].op = "send"
  BY DEF Asked, HandleSettings
<1>2. Telling(todo) => Len(todo) = 1 /\ todo[1].op = "networkSettingsSent"
  BY DEF Telling
<1>3. LoggingIn(todo) =>
        /\ Len(todo) \in {1, 2} /\ todo[1].op = "send"
        /\ todo[1].name \in {"LoginSuccess", "ResourcePacksInfo", "ResourcePackStack"}
  BY DEF LoggingIn
<1>4. SettingUp(todo) =>
        Len(todo) = 2 /\ todo[1].op = "send" /\ todo[1].name = "StartGame"
  BY DEF SettingUp
<1>5. HalfSetUp(todo) =>
        Len(todo) = 1 /\ todo[1].op = "send" /\ todo[1].name = "UpdateAbilities"
  BY DEF HalfSetUp
<1>6. Widening(todo) => Len(todo) = 1 /\ todo[1].op = "playerViewDistance"
  BY DEF Widening
<1>7. Spawning(todo) => Len(todo) = 2 /\ todo[1].op = "playerSpawned"
  BY DEF Spawning
<1>8. Announcing(todo) =>
        Len(todo) = 1 /\ todo[1].op = "send" /\ todo[1].name = "PlayerSpawn"
  BY DEF Announcing
<1>9. todo = <<>> => Len(todo) = 0
  OBVIOUS
<1>10. Asked(todo) => todo[1].name = "NetworkSettings"
  BY <1>1
<1> HIDE DEF SendOp, SetOp
<1> QED
  BY <1>1, <1>2, <1>3, <1>4, <1>5, <1>6, <1>7, <1>8, <1>9, <1>10 DEF InGameTodo

-----------------------------------------------------------------------------
(* The first state, and one lemma for each action.                         *)

\* The request for the settings is not one of the game's packets.
LEMMA RequestApart ==
  /\ "RequestNetworkSettings" \notin GameNames
  /\ <<Packet("RequestNetworkSettings", 0)>> \notin Seq([name : GameNames, n : Nat])
  /\ ~ Screen(<<Packet("RequestNetworkSettings", 0)>>)
<1>1. "RequestNetworkSettings" \notin GameNames
  BY DEF GameNames
<1>2. <<Packet("RequestNetworkSettings", 0)>>[1].name = "RequestNetworkSettings"
  BY DEF Packet
<1>3. ASSUME <<Packet("RequestNetworkSettings", 0)>> \in Seq([name : GameNames, n : Nat])
      PROVE  FALSE
  <2>1. <<Packet("RequestNetworkSettings", 0)>>[1] \in [name : GameNames, n : Nat]
    BY <1>3
  <2> QED
    BY <1>1, <1>2, <2>1
<1>4. ~ Screen(<<Packet("RequestNetworkSettings", 0)>>)
  BY DEF Screen, Packet
<1> QED
  BY <1>1, <1>3, <1>4

\* The request for the settings comes unframed, in a batch of its own.
LEMMA RequestFields ==
  /\ SettingsRequest.framed = FALSE
  /\ SettingsRequest.packets = <<Packet("RequestNetworkSettings", 0)>>
  /\ SettingsRequest.packets \in
       Seq([name : GameNames \cup {"RequestNetworkSettings"}, n : Nat])
  BY DEF SettingsRequest, Batch, Packet

\* A sequence over a set is one over a larger set.
LEMMA SeqOfSubset ==
  ASSUME NEW S, NEW T, S \subseteq T, NEW seq \in Seq(S) PROVE seq \in Seq(T)
  OBVIOUS

\* A batch on its way is the settings' request, or framed packets of the game.
LEMMA BatchKinds ==
  ASSUME SessionTypeOK, NEW batch \in toServer
  PROVE  \/ /\ batch = SettingsRequest /\ batch.framed = FALSE
            /\ batch.packets = <<Packet("RequestNetworkSettings", 0)>>
         \/ /\ batch.framed = TRUE
            /\ batch.packets \in Seq([name : GameNames, n : Nat])
<1>1. CASE batch = SettingsRequest
  BY <1>1, RequestFields
<1>2. CASE batch \in [framed : {TRUE}, packets : Seq([name : GameNames, n : Nat])]
  BY <1>2
<1> QED
  BY <1>1, <1>2 DEF SessionTypeOK

\* The conversation has not begun.
LEMMA InitSession == Init => SessionInv
<1> SUFFICES ASSUME Init PROVE SessionInv
  OBVIOUS
<1>1. /\ Todo = <<>> /\ network.packets = <<>> /\ ~ Framed /\ ~ connection.playerSpawned
      /\ client = [session |-> 1, here |-> TRUE, settings |-> FALSE, received |-> {},
                   late |-> FALSE]
      /\ toServer = {SettingsRequest} /\ toClient = {} /\ sent = {}
  BY DEF Init, Todo, Idle, Framed, NewClient, SettingsRequest
<1>2. ~ Asked(Todo) /\ ~ Telling(Todo) /\ ~ InGameTodo(Todo)
  BY <1>1, ShapesApart
<1>3. ~ HalfSetUp(Todo) /\ ~ Spawning(Todo) /\ ~ Announcing(Todo)
  BY <1>2 DEF InGameTodo
<1>4. SessionTypeOK
  <2>1. /\ connection \in [networkSettingsSent : BOOLEAN, playerSpawned : BOOLEAN,
                           playerViewDistance : Nat, playerLoadedChunks : SUBSET Nat]
        /\ tick \in [chunks : SUBSET Nat, update : BOOLEAN]
    BY DEF Init, Resting
  <2>2. network \in [packets :
                       Seq([name : GameNames \cup {"RequestNetworkSettings"}, n : Nat]),
                     todo : {Todo}]
    BY DEF Init, Idle, Todo
  <2>3. client \in [session : Nat \ {0}, here : BOOLEAN, settings : BOOLEAN,
                     received : SUBSET [name : ServerNames, n : Nat], late : BOOLEAN]
    BY <1>1
  <2>4. extras \in Nat /\ spawns \in Nat /\ garbled = {}
    BY DEF Init
  <2> QED
    BY <1>1, <2>1, <2>2, <2>3, <2>4 DEF SessionTypeOK
<1>5. ~ Requested /\ ~ GamePackets
  BY <1>1 DEF Requested, GamePackets
<1>6. FramingInv /\ FramesOK
  BY <1>1, <1>2, <1>5 DEF FramingInv, FramesOK, Init
<1>7. FirstClientInv
  BY <1>1, <1>2, <1>5, RequestFields DEF FirstClientInv
<1>8. SetUpInv
  BY <1>1, <1>3, RequestFields, RequestApart DEF SetUpInv, Screen
<1>9. SpawnInv
  BY <1>1, <1>3 DEF SpawnInv, Init
<1>10. LateInv
  BY <1>1 DEF LateInv
<1>11. FramingAgreed
  BY DEF FramingAgreed, Init
<1> QED
  BY <1>4, <1>6, <1>7, <1>8, <1>9, <1>10, <1>11 DEF SessionInv

\* A batch is taken up or dropped.
LEMMA HandleDataSession ==
  ASSUME SessionInv, NEW batch \in toServer, HandleData(batch)
  PROVE  SessionInv'
<1> USE DEF SessionInv
<1> DEFINE readable == batch.framed = Framed
<1>1. /\ Todo = <<>> /\ Todo' = <<>> /\ network.packets = <<>>
      /\ network'.packets = IF readable THEN batch.packets ELSE <<>>
      /\ network' = [packets |-> network'.packets, todo |-> network'.todo]
      /\ garbled' = IF readable THEN garbled
                    ELSE garbled \cup {Misread("server", batch.framed)}
      /\ toServer' \subseteq toServer
      /\ extras' \in Nat
      /\ UNCHANGED <<connection, tick, toClient, client, sent, spawns>>
  BY DEF HandleData, Idle, Todo, Framed, SessionTypeOK
<1>2. /\ ~ Asked(Todo) /\ ~ Telling(Todo) /\ ~ InGameTodo(Todo)
      /\ ~ Asked(Todo') /\ ~ Telling(Todo') /\ ~ InGameTodo(Todo')
  BY <1>1, ShapesApart
<1>3. /\ ~ HalfSetUp(Todo) /\ ~ Spawning(Todo) /\ ~ Announcing(Todo)
      /\ ~ HalfSetUp(Todo') /\ ~ Spawning(Todo') /\ ~ Announcing(Todo')
  BY <1>2 DEF InGameTodo
<1>4. \/ /\ batch = SettingsRequest /\ batch.framed = FALSE
         /\ batch.packets = <<Packet("RequestNetworkSettings", 0)>>
      \/ /\ batch.framed = TRUE
         /\ batch.packets \in Seq([name : GameNames, n : Nat])
  BY BatchKinds
<1>5. Framed \in BOOLEAN
  BY DEF Framed, SessionTypeOK
<1>6. SessionTypeOK'
  <2>1. network'.packets \in Seq([name : GameNames \cup {"RequestNetworkSettings"}, n : Nat])
    <3> DEFINE Some == [name : GameNames \cup {"RequestNetworkSettings"}, n : Nat]
    <3>1. batch = SettingsRequest => batch.packets \in Seq(Some)
      BY RequestFields
    <3>2. batch.packets \in Seq([name : GameNames, n : Nat]) => batch.packets \in Seq(Some)
      <4>1. [name : GameNames, n : Nat] \subseteq Some
        OBVIOUS
      <4> HIDE DEF Some
      <4> QED
        BY <4>1, SeqOfSubset
    <3>3. <<>> \in Seq(Some)
      OBVIOUS
    <3>4. network'.packets \in Seq(Some)
      <4> HIDE DEF Some
      <4> QED
        BY <1>1, <1>4, <3>1, <3>2, <3>3
    <3> QED
      BY <3>4
  <2>2. Misread("server", batch.framed)
          \in [by : {"client", "server"}, framed : BOOLEAN, session : Nat \ {0}]
    BY <1>4 DEF Misread, SessionTypeOK
  <2> QED
    BY <1>1, <2>1, <2>2 DEF SessionTypeOK, Todo
<1>7. /\ Requested' => ~ Framed
      /\ GamePackets' => Framed /\ batch.framed
      /\ network'.packets = <<>> \/ Requested' \/ GamePackets'
  <2>1. CASE readable /\ batch = SettingsRequest
    BY <1>1, <1>4, <2>1, RequestApart, RequestFields DEF Requested, GamePackets
  <2>2. CASE readable /\ batch # SettingsRequest
    BY <1>1, <1>4, <2>2, RequestApart DEF Requested, GamePackets
  <2>3. CASE ~ readable
    BY <1>1, <2>3 DEF Requested, GamePackets
  <2> QED
    BY <2>1, <2>2, <2>3
<1>8. FramingInv' /\ FramesOK'
  BY <1>1, <1>2, <1>7 DEF FramingInv, FramesOK, Framed
<1>9. FirstClientInv'
  BY <1>1, <1>2, <1>7 DEF FirstClientInv
<1>10. SetUpInv'
  BY <1>1, <1>3 DEF SetUpInv, Screen, SetUp
<1>11. SpawnInv' /\ LateInv'
  BY <1>1, <1>3 DEF SpawnInv, LateInv, Framed
<1>12. FramingAgreed'
  <2>1. client.session = 1 /\ ~ readable => ~ batch.framed
    BY <1>2, <1>4, <1>5 DEF FirstClientInv, FramingInv
  <2> QED
    BY <1>1, <2>1 DEF FramingAgreed, Misread
<1> QED
  BY <1>6, <1>8, <1>9, <1>10, <1>11, <1>12

\* What a packet of the game gives its handler to do.
LEMMA HandlerShape ==
  ASSUME NEW packet \in [name : GameNames, n : Nat]
  PROVE  /\ HandlerOf(packet) = <<>> \/ InGameTodo(HandlerOf(packet))
         /\ ~ HalfSetUp(HandlerOf(packet)) /\ ~ Announcing(HandlerOf(packet))
         /\ Spawning(HandlerOf(packet)) =>
              packet.name = "ServerboundLoadingScreen" /\ ~ connection.playerSpawned
<1> DEFINE h == HandlerOf(packet)
<1>1. CASE packet.name = "Login"
  <2>1. h = <<SendOp("LoginSuccess"), SendOp("ResourcePacksInfo")>>
    BY <1>1 DEF HandlerOf, HandleLogin
  <2>2. LoggingIn(h) /\ InGameTodo(h)
    BY <2>1 DEF LoggingIn, InGameTodo
  <2> QED
    BY <2>2, ShapesApart
<1>2. CASE packet.name = "HaveAllPacks"
  <2>1. h = <<SendOp("ResourcePackStack")>>
    BY <1>2 DEF HandlerOf
  <2>2. LoggingIn(h) /\ InGameTodo(h)
    BY <2>1 DEF LoggingIn, InGameTodo
  <2> QED
    BY <2>2, ShapesApart
<1>3. CASE packet.name = "Completed"
  <2>1. h = <<SendOp("StartGame"), SendOp("UpdateAbilities")>>
    BY <1>3, HandleCompletedPair DEF HandlerOf
  <2>2. SettingUp(h) /\ InGameTodo(h)
    BY <2>1 DEF SettingUp, InGameTodo
  <2> QED
    BY <2>2, ShapesApart
<1>4. CASE packet.name = "RequestChunkRadius"
  <2>1. h = <<SetOp("playerViewDistance", packet.n)>> /\ packet.n \in Nat
    BY <1>4 DEF HandlerOf, HandleRadius
  <2>2. Widening(h) /\ InGameTodo(h)
    BY <2>1 DEF Widening, InGameTodo
  <2> QED
    BY <2>2, ShapesApart
<1>5. CASE packet.name = "ServerboundLoadingScreen" /\ ~ connection.playerSpawned
  <2>1. h = <<SetOp("playerSpawned", TRUE), SendOp("PlayerSpawn")>>
    BY <1>5 DEF HandlerOf, HandleScreen
  <2>2. Spawning(h) /\ InGameTodo(h)
    BY <2>1 DEF Spawning, InGameTodo
  <2> QED
    BY <1>5, <2>2, ShapesApart
<1>6. CASE \/ packet.name = "ServerboundLoadingScreen" /\ connection.playerSpawned
           \/ packet.name = "PlayerAuthInput"
  <2>1. h = <<>>
    BY <1>6 DEF HandlerOf, HandleScreen
  <2>2. ~ InGameTodo(h)
    BY <2>1, ShapesApart
  <2> QED
    BY <2>1, <2>2 DEF InGameTodo
<1> QED
  BY <1>1, <1>2, <1>3, <1>4, <1>5, <1>6 DEF GameNames

\* A sequence falls into its first item and the rest.
LEMMA HeadAndTail ==
  ASSUME NEW S, NEW seq \in Seq(S), seq # <<>>
  PROVE  /\ Head(seq) \in S /\ Head(seq) = seq[1] /\ 1 \in DOMAIN seq
         /\ Tail(seq) \in Seq(S)
         /\ \A i \in DOMAIN Tail(seq) : Tail(seq)[i] = seq[i + 1] /\ i + 1 \in DOMAIN seq
  OBVIOUS

\* A handler begins.
LEMMA HandlePacketSession ==
  ASSUME SessionInv, HandlePacket
  PROVE  SessionInv'
<1> USE DEF SessionInv
<1> DEFINE packet == Head(network.packets)
<1>1. /\ Todo = <<>> /\ network.packets # <<>>
      /\ network' = [packets |-> Tail(network.packets), todo |-> HandlerOf(packet)]
      /\ network'.packets = Tail(network.packets) /\ Todo' = HandlerOf(packet)
      /\ UNCHANGED <<connection, tick, toServer, toClient, client, extras, sent, spawns,
                      garbled>>
  BY DEF HandlePacket, Todo, history
<1>2. ~ Asked(Todo) /\ ~ Telling(Todo) /\ ~ InGameTodo(Todo)
  BY <1>1, ShapesApart
<1>3. ~ HalfSetUp(Todo) /\ ~ Spawning(Todo) /\ ~ Announcing(Todo)
  BY <1>2 DEF InGameTodo
<1>4. CASE Requested
  <2>1. packet = Packet("RequestNetworkSettings", 0) /\ network'.packets = <<>>
    BY <1>1, <1>4 DEF Requested
  <2>2. Asked(Todo')
    BY <1>1, <2>1 DEF Asked, HandlerOf, Packet
  <2>3. ~ Telling(Todo') /\ ~ InGameTodo(Todo')
    BY <2>2, ShapesApart
  <2>4. ~ HalfSetUp(Todo') /\ ~ Spawning(Todo') /\ ~ Announcing(Todo')
    BY <2>3 DEF InGameTodo
  <2>5. ~ Requested' /\ ~ GamePackets'
    BY <2>1 DEF Requested, GamePackets
  <2>6. SessionTypeOK'
    <3>1. network'.packets \in Seq([name : GameNames \cup {"RequestNetworkSettings"}, n : Nat])
      BY <2>1
    <3> QED
      BY <1>1, <2>2, <3>1 DEF SessionTypeOK, Todo
  <2>7. FramingInv' /\ FramesOK'
    BY <1>1, <1>2, <1>4, <2>1, <2>3, <2>5 DEF FramingInv, FramesOK, Framed
  <2>8. FirstClientInv'
    BY <1>1, <2>3, <2>5 DEF FirstClientInv
  <2>9. SetUpInv' /\ SpawnInv'
    BY <1>1, <1>3, <2>1, <2>4 DEF SetUpInv, SetUp, Screen, SpawnInv
  <2>10. LateInv' /\ FramingAgreed'
    BY <1>1 DEF LateInv, FramingAgreed, Framed
  <2> QED
    BY <2>6, <2>7, <2>8, <2>9, <2>10
<1>5. CASE GamePackets
  <2>1. /\ packet \in [name : GameNames, n : Nat]
        /\ network'.packets \in Seq([name : GameNames, n : Nat])
        /\ \A i \in DOMAIN network'.packets :
             network'.packets[i] = network.packets[i + 1] /\ i + 1 \in DOMAIN network.packets
        /\ packet = network.packets[1] /\ 1 \in DOMAIN network.packets
    BY <1>1, <1>5, HeadAndTail DEF GamePackets
  <2>2. /\ Todo' = <<>> \/ InGameTodo(Todo')
        /\ ~ HalfSetUp(Todo') /\ ~ Announcing(Todo')
        /\ Spawning(Todo') =>
             packet.name = "ServerboundLoadingScreen" /\ ~ connection.playerSpawned
    BY <1>1, <2>1, HandlerShape
  <2>3. ~ Asked(Todo') /\ ~ Telling(Todo')
    BY <2>2, ShapesApart
  <2>4. ~ Requested' /\ (network'.packets = <<>> \/ GamePackets')
    BY <2>1, RequestApart DEF Requested, GamePackets
  <2>5. SessionTypeOK'
    <3>1. network'.packets \in Seq([name : GameNames \cup {"RequestNetworkSettings"}, n : Nat])
      BY <1>1 DEF SessionTypeOK
    <3> QED
      BY <1>1, <2>2, <3>1 DEF SessionTypeOK, Todo
  <2>6. FramingInv' /\ FramesOK'
    BY <1>1, <1>2, <1>5, <2>3, <2>4 DEF FramingInv, FramesOK, Framed
  <2>7. FirstClientInv'
    BY <1>1, <1>5 DEF FirstClientInv
  <2>8. SetUpInv'
    <3>1. Screen(network'.packets) => Screen(network.packets)
      BY <2>1 DEF Screen
    <3>2. Spawning(Todo') => Screen(network.packets)
      BY <2>1, <2>2 DEF Screen
    <3> QED
      BY <1>1, <1>3, <2>2, <3>1, <3>2 DEF SetUpInv, SetUp
  <2>9. SpawnInv'
    BY <1>1, <2>2 DEF SpawnInv
  <2>10. LateInv' /\ FramingAgreed'
    BY <1>1 DEF LateInv, FramingAgreed, Framed
  <2> QED
    BY <2>5, <2>6, <2>7, <2>8, <2>9, <2>10
<1> QED
  BY <1>1, <1>4, <1>5 DEF FramingInv

\* What a handler does next, by where it is.
LEMMA RunHandlerSteps ==
  ASSUME SessionTypeOK, RunHandler
  PROVE  /\ network' = [packets |-> network.packets, todo |-> Todo']
         /\ network'.packets = network.packets
         /\ UNCHANGED <<tick, toServer, client, extras, garbled>>
         /\ \/ /\ Asked(Todo) /\ Telling(Todo')
               /\ SendPacket(Packet("NetworkSettings", 0)) /\ UNCHANGED connection
            \/ /\ Telling(Todo) /\ Todo' = <<>>
               /\ connection' = [connection EXCEPT !.networkSettingsSent = TRUE]
               /\ UNCHANGED <<toClient, sent, spawns>>
            \/ /\ LoggingIn(Todo) /\ (LoggingIn(Todo') \/ Todo' = <<>>)
               /\ \E name \in {"LoginSuccess", "ResourcePacksInfo", "ResourcePackStack"} :
                    SendPacket(Packet(name, 0))
               /\ UNCHANGED connection
            \/ /\ SettingUp(Todo) /\ HalfSetUp(Todo')
               /\ SendPacket(Packet("StartGame", 0)) /\ UNCHANGED connection
            \/ /\ HalfSetUp(Todo) /\ Todo' = <<>>
               /\ SendPacket(Packet("UpdateAbilities", 0)) /\ UNCHANGED connection
            \/ /\ Widening(Todo) /\ Todo' = <<>>
               /\ \E d \in Nat : connection' = [connection EXCEPT !.playerViewDistance = d]
               /\ UNCHANGED <<toClient, sent, spawns>>
            \/ /\ Spawning(Todo) /\ Announcing(Todo')
               /\ connection' = [connection EXCEPT !.playerSpawned = TRUE]
               /\ UNCHANGED <<toClient, sent, spawns>>
            \/ /\ Announcing(Todo) /\ Todo' = <<>>
               /\ SendPacket(Packet("PlayerSpawn", 0)) /\ UNCHANGED connection
<1> DEFINE following == Head(Todo)
           Sends(name) == SendPacket(Packet(name, 0)) /\ UNCHANGED connection
           Sets == /\ connection' = [connection EXCEPT ![following.op] = following.value]
                   /\ UNCHANGED <<toClient, sent, spawns>>
<1>1. /\ network' = [packets |-> network.packets, todo |-> Todo']
      /\ network'.packets = network.packets
      /\ Todo # <<>> /\ Todo' = Tail(Todo)
      /\ UNCHANGED <<tick, toServer, client, extras, garbled>>
  BY DEF RunHandler, SessionTypeOK, Todo
<1>2. IF following.op = "send" THEN Sends(following.name) ELSE Sets
  BY DEF RunHandler, Todo
<1> HIDE DEF Sends, Sets
<1>3. ASSUME NEW a, NEW b, Todo = <<a, b>> PROVE following = a /\ Todo' = <<b>>
  BY <1>1, <1>3, TailOfPair
<1>4. ASSUME NEW a, Todo = <<a>> PROVE following = a /\ Todo' = <<>>
  BY <1>1, <1>4
<1>5. CASE Asked(Todo)
  <2>1. following = SendOp("NetworkSettings") /\ Todo' = <<SetOp("networkSettingsSent", TRUE)>>
    BY <1>3, <1>5 DEF Asked, HandleSettings
  <2>2. following.op = "send" /\ following.name = "NetworkSettings"
    BY <2>1 DEF SendOp
  <2>3. Sends("NetworkSettings")
    BY <1>2, <2>2
  <2> QED
    BY <1>1, <1>5, <2>1, <2>3 DEF Telling, Sends
<1>6. CASE Telling(Todo)
  <2>1. following = SetOp("networkSettingsSent", TRUE) /\ Todo' = <<>>
    BY <1>4, <1>6 DEF Telling
  <2>2. following.op = "networkSettingsSent" /\ following.value = TRUE
    BY <2>1 DEF SetOp
  <2> QED
    BY <1>1, <1>2, <1>6, <2>1, <2>2 DEF Sets
<1>7. CASE LoggingIn(Todo)
  <2>1. \E name \in {"LoginSuccess", "ResourcePacksInfo", "ResourcePackStack"} :
           following = SendOp(name) /\ (LoggingIn(Todo') \/ Todo' = <<>>)
    BY <1>3, <1>4, <1>7 DEF LoggingIn
  <2>2. PICK name \in {"LoginSuccess", "ResourcePacksInfo", "ResourcePackStack"} :
           following = SendOp(name) /\ (LoggingIn(Todo') \/ Todo' = <<>>)
    BY <2>1
  <2>3. following.op = "send" /\ following.name = name
    BY <2>2 DEF SendOp
  <2>4. Sends(name)
    BY <1>2, <2>3
  <2> QED
    BY <1>1, <1>7, <2>2, <2>4 DEF Sends
<1>8. CASE SettingUp(Todo)
  <2>1. following = SendOp("StartGame") /\ HalfSetUp(Todo')
    BY <1>3, <1>8 DEF SettingUp, HalfSetUp
  <2>2. following.op = "send" /\ following.name = "StartGame"
    BY <2>1 DEF SendOp
  <2>3. Sends("StartGame")
    BY <1>2, <2>2
  <2> QED
    BY <1>1, <1>8, <2>1, <2>3 DEF Sends
<1>9. CASE HalfSetUp(Todo)
  <2>1. following = SendOp("UpdateAbilities") /\ Todo' = <<>>
    BY <1>4, <1>9 DEF HalfSetUp
  <2>2. following.op = "send" /\ following.name = "UpdateAbilities"
    BY <2>1 DEF SendOp
  <2>3. Sends("UpdateAbilities")
    BY <1>2, <2>2
  <2> QED
    BY <1>1, <1>9, <2>1, <2>3 DEF Sends
<1>10. CASE Widening(Todo)
  <2>1. PICK d \in Nat : following = SetOp("playerViewDistance", d) /\ Todo' = <<>>
    BY <1>4, <1>10 DEF Widening
  <2>2. following.op = "playerViewDistance" /\ following.value = d
    BY <2>1 DEF SetOp
  <2> QED
    BY <1>1, <1>2, <1>10, <2>1, <2>2 DEF Sets
<1>11. CASE Spawning(Todo)
  <2>1. following = SetOp("playerSpawned", TRUE) /\ Todo' = <<SendOp("PlayerSpawn")>>
    BY <1>3, <1>11 DEF Spawning
  <2>2. following.op = "playerSpawned" /\ following.value = TRUE
    BY <2>1 DEF SetOp
  <2> QED
    BY <1>1, <1>2, <1>11, <2>1, <2>2 DEF Sets, Announcing
<1>12. CASE Announcing(Todo)
  <2>1. following = SendOp("PlayerSpawn") /\ Todo' = <<>>
    BY <1>4, <1>12 DEF Announcing
  <2>2. following.op = "send" /\ following.name = "PlayerSpawn"
    BY <2>1 DEF SendOp
  <2>3. Sends("PlayerSpawn")
    BY <1>2, <2>2
  <2> QED
    BY <1>1, <1>12, <2>1, <2>3 DEF Sends
<1> QED
  BY <1>1, <1>5, <1>6, <1>7, <1>8, <1>9, <1>10, <1>11, <1>12
     DEF SessionTypeOK, InGameTodo

\* A framed frame of anything but the settings may be sent any time after them.
LEMMA FramedSend ==
  ASSUME SessionInv, Framed, NEW name \in ServerNames, NEW n \in Nat,
         name # "NetworkSettings", SendPacket(Packet(name, n))
  PROVE  /\ FramesOK'
         /\ \A frame \in toClient' : frame \in toClient \/ frame.framed
         /\ sent' = sent \cup {name}
         /\ spawns' = IF name = "PlayerSpawn" THEN spawns + 1 ELSE spawns
<1>1. /\ toClient' = toClient \cup {[framed |-> TRUE, packet |-> Packet(name, n)]}
      /\ Packet(name, n).name = name /\ Packet(name, n) \in [name : ServerNames, n : Nat]
  BY DEF SendPacket, Framed, Packet
<1>2. /\ sent' = sent \cup {name}
      /\ spawns' = IF name = "PlayerSpawn" THEN spawns + 1 ELSE spawns
  BY <1>1 DEF SendPacket
<1>3. FramesOK
  BY DEF SessionInv
<1>4. \A frame \in toClient' : frame \in toClient \/ frame.framed
  BY <1>1
<1> DEFINE new == [framed |-> TRUE, packet |-> Packet(name, n)]
<1>5. /\ new \in [framed : BOOLEAN, packet : [name : ServerNames, n : Nat]]
      /\ new.framed /\ new.packet.name = name
  BY <1>1
<1>6. FramesOK'
  BY <1>1, <1>2, <1>3, <1>5 DEF FramesOK
<1> QED
  BY <1>2, <1>4, <1>6

\* The parts of the invariant no step of the handlers or of the tick thread changes:
\* what the client has and what is on its way from it.
LEMMA ClientKeeps ==
  ASSUME SessionInv, UNCHANGED <<toServer, client, extras, garbled>>
  PROVE  /\ (\A batch \in toServer :
               \/ batch = SettingsRequest
               \/ batch \in [framed : {TRUE}, packets : Seq([name : GameNames, n : Nat])])'
         /\ (client \in [session : Nat \ {0}, here : BOOLEAN, settings : BOOLEAN,
                         received : SUBSET [name : ServerNames, n : Nat], late : BOOLEAN])'
         /\ extras' \in Nat
         /\ (\A misread \in garbled :
               misread \in [by : {"client", "server"}, framed : BOOLEAN,
                            session : Nat \ {0}])'
         /\ FramingAgreed'
  BY DEF SessionInv, SessionTypeOK, FramingAgreed

\* A handler sends something framed: no flag changes.
LEMMA HandlerSends ==
  ASSUME SessionInv, NEW name \in ServerNames, name # "NetworkSettings",
         SendPacket(Packet(name, 0)), InGameTodo(Todo),
         InGameTodo(Todo') \/ Todo' = <<>>,
         network' = [packets |-> network.packets, todo |-> Todo'],
         network'.packets = network.packets,
         UNCHANGED <<tick, toServer, client, extras, garbled, connection>>
  PROVE  /\ SessionTypeOK' /\ FramingInv' /\ FramesOK' /\ FirstClientInv'
         /\ LateInv' /\ FramingAgreed'
         /\ sent' = sent \cup {name}
         /\ spawns' = IF name = "PlayerSpawn" THEN spawns + 1 ELSE spawns
<1> USE DEF SessionInv
<1>1. /\ Framed /\ ~ Asked(Todo) /\ ~ Telling(Todo)
      /\ ~ Asked(Todo') /\ ~ Telling(Todo')
  BY ShapesApart DEF FramingInv
<1>2. /\ FramesOK'
      /\ \A frame \in toClient' : frame \in toClient \/ frame.framed
      /\ sent' = sent \cup {name}
      /\ spawns' = IF name = "PlayerSpawn" THEN spawns + 1 ELSE spawns
  <2>1. 0 \in Nat
    OBVIOUS
  <2> QED
    BY <1>1, <2>1, FramedSend
<1>3. SessionTypeOK'
  <2>1. spawns' \in Nat
    BY <1>2 DEF SessionTypeOK
  <2> QED
    BY <2>1, ClientKeeps DEF SessionTypeOK, Todo
<1>4. (Requested <=> Requested') /\ (GamePackets <=> GamePackets')
  BY DEF Requested, GamePackets
<1>5. FramingInv'
  <2>1. ~ Requested
    BY <1>1 DEF FramingInv
  <2> QED
    BY <1>1, <1>2, <1>4, <2>1 DEF FramingInv, Framed
<1>6. FirstClientInv'
  BY <1>2, <1>4 DEF FirstClientInv
<1>7. LateInv'
  BY <1>2 DEF LateInv, Framed
<1> QED
  BY <1>2, <1>3, <1>5, <1>6, <1>7, ClientKeeps

\* The next thing a handler does.
LEMMA RunHandlerSession ==
  ASSUME SessionInv, RunHandler
  PROVE  SessionInv'
<1> USE DEF SessionInv
<1>1. /\ network' = [packets |-> network.packets, todo |-> Todo']
      /\ network'.packets = network.packets
      /\ UNCHANGED <<tick, toServer, client, extras, garbled>>
  BY RunHandlerSteps
<1>2. (Requested <=> Requested') /\ (GamePackets <=> GamePackets')
  BY <1>1 DEF Requested, GamePackets
<1>3. CASE /\ Asked(Todo) /\ Telling(Todo')
           /\ SendPacket(Packet("NetworkSettings", 0)) /\ UNCHANGED connection
  <2>1. /\ ~ Telling(Todo) /\ ~ InGameTodo(Todo) /\ ~ Asked(Todo') /\ ~ InGameTodo(Todo')
        /\ ~ Framed /\ "NetworkSettings" \notin sent
    BY <1>3, ShapesApart DEF FramingInv
  <2>2. /\ ~ HalfSetUp(Todo) /\ ~ HalfSetUp(Todo')
        /\ ~ Spawning(Todo) /\ ~ Spawning(Todo') /\ ~ Announcing(Todo')
    BY <2>1 DEF InGameTodo
  <2> DEFINE new == [framed |-> Framed, packet |-> Packet("NetworkSettings", 0)]
  <2>3. /\ toClient' = toClient \cup {new}
        /\ sent' = sent \cup {"NetworkSettings"} /\ spawns' = spawns
    BY <1>3 DEF SendPacket, Framed, Packet
  <2>4. /\ new \in [framed : BOOLEAN, packet : [name : ServerNames, n : Nat]]
        /\ ~ new.framed /\ new.packet = Packet("NetworkSettings", 0)
        /\ new.packet.name = "NetworkSettings"
    <3>1. Framed = FALSE
      BY <2>1 DEF Framed, SessionTypeOK
    <3>2. /\ Packet("NetworkSettings", 0) \in [name : ServerNames, n : Nat]
          /\ Packet("NetworkSettings", 0).name = "NetworkSettings"
      BY DEF Packet, ServerNames
    <3> QED
      BY <3>1, <3>2
  <2>5. FramesOK'
    BY <2>3, <2>4 DEF FramesOK
  <2>6. SessionTypeOK'
    BY <1>1, <1>3, <2>3, ClientKeeps DEF SessionTypeOK, Todo
  <2>7. FramingInv'
    <3>1. network.packets = <<>> /\ ~ connection.playerSpawned /\ tick = Resting
      BY <1>3, <2>1 DEF FramingInv
    <3>2. ~ Requested /\ ~ GamePackets
      BY <3>1 DEF Requested, GamePackets
    <3>3. ~ Framed' /\ ~ connection'.playerSpawned /\ tick' = Resting
      BY <1>1, <1>3, <2>1, <3>1 DEF Framed
    <3> QED
      BY <1>1, <1>2, <1>3, <2>1, <2>3, <3>1, <3>2, <3>3 DEF FramingInv
  <2>8. FirstClientInv'
    <3>1. client.session = 1 => ~ client.settings
      BY <2>1 DEF FirstClientInv
    <3>2. \A frame \in toClient' : frame \in toClient \/ ~ frame.framed
      BY <2>3, <2>4
    <3> QED
      BY <1>1, <1>2, <1>3, <2>1, <3>1, <3>2 DEF FirstClientInv
  <2>9. SetUpInv' /\ SpawnInv'
    BY <1>1, <1>3, <2>2, <2>3 DEF SetUpInv, SetUp, SpawnInv, Screen
  <2>10. LateInv'
    BY <1>1, <2>1 DEF LateInv
  <2> QED
    BY <1>1, <2>5, <2>6, <2>7, <2>8, <2>9, <2>10, ClientKeeps
<1>4. CASE /\ Telling(Todo) /\ Todo' = <<>>
           /\ connection' = [connection EXCEPT !.networkSettingsSent = TRUE]
           /\ UNCHANGED <<toClient, sent, spawns>>
  <2>1. /\ ~ Asked(Todo) /\ ~ InGameTodo(Todo) /\ ~ HalfSetUp(Todo)
        /\ ~ Asked(Todo') /\ ~ Telling(Todo') /\ ~ InGameTodo(Todo')
    BY <1>4, ShapesApart DEF InGameTodo
  <2>2. ~ HalfSetUp(Todo') /\ ~ Spawning(Todo') /\ ~ Announcing(Todo')
    BY <2>1 DEF InGameTodo
  <2>3. /\ Framed' /\ connection'.playerSpawned = connection.playerSpawned
        /\ connection' \in [networkSettingsSent : BOOLEAN, playerSpawned : BOOLEAN,
                            playerViewDistance : Nat, playerLoadedChunks : SUBSET Nat]
    BY <1>4 DEF Framed, SessionTypeOK
  <2>4. ~ Requested
    BY <1>4, <2>1, ShapesApart DEF FramingInv
  <2>5. SessionTypeOK'
    BY <1>1, <1>4, <2>3, ClientKeeps DEF SessionTypeOK, Todo
  <2>6. FramingInv' /\ FramesOK'
    BY <1>1, <1>2, <1>4, <2>1, <2>3, <2>4 DEF FramingInv, FramesOK
  <2>7. FirstClientInv'
    BY <1>1, <1>2, <1>4, <2>1, <2>3 DEF FirstClientInv
  <2>8. SetUpInv' /\ SpawnInv'
    BY <1>1, <1>4, <2>1, <2>2, <2>3 DEF SetUpInv, SetUp, SpawnInv, Screen
  <2>9. LateInv'
    BY <1>1, <1>4, <2>3 DEF LateInv
  <2> QED
    BY <1>1, <2>5, <2>6, <2>7, <2>8, <2>9, ClientKeeps
<1>5. CASE /\ LoggingIn(Todo) /\ (LoggingIn(Todo') \/ Todo' = <<>>)
           /\ \E name \in {"LoginSuccess", "ResourcePacksInfo", "ResourcePackStack"} :
                SendPacket(Packet(name, 0))
           /\ UNCHANGED connection
  <2>1. PICK name \in {"LoginSuccess", "ResourcePacksInfo", "ResourcePackStack"} :
               SendPacket(Packet(name, 0))
    BY <1>5
  <2>2. InGameTodo(Todo) /\ (InGameTodo(Todo') \/ Todo' = <<>>)
    BY <1>5 DEF InGameTodo
  <2>3. /\ SessionTypeOK' /\ FramingInv' /\ FramesOK' /\ FirstClientInv'
        /\ LateInv' /\ FramingAgreed'
        /\ sent' = sent \cup {name} /\ spawns' = spawns
    <3>1. /\ SendPacket(Packet(name, 0)) /\ InGameTodo(Todo)
          /\ InGameTodo(Todo') \/ Todo' = <<>>
          /\ UNCHANGED <<tick, toServer, client, extras, garbled, connection>>
      BY <1>1, <1>5, <2>1, <2>2
    <3>2. name \in ServerNames /\ name # "NetworkSettings"
      BY <2>1 DEF ServerNames
    <3>3. /\ SessionTypeOK' /\ FramingInv' /\ FramesOK' /\ FirstClientInv'
          /\ LateInv' /\ FramingAgreed'
          /\ sent' = sent \cup {name}
          /\ spawns' = IF name = "PlayerSpawn" THEN spawns + 1 ELSE spawns
      BY <1>1, <3>1, <3>2, HandlerSends
    <3> QED
      BY <2>1, <3>3
  <2>4. /\ ~ HalfSetUp(Todo) /\ ~ HalfSetUp(Todo')
        /\ ~ Spawning(Todo') /\ ~ Announcing(Todo')
    BY <1>5, ShapesApart DEF InGameTodo
  <2>5. SetUpInv' /\ SpawnInv'
    BY <1>1, <1>5, <2>1, <2>3, <2>4 DEF SetUpInv, SetUp, SpawnInv, Screen
  <2> QED
    BY <2>3, <2>5
<1>6. CASE /\ SettingUp(Todo) /\ HalfSetUp(Todo')
           /\ SendPacket(Packet("StartGame", 0)) /\ UNCHANGED connection
  <2>1. InGameTodo(Todo) /\ InGameTodo(Todo')
    BY <1>6 DEF InGameTodo
  <2>2. /\ SessionTypeOK' /\ FramingInv' /\ FramesOK' /\ FirstClientInv'
        /\ LateInv' /\ FramingAgreed'
        /\ sent' = sent \cup {"StartGame"} /\ spawns' = spawns
    <3>1. /\ SendPacket(Packet("StartGame", 0)) /\ InGameTodo(Todo)
          /\ InGameTodo(Todo') \/ Todo' = <<>>
          /\ UNCHANGED <<tick, toServer, client, extras, garbled, connection>>
      BY <1>1, <1>6, <2>1
    <3>2. "StartGame" \in ServerNames /\ "StartGame" # "NetworkSettings"
      BY DEF ServerNames
    <3>3. /\ SessionTypeOK' /\ FramingInv' /\ FramesOK' /\ FirstClientInv'
          /\ LateInv' /\ FramingAgreed'
          /\ sent' = sent \cup {"StartGame"}
          /\ spawns' = IF "StartGame" = "PlayerSpawn" THEN spawns + 1 ELSE spawns
      BY <1>1, <3>1, <3>2, HandlerSends
    <3> QED
      BY <2>1, <3>3
  <2>3. ~ HalfSetUp(Todo) /\ ~ Spawning(Todo') /\ ~ Announcing(Todo')
    BY <1>6, ShapesApart
  <2>4. SetUpInv' /\ SpawnInv'
    BY <1>1, <1>6, <2>2, <2>3 DEF SetUpInv, SetUp, SpawnInv, Screen
  <2> QED
    BY <2>2, <2>4
<1>7. CASE /\ HalfSetUp(Todo) /\ Todo' = <<>>
           /\ SendPacket(Packet("UpdateAbilities", 0)) /\ UNCHANGED connection
  <2>1. InGameTodo(Todo)
    BY <1>7 DEF InGameTodo
  <2>2. /\ SessionTypeOK' /\ FramingInv' /\ FramesOK' /\ FirstClientInv'
        /\ LateInv' /\ FramingAgreed'
        /\ sent' = sent \cup {"UpdateAbilities"} /\ spawns' = spawns
    <3>1. /\ SendPacket(Packet("UpdateAbilities", 0)) /\ InGameTodo(Todo)
          /\ InGameTodo(Todo') \/ Todo' = <<>>
          /\ UNCHANGED <<tick, toServer, client, extras, garbled, connection>>
      BY <1>1, <1>7, <2>1
    <3>2. "UpdateAbilities" \in ServerNames /\ "UpdateAbilities" # "NetworkSettings"
      BY DEF ServerNames
    <3>3. /\ SessionTypeOK' /\ FramingInv' /\ FramesOK' /\ FirstClientInv'
          /\ LateInv' /\ FramingAgreed'
          /\ sent' = sent \cup {"UpdateAbilities"}
          /\ spawns' = IF "UpdateAbilities" = "PlayerSpawn" THEN spawns + 1 ELSE spawns
      BY <1>1, <3>1, <3>2, HandlerSends
    <3> QED
      BY <2>1, <3>3
  <2>3. ~ HalfSetUp(Todo') /\ ~ Spawning(Todo') /\ ~ Announcing(Todo')
    <3>1. ~ InGameTodo(Todo')
      BY <1>7, ShapesApart
    <3> QED
      BY <3>1 DEF InGameTodo
  <2>4. SetUp'
    BY <1>7, <2>2 DEF SetUpInv, SetUp, GameSetUp
  <2>5. SetUpInv' /\ SpawnInv'
    BY <1>1, <1>7, <2>2, <2>3, <2>4 DEF SetUpInv, SpawnInv, Screen
  <2> QED
    BY <2>2, <2>5
<1>8. CASE /\ Widening(Todo) /\ Todo' = <<>>
           /\ \E d \in Nat : connection' = [connection EXCEPT !.playerViewDistance = d]
           /\ UNCHANGED <<toClient, sent, spawns>>
  <2>1. /\ InGameTodo(Todo) /\ ~ Asked(Todo) /\ ~ Telling(Todo) /\ ~ HalfSetUp(Todo)
        /\ ~ Asked(Todo') /\ ~ Telling(Todo') /\ ~ InGameTodo(Todo')
    BY <1>8, ShapesApart DEF InGameTodo
  <2>2. ~ HalfSetUp(Todo') /\ ~ Spawning(Todo') /\ ~ Announcing(Todo')
    BY <2>1 DEF InGameTodo
  <2>3. /\ Framed' = Framed /\ connection'.playerSpawned = connection.playerSpawned
        /\ connection' \in [networkSettingsSent : BOOLEAN, playerSpawned : BOOLEAN,
                            playerViewDistance : Nat, playerLoadedChunks : SUBSET Nat]
    BY <1>8 DEF Framed, SessionTypeOK
  <2>4. SessionTypeOK'
    BY <1>1, <1>8, <2>3, ClientKeeps DEF SessionTypeOK, Todo
  <2>5. ~ Requested
    BY <2>1, ShapesApart DEF FramingInv
  <2>6. FramingInv' /\ FramesOK'
    BY <1>1, <1>2, <1>8, <2>1, <2>3, <2>5 DEF FramingInv, FramesOK
  <2>7. FirstClientInv'
    BY <1>1, <1>2, <1>8, <2>1, <2>3 DEF FirstClientInv
  <2>8. SetUpInv' /\ SpawnInv'
    BY <1>1, <1>8, <2>1, <2>2, <2>3 DEF SetUpInv, SetUp, SpawnInv, Screen
  <2>9. LateInv'
    BY <1>1, <1>8, <2>3 DEF LateInv
  <2> QED
    BY <1>1, <2>4, <2>6, <2>7, <2>8, <2>9, ClientKeeps
<1>9. CASE /\ Spawning(Todo) /\ Announcing(Todo')
           /\ connection' = [connection EXCEPT !.playerSpawned = TRUE]
           /\ UNCHANGED <<toClient, sent, spawns>>
  <2>1. /\ InGameTodo(Todo) /\ ~ Asked(Todo) /\ ~ Telling(Todo) /\ ~ HalfSetUp(Todo)
        /\ InGameTodo(Todo') /\ ~ Asked(Todo') /\ ~ Telling(Todo')
        /\ ~ HalfSetUp(Todo') /\ ~ Spawning(Todo')
    BY <1>9, ShapesApart DEF InGameTodo
  <2>2. /\ Framed' = Framed /\ connection'.playerSpawned
        /\ connection' \in [networkSettingsSent : BOOLEAN, playerSpawned : BOOLEAN,
                            playerViewDistance : Nat, playerLoadedChunks : SUBSET Nat]
    BY <1>9 DEF Framed, SessionTypeOK
  <2>3. SessionTypeOK'
    BY <1>1, <1>9, <2>1, <2>2, ClientKeeps DEF SessionTypeOK, Todo
  <2>4. ~ Requested
    BY <2>1, ShapesApart DEF FramingInv
  <2>5. FramingInv' /\ FramesOK'
    BY <1>1, <1>2, <1>9, <2>1, <2>2, <2>4 DEF FramingInv, FramesOK
  <2>6. FirstClientInv'
    BY <1>1, <1>2, <1>9, <2>1, <2>2 DEF FirstClientInv
  <2>7. SetUpInv' /\ SpawnInv'
    BY <1>1, <1>9, <2>1, <2>2 DEF SetUpInv, SetUp, SpawnInv, Screen
  <2>8. LateInv'
    BY <1>1, <1>9, <2>2 DEF LateInv
  <2> QED
    BY <1>1, <2>3, <2>5, <2>6, <2>7, <2>8, ClientKeeps
<1>10. CASE /\ Announcing(Todo) /\ Todo' = <<>>
            /\ SendPacket(Packet("PlayerSpawn", 0)) /\ UNCHANGED connection
  <2>1. InGameTodo(Todo)
    BY <1>10 DEF InGameTodo
  <2>2. /\ SessionTypeOK' /\ FramingInv' /\ FramesOK' /\ FirstClientInv'
        /\ LateInv' /\ FramingAgreed'
        /\ sent' = sent \cup {"PlayerSpawn"} /\ spawns' = spawns + 1
    <3>1. /\ SendPacket(Packet("PlayerSpawn", 0)) /\ InGameTodo(Todo)
          /\ InGameTodo(Todo') \/ Todo' = <<>>
          /\ UNCHANGED <<tick, toServer, client, extras, garbled, connection>>
      BY <1>1, <1>10, <2>1
    <3>2. "PlayerSpawn" \in ServerNames /\ "PlayerSpawn" # "NetworkSettings"
      BY DEF ServerNames
    <3>3. /\ SessionTypeOK' /\ FramingInv' /\ FramesOK' /\ FirstClientInv'
          /\ LateInv' /\ FramingAgreed'
          /\ sent' = sent \cup {"PlayerSpawn"}
          /\ spawns' = IF "PlayerSpawn" = "PlayerSpawn" THEN spawns + 1 ELSE spawns
      BY <1>1, <3>1, <3>2, HandlerSends
    <3> QED
      BY <2>1, <3>3
  <2>3. ~ HalfSetUp(Todo) /\ ~ HalfSetUp(Todo') /\ ~ Spawning(Todo') /\ ~ Announcing(Todo')
    <3>1. ~ InGameTodo(Todo')
      BY <1>10, ShapesApart
    <3> QED
      BY <1>10, <3>1, ShapesApart DEF InGameTodo
  <2>4. SetUpInv' /\ SpawnInv'
    BY <1>1, <1>10, <2>2, <2>3 DEF SetUpInv, SetUp, SpawnInv, Screen
  <2> QED
    BY <2>2, <2>4
<1> QED
  BY <1>3, <1>4, <1>5, <1>6, <1>7, <1>8, <1>9, <1>10, RunHandlerSteps

\* The tick thread's steps: it has something to send only for a player that spawned.
LEMMA TickSession ==
  ASSUME SessionInv, TickStep
  PROVE  SessionInv'
<1> USE DEF SessionInv
<1>1. Todo' = Todo /\ (Requested <=> Requested') /\ (GamePackets <=> GamePackets')
  BY DEF TickStep, Generate, SendChunk, SendUpdate, Todo, Requested, GamePackets
<1>2. CASE Generate
  <2>1. /\ connection.playerSpawned /\ connection'.playerSpawned = connection.playerSpawned
        /\ Framed' = Framed
        /\ UNCHANGED <<network, toServer, toClient, client, extras, sent, spawns, garbled>>
    BY <1>2 DEF Generate, history, Framed, SessionTypeOK
  <2>2. /\ connection' \in [networkSettingsSent : BOOLEAN, playerSpawned : BOOLEAN,
                            playerViewDistance : Nat, playerLoadedChunks : SUBSET Nat]
        /\ tick' \in [chunks : SUBSET Nat, update : BOOLEAN]
    <3> DEFINE desired == 0 .. Distance
               new == NewChunks(desired)
    <3>1. new \subseteq Nat
      BY DEF NewChunks
    <3>2. connection' = [connection EXCEPT !.playerLoadedChunks =
                           (connection.playerLoadedChunks \cap desired) \cup new]
      BY <1>2 DEF Generate
    <3>3. tick' = [chunks |-> new, update |-> new # {}]
      BY <1>2 DEF Generate
    <3>4. (new # {}) \in BOOLEAN
      OBVIOUS
    <3> HIDE DEF new, desired
    <3> QED
      BY <3>1, <3>2, <3>3, <3>4 DEF SessionTypeOK
  <2>3. SessionTypeOK'
    BY <2>1, <2>2, ClientKeeps DEF SessionTypeOK, Todo
  <2>4. FramingInv' /\ FramesOK'
    BY <1>1, <2>1 DEF FramingInv, FramesOK
  <2>5. FirstClientInv' /\ LateInv'
    BY <1>1, <2>1 DEF FirstClientInv, LateInv
  <2>6. SetUpInv' /\ SpawnInv'
    BY <1>1, <2>1 DEF SetUpInv, SetUp, SpawnInv, Screen
  <2> QED
    BY <2>1, <2>3, <2>4, <2>5, <2>6, ClientKeeps
<1>3. CASE SendChunk \/ SendUpdate
  <2>1. /\ UNCHANGED <<connection, network, toServer, client, extras, garbled>>
        /\ tick # Resting
        /\ tick' \in [chunks : SUBSET Nat, update : BOOLEAN]
        /\ \E name \in {"LevelChunk", "NetworkChunkPublisherUpdate"}, n \in Nat :
             SendPacket(Packet(name, n))
    <3>1. CASE SendChunk
      <4>1. PICK c \in tick.chunks :
                   /\ tick' = [tick EXCEPT !.chunks = @ \ {c}]
                   /\ SendPacket(Packet("LevelChunk", c))
        BY <3>1 DEF SendChunk
      <4>2. c \in Nat /\ tick' \in [chunks : SUBSET Nat, update : BOOLEAN]
        BY <4>1 DEF SessionTypeOK
      <4>3. tick # Resting
        BY DEF Resting
      <4> QED
        BY <3>1, <4>1, <4>2, <4>3 DEF SendChunk
    <3>2. CASE SendUpdate
      <4>1. /\ tick' = Resting /\ tick.update
            /\ SendPacket(Packet("NetworkChunkPublisherUpdate", Distance))
        BY <3>2 DEF SendUpdate
      <4>2. Distance \in Nat
        BY DEF Distance, SessionTypeOK
      <4>3. tick # Resting /\ Resting \in [chunks : SUBSET Nat, update : BOOLEAN]
        BY <4>1 DEF Resting
      <4> QED
        BY <3>2, <4>1, <4>2, <4>3 DEF SendUpdate
    <3> QED
      BY <1>3, <3>1, <3>2
  <2>2. PICK name \in {"LevelChunk", "NetworkChunkPublisherUpdate"}, n \in Nat :
               SendPacket(Packet(name, n))
    BY <2>1
  <2>3. /\ connection.playerSpawned /\ Framed /\ SetUp /\ Framed' = Framed
        /\ connection'.playerSpawned
    BY <2>1 DEF FramingInv, SetUpInv, Framed
  <2>4. name \in ServerNames /\ name # "NetworkSettings" /\ name # "PlayerSpawn"
        /\ name # "StartGame"
    BY <2>2 DEF ServerNames
  <2>5. /\ FramesOK'
        /\ \A frame \in toClient' : frame \in toClient \/ frame.framed
        /\ sent' = sent \cup {name} /\ spawns' = spawns
    <3>1. spawns' = IF name = "PlayerSpawn" THEN spawns + 1 ELSE spawns
      BY <2>2, <2>3, <2>4, FramedSend
    <3>2. /\ FramesOK'
          /\ \A frame \in toClient' : frame \in toClient \/ frame.framed
          /\ sent' = sent \cup {name}
      BY <2>2, <2>3, <2>4, FramedSend
    <3> QED
      BY <2>4, <3>1, <3>2
  <2>6. SessionTypeOK'
    BY <2>1, <2>5, ClientKeeps DEF SessionTypeOK, Todo
  <2>7. FramingInv'
    BY <1>1, <2>1, <2>3, <2>4, <2>5 DEF FramingInv
  <2>8. FirstClientInv'
    BY <1>1, <2>1, <2>3, <2>5 DEF FirstClientInv
  <2>9. SetUpInv' /\ SpawnInv'
    <3>1. SetUp'
      BY <2>3, <2>5 DEF SetUp
    <3> QED
      BY <1>1, <2>1, <2>3, <2>5, <3>1 DEF SetUpInv, SpawnInv, Screen
  <2>10. LateInv'
    BY <2>1, <2>3, <2>5 DEF LateInv
  <2> QED
    BY <2>1, <2>5, <2>6, <2>7, <2>8, <2>9, <2>10, ClientKeeps
<1> QED
  BY <1>2, <1>3 DEF TickStep

\* A client answers with framed batches of the game's packets; the loading screen is
\* announced in the answers to two packets.
LEMMA RepliesTyped ==
  ASSUME NEW name, NEW batch \in Replies(name)
  PROVE  /\ batch \in [framed : {TRUE}, packets : Seq([name : GameNames, n : Nat])]
         /\ batch.framed
         /\ Screen(batch.packets) => name \in {"StartGame", "PlayerSpawn"}
<1> DEFINE Good(p, n) == Batch(TRUE, <<Packet(p, n)>>)
<1>1. ASSUME NEW p \in GameNames, NEW n \in Nat, batch = Good(p, n)
      PROVE  /\ batch \in [framed : {TRUE}, packets : Seq([name : GameNames, n : Nat])]
             /\ batch.framed
             /\ Screen(batch.packets) => p = "ServerboundLoadingScreen"
  <2>1. <<Packet(p, n)>> \in Seq([name : GameNames, n : Nat])
    BY DEF Packet
  <2>2. batch = [framed |-> TRUE, packets |-> <<Packet(p, n)>>]
    BY <1>1 DEF Batch
  <2>3. Screen(<<Packet(p, n)>>) => p = "ServerboundLoadingScreen"
    BY DEF Screen, Packet
  <2> QED
    BY <2>1, <2>2, <2>3
<1>2. CASE name = "NetworkSettings"
  <2>1. batch = Good("Login", 0)
    BY <1>2 DEF Replies
  <2> QED
    BY <1>1, <2>1 DEF GameNames
<1>3. CASE name = "ResourcePacksInfo"
  <2>1. batch = Good("HaveAllPacks", 0)
    BY <1>3 DEF Replies
  <2> QED
    BY <1>1, <2>1 DEF GameNames
<1>4. CASE name = "ResourcePackStack"
  <2>1. batch = Good("Completed", 0)
    BY <1>4 DEF Replies
  <2> QED
    BY <1>1, <2>1 DEF GameNames
<1>5. CASE name = "StartGame"
  <2>1. \/ batch = Good("RequestChunkRadius", Smallest)
        \/ batch = Good("ServerboundLoadingScreen", 0)
    BY <1>5 DEF Replies
  <2> QED
    BY <1>1, <1>5, <2>1, SmallestIsDistance DEF GameNames
<1>6. CASE name = "PlayerSpawn"
  <2> DEFINE two == <<Packet("ServerboundLoadingScreen", 0), Packet("PlayerAuthInput", 0)>>
  <2>1. batch = [framed |-> TRUE, packets |-> two]
    BY <1>6 DEF Replies, Batch
  <2>2. two \in Seq([name : GameNames, n : Nat])
    BY DEF Packet, GameNames
  <2> HIDE DEF two
  <2> QED
    BY <1>6, <2>1, <2>2
<1> QED
  BY <1>2, <1>3, <1>4, <1>5, <1>6 DEF Replies

\* A frame gets to the client.  The first client reads it, and what it reads of a
\* frame without the compression byte is the settings.
LEMMA ReceiveSession ==
  ASSUME SessionInv, NEW frame \in toClient, Receive(frame)
  PROVE  SessionInv'
<1> USE DEF SessionInv
<1>1. /\ toClient' = toClient \ {frame}
      /\ UNCHANGED <<connection, network, tick, extras, sent, spawns>>
  BY DEF Receive
<1>2. /\ Todo' = Todo /\ Framed' = Framed /\ SetUp' = SetUp
      /\ (Requested <=> Requested') /\ (GamePackets <=> GamePackets')
  BY <1>1 DEF Todo, Framed, SetUp, Requested, GamePackets
<1>3. FramingInv' /\ FramesOK' /\ SpawnInv'
  BY <1>1, <1>2 DEF FramingInv, FramesOK, SpawnInv
<1>4. /\ frame.framed \in BOOLEAN /\ client.settings \in BOOLEAN
      /\ frame.packet \in [name : ServerNames, n : Nat]
      /\ frame.packet.name \in sent
      /\ ~ frame.framed => frame.packet.name = "NetworkSettings"
  BY DEF FramesOK, SessionTypeOK, Packet
<1>5. CASE frame.framed = client.settings
  <2> DEFINE name == frame.packet.name
  <2>1. /\ client' = [client EXCEPT
              !.settings = @ \/ name = "NetworkSettings",
              !.received = @ \cup {frame.packet}]
        /\ toServer' = IF frame.packet \in client.received THEN toServer
                       ELSE toServer \cup Replies(name)
        /\ UNCHANGED garbled
    BY <1>5 DEF Receive
  <2>2. /\ client'.session = client.session /\ client'.late = client.late
        /\ client'.settings /\ ~ client.late
        /\ client' \in [session : Nat \ {0}, here : BOOLEAN, settings : BOOLEAN,
                        received : SUBSET [name : ServerNames, n : Nat], late : BOOLEAN]
    <3>1. (client.settings \/ name = "NetworkSettings") = TRUE
      BY <1>4, <1>5
    <3>2. client' = [client EXCEPT !.settings = TRUE,
                                   !.received = client.received \cup {frame.packet}]
      BY <2>1, <3>1
    <3>3. ~ client.late
      BY <1>5 DEF LateInv
    <3> QED
      BY <1>4, <3>2, <3>3 DEF SessionTypeOK
  <2>3. \A batch \in toServer' : batch \in toServer \/ batch \in Replies(name)
    BY <2>1
  <2>4. SessionTypeOK'
    <3>1. \A batch \in toServer' :
             \/ batch = SettingsRequest
             \/ batch \in [framed : {TRUE}, packets : Seq([name : GameNames, n : Nat])]
      BY <2>3, RepliesTyped DEF SessionTypeOK
    <3> QED
      BY <1>1, <1>2, <2>1, <2>2, <3>1 DEF SessionTypeOK
  <2>5. FirstClientInv'
    <3>1. client.session = 1 => "NetworkSettings" \in sent
      BY <1>4, <1>5 DEF FirstClientInv
    <3>2. ASSUME client.session = 1, NEW other \in toClient'
          PROVE  other.framed
      <4>1. CASE client.settings
        BY <1>1, <3>2, <4>1 DEF FirstClientInv
      <4>2. CASE ~ client.settings
        <5>1. /\ frame = [framed |-> frame.framed, packet |-> frame.packet]
              /\ other = [framed |-> other.framed, packet |-> other.packet]
              /\ other.framed \in BOOLEAN
          BY <1>1 DEF FramesOK
        <5>2. ~ frame.framed
          BY <1>5, <4>2
        <5>3. SUFFICES ASSUME ~ other.framed PROVE FALSE
          OBVIOUS
        <5>4. frame.packet = other.packet /\ frame.framed = other.framed
          BY <1>1, <1>4, <5>1, <5>2, <5>3 DEF FramesOK
        <5> QED
          BY <1>1, <5>1, <5>4
      <4> QED
        BY <4>1, <4>2
    <3> QED
      BY <1>1, <2>2, <3>1, <3>2 DEF FirstClientInv
  <2>6. SetUpInv'
    <3>1. ASSUME NEW batch \in toServer', Screen(batch.packets)
          PROVE  "StartGame" \in sent
      <4>1. CASE batch \in toServer
        BY <3>1, <4>1 DEF SetUpInv
      <4>2. CASE batch \in Replies(name)
        <5>1. name \in {"StartGame", "PlayerSpawn"}
          BY <3>1, <4>2, RepliesTyped
        <5>2. SetUp => "StartGame" \in sent
          BY DEF SetUp, GameSetUp
        <5> QED
          BY <1>4, <5>1, <5>2 DEF SetUpInv
      <4> QED
        BY <2>3, <4>1, <4>2
    <3> QED
      BY <1>1, <1>2, <3>1 DEF SetUpInv, Screen
  <2>7. LateInv' /\ FramingAgreed'
    BY <2>1, <2>2 DEF LateInv, FramingAgreed
  <2> QED
    BY <1>3, <2>4, <2>5, <2>6, <2>7
<1>6. CASE frame.framed # client.settings
  <2>1. /\ garbled' = garbled \cup {Misread("client", frame.framed)}
        /\ UNCHANGED <<client, toServer>>
    BY <1>6 DEF Receive
  <2>2. client.session # 1
    BY <1>4, <1>6 DEF FirstClientInv
  <2>3. /\ Misread("client", frame.framed) \in
              [by : {"client", "server"}, framed : BOOLEAN, session : Nat \ {0}]
        /\ Misread("client", frame.framed).session # 1
    BY <1>4, <2>2 DEF Misread, SessionTypeOK
  <2>4. SessionTypeOK' /\ FramingAgreed'
    BY <1>1, <1>2, <2>1, <2>3 DEF SessionTypeOK, FramingAgreed
  <2>5. FirstClientInv' /\ LateInv'
    BY <1>1, <1>2, <2>1, <2>2 DEF FirstClientInv, LateInv
  <2>6. SetUpInv'
    BY <1>1, <1>2, <2>1 DEF SetUpInv, Screen
  <2> QED
    BY <1>3, <2>4, <2>5, <2>6
<1> QED
  BY <1>5, <1>6

\* What no step of the client changes, if no frame is added.
LEMMA ServerKeeps ==
  ASSUME SessionInv, UNCHANGED <<connection, network, tick, sent, spawns, garbled>>,
         toClient' \subseteq toClient
  PROVE  /\ FramingInv' /\ FramesOK' /\ SpawnInv' /\ FramingAgreed'
         /\ Todo' = Todo /\ Framed' = Framed /\ SetUp' = SetUp
         /\ (Requested <=> Requested') /\ (GamePackets <=> GamePackets')
<1>1. /\ Todo' = Todo /\ Framed' = Framed /\ SetUp' = SetUp
      /\ (Requested <=> Requested') /\ (GamePackets <=> GamePackets')
  BY DEF Todo, Framed, SetUp, Requested, GamePackets
<1>2. FramingInv' /\ FramesOK' /\ SpawnInv' /\ FramingAgreed'
  BY <1>1 DEF SessionInv, FramingInv, FramesOK, SpawnInv, FramingAgreed
<1> QED
  BY <1>1, <1>2

\* A new view distance is asked for in the game only, by a client that has read.
LEMMA ChangeRadiusSession ==
  ASSUME SessionInv, NEW distance \in Distances, ChangeRadius(distance)
  PROVE  SessionInv'
<1> USE DEF SessionInv
<1> DEFINE new == Batch(TRUE, <<Packet("RequestChunkRadius", distance)>>)
<1>1. /\ toServer' = toServer \cup {new} /\ extras' = extras + 1
      /\ UNCHANGED <<connection, network, tick, toClient, client, sent, spawns, garbled>>
      /\ client.received # {}
  BY DEF ChangeRadius, InGame, history
<1>2. /\ FramingInv' /\ FramesOK' /\ SpawnInv' /\ FramingAgreed'
      /\ Todo' = Todo /\ Framed' = Framed /\ SetUp' = SetUp
      /\ (Requested <=> Requested') /\ (GamePackets <=> GamePackets')
  BY <1>1, ServerKeeps
<1>3. /\ new \in [framed : {TRUE}, packets : Seq([name : GameNames, n : Nat])]
      /\ ~ Screen(new.packets)
  <2>1. distance \in Nat
    BY DistancesAssumption
  <2>2. <<Packet("RequestChunkRadius", distance)>> \in Seq([name : GameNames, n : Nat])
    BY <2>1 DEF Packet, GameNames
  <2>3. new = [framed |-> TRUE, packets |-> <<Packet("RequestChunkRadius", distance)>>]
    BY DEF Batch
  <2>4. ~ Screen(<<Packet("RequestChunkRadius", distance)>>)
    BY DEF Screen, Packet
  <2> HIDE DEF SessionInv, new
  <2>5. new.packets = <<Packet("RequestChunkRadius", distance)>>
    BY <2>3
  <2>6. ~ Screen(new.packets)
    BY <2>4, <2>5
  <2> QED
    BY <2>2, <2>3, <2>6
<1> HIDE DEF new
<1>4. SessionTypeOK'
  <2>1. extras' \in Nat
    BY <1>1 DEF SessionTypeOK
  <2>2. \A batch \in toServer' :
           \/ batch = SettingsRequest
           \/ batch \in [framed : {TRUE}, packets : Seq([name : GameNames, n : Nat])]
    BY <1>1, <1>3 DEF SessionTypeOK
  <2> QED
    BY <1>1, <1>2, <2>1, <2>2 DEF SessionTypeOK
<1>5. FirstClientInv' /\ LateInv'
  BY <1>1, <1>2 DEF FirstClientInv, LateInv
<1>6. SetUpInv'
  BY <1>1, <1>2, <1>3 DEF SetUpInv, Screen
<1> QED
  BY <1>2, <1>4, <1>5, <1>6

\* A client leaves: what was on its way to it is lost.
LEMMA LeaveSession ==
  ASSUME SessionInv, Leave
  PROVE  SessionInv'
<1> USE DEF SessionInv
<1>1. /\ client' = [client EXCEPT !.here = FALSE] /\ toClient' = {}
      /\ UNCHANGED <<connection, network, tick, toServer, extras, sent, spawns, garbled>>
  BY DEF Leave, history
<1>2. /\ FramingInv' /\ FramesOK' /\ SpawnInv' /\ FramingAgreed'
      /\ Todo' = Todo /\ Framed' = Framed /\ SetUp' = SetUp
      /\ (Requested <=> Requested') /\ (GamePackets <=> GamePackets')
  BY <1>1, ServerKeeps
<1>3. /\ client'.session = client.session /\ client'.settings = client.settings
      /\ client'.received = client.received /\ client'.late = client.late
      /\ client' \in [session : Nat \ {0}, here : BOOLEAN, settings : BOOLEAN,
                      received : SUBSET [name : ServerNames, n : Nat], late : BOOLEAN]
  BY <1>1 DEF SessionTypeOK
<1>4. SessionTypeOK'
  BY <1>1, <1>2, <1>3 DEF SessionTypeOK
<1>5. FirstClientInv' /\ LateInv'
  BY <1>1, <1>2, <1>3 DEF FirstClientInv, LateInv
<1>6. SetUpInv'
  BY <1>1, <1>2 DEF SetUpInv, Screen
<1> QED
  BY <1>2, <1>4, <1>5, <1>6

\* A client comes back: whether it is late for the settings is known then.
LEMMA ReturnSession ==
  ASSUME SessionInv, Return
  PROVE  SessionInv'
<1> USE DEF SessionInv
<1>1. /\ client' = NewClient(client.session + 1, Framed) /\ toClient' = {}
      /\ toServer' = toServer \cup {SettingsRequest}
      /\ UNCHANGED <<connection, network, tick, extras, sent, spawns, garbled>>
  BY DEF Return, history, Framed
<1>2. /\ FramingInv' /\ FramesOK' /\ SpawnInv' /\ FramingAgreed'
      /\ Todo' = Todo /\ Framed' = Framed /\ SetUp' = SetUp
      /\ (Requested <=> Requested') /\ (GamePackets <=> GamePackets')
  BY <1>1, ServerKeeps
<1>3. /\ client'.session # 1 /\ ~ client'.settings /\ client'.received = {}
      /\ client'.late = Framed
      /\ client' \in [session : Nat \ {0}, here : BOOLEAN, settings : BOOLEAN,
                      received : SUBSET [name : ServerNames, n : Nat], late : BOOLEAN]
  <2>1. client.session \in Nat \ {0} /\ Framed \in BOOLEAN
    BY DEF SessionTypeOK, Framed
  <2>2. client.session + 1 \in Nat \ {0} /\ client.session + 1 # 1
    BY <2>1
  <2> HIDE DEF SessionInv
  <2> QED
    BY <1>1, <2>1, <2>2 DEF NewClient
<1>4. ~ Screen(SettingsRequest.packets)
  BY DEF SettingsRequest, Batch, Screen, Packet
<1>5. SessionTypeOK'
  BY <1>1, <1>2, <1>3 DEF SessionTypeOK
<1>6. FirstClientInv' /\ LateInv'
  BY <1>1, <1>2, <1>3 DEF FirstClientInv, LateInv
<1>7. SetUpInv'
  BY <1>1, <1>2, <1>4 DEF SetUpInv, Screen
<1> QED
  BY <1>2, <1>5, <1>6, <1>7

\* Nothing of it is about the handshake's variables.
LEMMA StutterSession ==
  ASSUME SessionInv, UNCHANGED vars
  PROVE  SessionInv'
<1>1. UNCHANGED <<connection, network, tick, toServer, toClient, client, extras,
                  sent, spawns, garbled>>
  BY DEF vars, history
<1>2. /\ FramingInv' /\ FramesOK' /\ SpawnInv' /\ FramingAgreed'
      /\ Todo' = Todo /\ Framed' = Framed /\ SetUp' = SetUp
      /\ (Requested <=> Requested') /\ (GamePackets <=> GamePackets')
  BY <1>1, ServerKeeps
<1>3. SessionTypeOK'
  BY <1>1, <1>2 DEF SessionInv, SessionTypeOK
<1>4. FirstClientInv' /\ LateInv' /\ SetUpInv'
  BY <1>1, <1>2 DEF SessionInv, FirstClientInv, LateInv, SetUpInv, Screen
<1> QED
  BY <1>2, <1>3, <1>4 DEF SessionInv

\* Every step of the two threads and of the client.
LEMMA StepSession ==
  ASSUME SessionInv, [Next]_vars
  PROVE  SessionInv'
<1>1. CASE \E batch \in toServer : HandleData(batch)
  BY <1>1, HandleDataSession
<1>2. CASE HandlePacket
  BY <1>2, HandlePacketSession
<1>3. CASE RunHandler
  BY <1>3, RunHandlerSession
<1>4. CASE TickStep
  BY <1>4, TickSession
<1>5. CASE \E frame \in toClient : Receive(frame)
  BY <1>5, ReceiveSession
<1>6. CASE \E distance \in Distances : ChangeRadius(distance)
  BY <1>6, ChangeRadiusSession
<1>7. CASE Leave
  BY <1>7, LeaveSession
<1>8. CASE Return
  BY <1>8, ReturnSession
<1>9. CASE UNCHANGED vars
  BY <1>9, StutterSession
<1> QED
  BY <1>1, <1>2, <1>3, <1>4, <1>5, <1>6, <1>7, <1>8, <1>9
     DEF Next, NetworkStep, ClientStep

\* The session's invariant holds of every behaviour of the connection: the handshake
\* leaves the session alone.
LEMMA SessionInvariant == ConnectionSpec => []SessionInv
<1>1. ConnectionInit => SessionInv
  BY InitSession DEF ConnectionInit
<1>2. SessionInv /\ [ConnectionNext]_<<vars, openingVars>> => SessionInv'
  <2> SUFFICES ASSUME SessionInv, [ConnectionNext]_<<vars, openingVars>>
               PROVE  SessionInv'
    OBVIOUS
  <2>1. [Next]_vars
    BY DEF ConnectionNext, OpeningStep, Establish, SessionStep
  <2> QED
    BY <2>1, StepSession
<1> QED
  BY <1>1, <1>2, PTL DEF ConnectionSpec

-----------------------------------------------------------------------------
(* What follows of it.                                                     *)

\* In every behaviour the two sides change the framing at the same point: the first
\* client reads all it gets, and the server drops of its batches at most a second
\* request for the settings, whatever arrives in which order, and twice.
THEOREM FramingAlwaysAgreed == ConnectionSpec => []FramingAgreed
<1>1. SessionInv => FramingAgreed
  BY DEF SessionInv
<1> QED
  BY <1>1, SessionInvariant, PTL

\* In every behaviour the game is set up before the player is spawned and before the
\* tick thread sends anything of it; and the player is spawned once at most.
THEOREM GameAlwaysSetUpFirst == ConnectionSpec => []GameSetUpFirst
<1>1. SessionInv => GameSetUpFirst
  BY DEF SessionInv, SetUpInv, SpawnInv, GameSetUpFirst, SetUp
<1> QED
  BY <1>1, SessionInvariant, PTL

\* In every behaviour a client that comes back after the settings were told reads
\* nothing.
THEOREM OldConnectionsDeaf == ConnectionSpec => []OldConnectionDeaf
<1>1. SessionInv => OldConnectionDeaf
  BY DEF SessionInv, LateInv, OldConnectionDeaf
<1> QED
  BY <1>1, SessionInvariant, PTL

-----------------------------------------------------------------------------
(* The handshake: what the mtu is settled from.                            *)

\* A size that got through, with its header, and no more than the server's ideal.
Fits(m) == m \in Nat /\ m - Opening!UdpHeaderSize <= path /\ m <= Opening!IdealMaxMtuSize

\* An mtu that is offered, asked for or taken fits; no reply is too large.
HandshakeInv ==
    /\ path \in Nat /\ guid \in 0 .. 20 /\ ~ overrun
    /\ \A request \in requests :
         /\ request.name = "OpenConnectionRequest1" => request.n <= path
         /\ request.name = "OpenConnectionRequest2" => Fits(request.n)
    /\ \A reply \in replies : reply.name = "OpenConnectionReply1" => Fits(reply.n)
    /\ opener \in [at : {"asking", "opening", "connected", "in session"}, offered : Nat]
    /\ opener.at = "opening" => Fits(opener.offered)
    /\ mtu = 0 \/ Fits(mtu)

\* Every reply of the server fits the array it is built in.
LEMMA RepliesFitTheirBuffers ==
  ASSUME HandshakeInv
  PROVE  /\ ~ Opening!PongSize > Opening!BufferFor(34 + 69)
         /\ ~ Opening!Reply1Size > Opening!BufferFor(31)
         /\ ~ Opening!Reply2Size > Opening!BufferFor(34)
<1>1. guid \in 0 .. 20
  BY DEF HandshakeInv
<1> QED
  BY <1>1
     DEF Opening!PongSize, Opening!Reply1Size, Opening!Reply2Size, Opening!BufferFor

\* What is offered for a request that got through fits.
LEMMA OfferFits ==
  ASSUME NEW size \in Nat, path \in Nat, size <= path
  PROVE  Fits(Opening!OfferedMtu(size))
  BY DEF Fits, Opening!OfferedMtu, Opening!UdpHeaderSize, Opening!IdealMaxMtuSize

\* The server's three handlers.
LEMMA ServerHandshake ==
  ASSUME HandshakeInv, Opening!Server
  PROVE  HandshakeInv'
<1> USE DEF HandshakeInv
<1>1. CASE Opening!HandlePing
  <2>1. /\ requests' \subseteq requests /\ replies' = replies \cup {Opening!Pong}
        /\ overrun' = (overrun \/ Opening!PongSize > Opening!BufferFor(34 + 69))
        /\ UNCHANGED <<path, guid, opener, mtu>>
    BY <1>1 DEF Opening!HandlePing, Opening!Answer
  <2>2. ~ overrun'
    BY <2>1, RepliesFitTheirBuffers
  <2>3. Opening!Pong.name # "OpenConnectionReply1"
    BY DEF Opening!Pong
  <2> QED
    BY <2>1, <2>2, <2>3 DEF Fits
<1>2. CASE \E size \in RequestSizes : Opening!HandleRequest1(size)
  <2>1. PICK size \in RequestSizes : Opening!HandleRequest1(size)
    BY <1>2
  <2> DEFINE reply == Opening!Reply1(Opening!OfferedMtu(size))
  <2>2. /\ requests' \subseteq requests /\ replies' = replies \cup {reply}
        /\ Opening!Request1(size) \in requests
        /\ overrun' = (overrun \/ Opening!Reply1Size > Opening!BufferFor(31))
        /\ UNCHANGED <<path, guid, opener, mtu>>
    BY <2>1 DEF Opening!HandleRequest1, Opening!Answer
  <2>3. ~ overrun'
    BY <2>2, RepliesFitTheirBuffers
  <2>4. Fits(Opening!OfferedMtu(size))
    <3>1. size \in Nat
      BY OpeningAssumption DEF Opening!SizesAssumption
    <3>2. size <= path
      BY <2>2 DEF Opening!Request1
    <3> QED
      BY <3>1, <3>2, OfferFits
  <2>5. reply.n = Opening!OfferedMtu(size)
    BY DEF Opening!Reply1
  <2>6. Fits(reply.n)
    BY <2>4, <2>5
  <2> HIDE DEF reply
  <2> QED
    BY <2>2, <2>3, <2>6 DEF Fits
<1>3. CASE \E m \in Opening!Mtus : Opening!HandleRequest2(m)
  <2>1. PICK m \in Opening!Mtus : Opening!HandleRequest2(m)
    BY <1>3
  <2>2. /\ requests' \subseteq requests /\ replies' = replies \cup {Opening!Reply2}
        /\ Opening!Request2(m) \in requests
        /\ mtu' = IF mtu = 0 THEN m ELSE mtu
        /\ overrun' = (overrun \/ Opening!Reply2Size > Opening!BufferFor(34))
        /\ UNCHANGED <<path, guid, opener>>
    BY <2>1 DEF Opening!HandleRequest2, Opening!Answer
  <2>3. ~ overrun'
    BY <2>2, RepliesFitTheirBuffers
  <2>4. Fits(m)
    <3>1. Opening!Request2(m).name = "OpenConnectionRequest2" /\ Opening!Request2(m).n = m
      BY DEF Opening!Request2
    <3> QED
      BY <2>2, <3>1
  <2>5. Opening!Reply2.name # "OpenConnectionReply1"
    BY DEF Opening!Reply2
  <2> QED
    BY <2>2, <2>3, <2>4, <2>5 DEF Fits
<1> QED
  BY <1>1, <1>2, <1>3 DEF Opening!Server

\* What the client asks for, and takes.
LEMMA ClientHandshake ==
  ASSUME HandshakeInv, Opening!Client
  PROVE  HandshakeInv'
<1> USE DEF HandshakeInv
<1>0. ASSUME NEW datagram, Opening!Send(datagram),
             datagram.name = "OpenConnectionRequest1" => datagram.n <= path,
             datagram.name = "OpenConnectionRequest2" => Fits(datagram.n)
      PROVE  HandshakeInv'
  BY <1>0 DEF Opening!Send, Fits
<1>1. CASE Opening!SendPing
  <2>1. /\ Opening!Ping.name # "OpenConnectionRequest1"
        /\ Opening!Ping.name # "OpenConnectionRequest2"
    BY DEF Opening!Ping
  <2>2. Opening!Send(Opening!Ping)
    BY <1>1 DEF Opening!SendPing
  <2> HIDE DEF HandshakeInv
  <2> QED
    BY <1>0, <2>1, <2>2
<1>2. CASE \E size \in RequestSizes : Opening!Ask(size)
  <2>1. PICK size \in RequestSizes : Opening!Ask(size)
    BY <1>2
  <2>2. /\ Opening!Request1(size).name = "OpenConnectionRequest1"
        /\ Opening!Request1(size).n = size
    BY DEF Opening!Request1
  <2>3. size <= path /\ Opening!Send(Opening!Request1(size))
    BY <2>1 DEF Opening!Ask
  <2> HIDE DEF HandshakeInv
  <2> QED
    BY <1>0, <2>2, <2>3
<1>3. CASE Opening!Open
  <2>1. /\ Opening!Request2(opener.offered).name = "OpenConnectionRequest2"
        /\ Opening!Request2(opener.offered).n = opener.offered
    BY DEF Opening!Request2
  <2>2. Fits(opener.offered) /\ Opening!Send(Opening!Request2(opener.offered))
    BY <1>3 DEF Opening!Open
  <2> HIDE DEF HandshakeInv
  <2> QED
    BY <1>0, <2>1, <2>2
<1>4. CASE \E datagram \in replies : Opening!Receive(datagram)
  <2>1. PICK datagram \in replies : Opening!Receive(datagram)
    BY <1>4
  <2>2. /\ replies' \subseteq replies
        /\ UNCHANGED <<path, guid, requests, mtu, overrun>>
    BY <2>1 DEF Opening!Receive
  <2>3. \/ /\ datagram.name = "OpenConnectionReply1"
           /\ opener' = [at |-> "opening", offered |-> datagram.n]
        \/ opener' = [opener EXCEPT !.at = "connected"]
        \/ opener' = opener
    <3>1. opener' =
            CASE datagram.name = "OpenConnectionReply1" /\ opener.at = "asking" ->
                   [at |-> "opening", offered |-> datagram.n]
              [] datagram = Opening!Reply2 -> [opener EXCEPT !.at = "connected"]
              [] OTHER -> opener
      BY <2>1 DEF Opening!Receive
    <3>2. CASE datagram.name = "OpenConnectionReply1" /\ opener.at = "asking"
      <4>1. Opening!Reply2.name # "OpenConnectionReply1"
        BY DEF Opening!Reply2
      <4> HIDE DEF HandshakeInv
      <4> QED
        BY <3>1, <3>2, <4>1
    <3>3. CASE ~ (datagram.name = "OpenConnectionReply1" /\ opener.at = "asking")
      <4> HIDE DEF HandshakeInv
      <4> QED
        BY <3>1, <3>3
    <3> QED
      BY <3>2, <3>3
  <2>4. /\ opener' \in [at : {"asking", "opening", "connected", "in session"}, offered : Nat]
        /\ opener'.at = "opening" => Fits(opener'.offered)
    <3>1. CASE /\ datagram.name = "OpenConnectionReply1"
               /\ opener' = [at |-> "opening", offered |-> datagram.n]
      <4>1. Fits(datagram.n) /\ datagram.n \in Nat
        BY <3>1 DEF Fits
      <4> QED
        BY <3>1, <4>1
    <3>2. CASE opener' = [opener EXCEPT !.at = "connected"]
      BY <3>2
    <3>3. CASE opener' = opener
      BY <3>3
    <3> QED
      BY <2>3, <3>1, <3>2, <3>3
  <2> QED
    BY <2>2, <2>4 DEF Fits
<1> QED
  BY <1>1, <1>2, <1>3, <1>4 DEF Opening!Client

\* The handshake's invariant holds of every behaviour of the connection.
LEMMA HandshakeInvariant == ConnectionSpec => []HandshakeInv
<1>1. ConnectionInit => HandshakeInv
  <2> SUFFICES ASSUME Opening!Init PROVE HandshakeInv
    BY DEF ConnectionInit
  <2>1. path \in Nat /\ guid \in 0 .. 20
    BY OpeningAssumption DEF Opening!Init, Opening!SizesAssumption
  <2>2. opener = [at |-> "asking", offered |-> 0]
    BY DEF Opening!Init
  <2> QED
    BY <2>1, <2>2 DEF Opening!Init, HandshakeInv
<1>2. HandshakeInv /\ [ConnectionNext]_<<vars, openingVars>> => HandshakeInv'
  <2> SUFFICES ASSUME HandshakeInv, [ConnectionNext]_<<vars, openingVars>>
               PROVE  HandshakeInv'
    OBVIOUS
  <2>1. CASE Opening!Next
    <3>1. CASE Opening!Lose
      BY <3>1 DEF HandshakeInv, Opening!Lose, Fits
    <3> QED
      BY <2>1, <3>1, ServerHandshake, ClientHandshake DEF Opening!Next
  <2>2. CASE Establish
    <3>1. /\ path' = 0 /\ guid' = 0 /\ overrun' = FALSE /\ mtu' = 0
          /\ requests' = {} /\ replies' = {}
          /\ opener' = [at |-> "in session", offered |-> 0]
      BY <2>2 DEF Establish
    <3>2. path' \in Nat /\ guid' \in 0 .. 20
      <4>1. 0 \in Nat /\ 0 \in 0 .. 20
        OBVIOUS
      <4> QED
        BY <3>1, <4>1, Zenon
    <3>3. ~ overrun'
      BY <3>1
    <3> QED
      BY <3>1, <3>2, <3>3 DEF HandshakeInv
  <2>3. CASE UNCHANGED openingVars
    BY <2>3 DEF HandshakeInv, openingVars, Fits
  <2> QED
    BY <2>1, <2>2, <2>3 DEF ConnectionNext, OpeningStep, SessionStep
<1> QED
  BY <1>1, <1>2, PTL DEF ConnectionSpec

\* In every behaviour the mtu the two sides settle on lets every datagram of the
\* connection through the path and fits the server's buffer, and every reply of the
\* handshake fits its array, whatever was lost, overtaken or asked for again.
THEOREM DatagramsAlwaysPass == ConnectionSpec => []DatagramsPass
<1>1. HandshakeInv => DatagramsPass
  BY DEF HandshakeInv, Fits, DatagramsPass, Opening!DatagramsPass, Opening!RepliesFit
<1> QED
  BY <1>1, HandshakeInvariant, PTL

-----------------------------------------------------------------------------
(* What is read of the login packet.                                       *)

\* A certificate is known by its place, and what is wrong in it is in it.
Certificate(i, token) ==
    /\ token.name = i
    /\ token.wrong = {} \/ token.present \cap token.wrong # {}

\* A sequence of certificates, each at its place.
Chain(chain) ==
    /\ chain = [i \in 1 .. Len(chain) |-> chain[i]] /\ Len(chain) \in Nat
    /\ DOMAIN chain = 1 .. Len(chain)
    /\ \A i \in DOMAIN chain : Certificate(i, chain[i])

\* The documents a client may send have such a chain, and a token each for the rest.
GoodLogin ==
    /\ Chain(login.chain)
    /\ login.microsoft.name = 1
    /\ login.client.name = 1

\* Whose payload can be read, nothing of it of a wrong type.
Readable(token) == token.payload = "object" /\ token.present \cap token.wrong = {}

\* identity is that of the last certificate so far that was whole.
IdentityOfLast ==
    \/ identity = None /\ \A j \in 1 .. next - 1 : ~ Whole(certificateChain[j])
    \/ \E i \in 1 .. next - 1 :
         /\ Whole(certificateChain[i])
         /\ identity = [from |-> i, present |-> certificateChain[i].present]
         /\ \A j \in i + 1 .. next - 1 : ~ Whole(certificateChain[j])

\* Each part is unset before its try block and what its token says after it.
LoginInv ==
    /\ GoodLogin
    /\ stage \in {"authentication", "chain", "token", "client", "done"}
    /\ Chain(certificateChain)
    /\ next \in 1 .. Len(certificateChain) + 1
    /\ stage = "authentication" => next = 1 /\ identity = None
    /\ stage \in {"token", "client", "done"} => next = Len(certificateChain) + 1
    /\ IdentityOfLast
    /\ authToken \in {NoToken, login.microsoft}
    /\ stage # "authentication" /\ login.document = "object" /\ login.type # "wrong"
         /\ login.token = "right" => authToken = login.microsoft
    /\ microsoftAuth = IF stage \in {"client", "done"} THEN Claims(authToken) ELSE None
    /\ clientData = IF stage = "done" THEN Claims(login.client) ELSE None

\* Something is taken of a token just when it is readable.
LEMMA ClaimsOfReadable ==
  /\ Claims(NoToken) = None
  /\ \A token : token.name # 0 => (Claims(token) # None <=> Readable(token))
<1>1. Claims(NoToken) = None
  BY DEF Claims, NoToken, Token
<1>2. ASSUME NEW token, token.name # 0 PROVE Claims(token) # None <=> Readable(token)
  BY <1>2 DEF Claims, None, Readable
<1> QED
  BY <1>1, <1>2

\* Of a certificate something is taken just when it is whole.
LEMMA ClaimsOfCertificate ==
  ASSUME NEW i \in Nat \ {0}, NEW token, Certificate(i, token)
  PROVE  /\ ("extraData" \in token.present /\ Claims(token) # None) <=> Whole(token)
         /\ Whole(token) => Claims(token) = [from |-> i, present |-> token.present]
<1>1. token.name # 0 /\ token.name = i
  BY DEF Certificate
<1>2. Claims(token) # None <=> Readable(token)
  BY <1>1, ClaimsOfReadable
<1> QED
  BY <1>1, <1>2 DEF Certificate, Whole, Readable, Claims

\* Pushing stops at the first that is no string; those before it keep their places.
LEMMA StringsAreChain ==
  ASSUME NEW chain, Chain(chain)
  PROVE  Chain(Strings(chain))
<1> DEFINE bad == {i \in DOMAIN chain : chain[i].payload = "notString"}
<1>1. CASE bad = {}
  BY <1>1 DEF Strings
<1>2. CASE bad # {}
  <2>1. bad \subseteq Nat
    BY DEF Chain
  <2>2. \E i \in bad : \A j \in bad : i <= j
    <3> HIDE DEF bad
    <3> QED
      BY <1>2, <2>1, SmallestOf
  <2> DEFINE m == CHOOSE i \in bad : \A j \in bad : i <= j
  <2>3. m \in bad
    BY <2>2
  <2>4. m \in 1 .. Len(chain) /\ Len(chain) \in Nat
    BY <2>3 DEF Chain
  <2>5. Strings(chain) = SubSeq(chain, 1, m - 1)
    BY <1>2 DEF Strings
  <2> HIDE DEF m, bad
  <2>6. SubSeq(chain, 1, m - 1) = [i \in 1 .. m - 1 |-> chain[i]]
    BY <2>4
  <2>7. /\ Len(SubSeq(chain, 1, m - 1)) = m - 1 /\ m - 1 \in Nat
        /\ DOMAIN SubSeq(chain, 1, m - 1) = 1 .. m - 1
        /\ \A i \in 1 .. m - 1 : SubSeq(chain, 1, m - 1)[i] = chain[i]
    BY <2>4, <2>6
  <2>8. \A i \in 1 .. m - 1 : Certificate(i, chain[i])
    BY <2>4 DEF Chain
  <2> QED
    BY <2>5, <2>7, <2>8, <2>6 DEF Chain
<1> QED
  BY <1>1, <1>2

\* No certificates.
LEMMA EmptyIsChain == Chain(<<>>) /\ Len(<<>>) = 0
  BY DEF Chain

\* A client's documents are as assumed.
LEMMA LoginsAreGood == login \in Logins => GoodLogin
<1> SUFFICES ASSUME login \in Logins PROVE GoodLogin
  OBVIOUS
<1>1. \A chain \in Chains : Chain(chain)
  <2> SUFFICES ASSUME NEW chain \in Chains PROVE Chain(chain)
    OBVIOUS
  <2>1. PICK n \in 0 .. MaxChain :
           /\ chain \in [1 .. n -> UNION {Certificates(i) : i \in 1 .. n}]
           /\ \A i \in 1 .. n : chain[i].name = i
    BY DEF Chains
  <2>2. n \in Nat
    BY ChainAssumption
  <2>3. chain = [i \in 1 .. n |-> chain[i]] /\ DOMAIN chain = 1 .. n /\ Len(chain) = n
    BY <2>1, <2>2
  <2>4. ASSUME NEW i \in 1 .. n PROVE Certificate(i, chain[i])
    <3>1. PICK j \in 1 .. n : chain[i] \in Certificates(j)
      BY <2>1
    <3>2. chain[i].wrong = {} \/ chain[i].present \cap chain[i].wrong # {}
      BY <3>1 DEF Certificates, Token, IdentityKeys
    <3> QED
      BY <2>1, <3>2 DEF Certificate
  <2> QED
    BY <2>2, <2>3, <2>4 DEF Chain
<1>2. \A keys : \A token \in Tokens(keys) : token.name = 1
  BY DEF Tokens, Token
<1>3. \A keys : WholeToken(keys).name = 1
  BY DEF WholeToken, Token
<1>4. /\ login.chain \in Chains \cup {<<>>}
      /\ login.microsoft \in {WholeToken(MicrosoftKeys)} \cup Tokens(MicrosoftKeys)
      /\ login.client \in {WholeToken(ClientDataKeys)} \cup Tokens(ClientDataKeys)
  BY DEF Logins
<1> QED
  BY <1>1, <1>2, <1>3, <1>4, EmptyIsChain DEF GoodLogin

\* Nothing is read yet.
LEMMA InitLogin == LoginInit => LoginInv
<1> SUFFICES ASSUME LoginInit PROVE LoginInv
  OBVIOUS
<1>1. GoodLogin
  BY LoginsAreGood DEF LoginInit
<1>2. certificateChain = <<>> /\ next = 1 /\ Len(certificateChain) = 0
  BY EmptyIsChain DEF LoginInit
<1>3. IdentityOfLast
  BY <1>2 DEF LoginInit, IdentityOfLast
<1> QED
  BY <1>1, <1>2, <1>3, EmptyIsChain DEF LoginInit, LoginInv

\* Every try block keeps the invariant, whatever is in its document.
LEMMA StepLogin == LoginInv /\ [LoginNext]_loginVars => LoginInv'
<1> SUFFICES ASSUME LoginInv, [LoginNext]_loginVars PROVE LoginInv'
  OBVIOUS
<1>1. CASE UNCHANGED loginVars
  BY <1>1 DEF LoginInv, loginVars, GoodLogin, IdentityOfLast
<1>2. CASE ParseAuthentication
  <2>1. /\ stage = "authentication" /\ stage' = "chain" /\ login' = login
        /\ next' = 1 /\ identity' = None /\ microsoftAuth' = None /\ clientData' = None
    BY <1>2 DEF ParseAuthentication, LoginInv
  <2>2. Chain(certificateChain')
    <3>1. certificateChain' = Strings(login.chain) \/ certificateChain' = <<>>
      BY <1>2 DEF ParseAuthentication
    <3> QED
      BY <3>1, StringsAreChain, EmptyIsChain DEF LoginInv, GoodLogin
  <2>3. /\ authToken' \in {NoToken, login.microsoft}
        /\ login.document = "object" /\ login.type # "wrong" /\ login.token = "right" =>
             authToken' = login.microsoft
    BY <1>2 DEF ParseAuthentication
  <2>4. next' \in 1 .. Len(certificateChain') + 1
    BY <2>1, <2>2 DEF Chain
  <2>5. IdentityOfLast'
    BY <2>1 DEF IdentityOfLast
  <2>6. GoodLogin'
    BY <2>1 DEF LoginInv, GoodLogin
  <2> QED
    BY <2>1, <2>2, <2>3, <2>4, <2>5, <2>6 DEF LoginInv
<1>3. CASE ParseCertificate
  <2> DEFINE token == certificateChain[next]
  <2>1. /\ stage = "chain" /\ next <= Len(certificateChain) /\ next' = next + 1
        /\ UNCHANGED <<login, stage, certificateChain, authToken, microsoftAuth, clientData>>
        /\ identity' = IF "extraData" \in token.present /\ Claims(token) # None
                       THEN Claims(token) ELSE identity
    BY <1>3 DEF ParseCertificate
  <2>2. Len(certificateChain) \in Nat /\ next \in Nat \ {0} /\ next \in DOMAIN certificateChain
    BY <2>1 DEF LoginInv, Chain
  <2>3. Certificate(next, token)
    BY <2>2 DEF LoginInv, Chain
  <2>4. identity' = IF Whole(token) THEN [from |-> next, present |-> token.present] ELSE identity
    <3> HIDE DEF token
    <3> QED
      BY <2>1, <2>2, <2>3, ClaimsOfCertificate
  <2>5. IdentityOfLast'
    <3>1. \A j \in 1 .. next' - 1 : j \in 1 .. next - 1 \/ j = next
      BY <2>1, <2>2
    <3>2. CASE Whole(token)
      <4>1. next \in 1 .. next' - 1 /\ \A j \in next + 1 .. next' - 1 : FALSE
        BY <2>1, <2>2
      <4>2. identity' = [from |-> next, present |-> token.present]
        BY <2>4, <3>2
      <4> QED
        BY <2>1, <3>2, <4>1, <4>2 DEF IdentityOfLast
    <3>3. CASE ~ Whole(token) /\ identity = None
                 /\ \A j \in 1 .. next - 1 : ~ Whole(certificateChain[j])
      BY <2>1, <2>4, <3>1, <3>3 DEF IdentityOfLast
    <3>4. CASE ~ Whole(token) /\ \E i \in 1 .. next - 1 :
                 /\ Whole(certificateChain[i])
                 /\ identity = [from |-> i, present |-> certificateChain[i].present]
                 /\ \A j \in i + 1 .. next - 1 : ~ Whole(certificateChain[j])
      <4>1. PICK i \in 1 .. next - 1 :
                 /\ Whole(certificateChain[i])
                 /\ identity = [from |-> i, present |-> certificateChain[i].present]
                 /\ \A j \in i + 1 .. next - 1 : ~ Whole(certificateChain[j])
        BY <3>4
      <4>2. i \in 1 .. next' - 1
            /\ \A j \in i + 1 .. next' - 1 : j \in i + 1 .. next - 1 \/ j = next
        BY <2>1, <2>2
      <4>3. \A j \in i + 1 .. next' - 1 : ~ Whole(certificateChain[j])
        BY <3>4, <4>1, <4>2
      <4>4. identity' = identity
        BY <2>4, <3>4
      <4> QED
        BY <2>1, <4>1, <4>2, <4>3, <4>4 DEF IdentityOfLast
    <3> QED
      BY <3>2, <3>3, <3>4 DEF LoginInv, IdentityOfLast
  <2>6. GoodLogin' /\ Chain(certificateChain')
    BY <2>1 DEF LoginInv, GoodLogin
  <2>7. next' \in 1 .. Len(certificateChain') + 1
    BY <2>1, <2>2
  <2> HIDE DEF token
  <2> QED
    BY <2>1, <2>5, <2>6, <2>7 DEF LoginInv
<1>4. CASE EndChain
  <2>1. /\ stage = "chain" /\ stage' = "token" /\ next > Len(certificateChain)
        /\ UNCHANGED <<login, certificateChain, authToken, identity, microsoftAuth, clientData, next>>
    BY <1>4 DEF EndChain
  <2>2. next = Len(certificateChain) + 1
    BY <2>1 DEF LoginInv, Chain
  <2>3. GoodLogin' /\ Chain(certificateChain') /\ IdentityOfLast'
    BY <2>1 DEF LoginInv, GoodLogin, IdentityOfLast
  <2> QED
    BY <2>1, <2>2, <2>3 DEF LoginInv
<1>5. CASE ParseAuthToken
  <2>1. /\ stage = "token" /\ stage' = "client" /\ microsoftAuth' = Claims(authToken)
        /\ UNCHANGED <<login, certificateChain, authToken, identity, clientData, next>>
    BY <1>5 DEF ParseAuthToken
  <2>2. GoodLogin' /\ Chain(certificateChain') /\ IdentityOfLast'
    BY <2>1 DEF LoginInv, GoodLogin, IdentityOfLast
  <2> QED
    BY <2>1, <2>2 DEF LoginInv
<1>6. CASE ParseClientData
  <2>1. /\ stage = "client" /\ stage' = "done" /\ clientData' = Claims(login.client)
        /\ UNCHANGED <<login, certificateChain, authToken, identity, microsoftAuth, next>>
    BY <1>6 DEF ParseClientData
  <2>2. GoodLogin' /\ Chain(certificateChain') /\ IdentityOfLast'
    BY <2>1 DEF LoginInv, GoodLogin, IdentityOfLast
  <2> QED
    BY <2>1, <2>2 DEF LoginInv
<1> QED
  BY <1>1, <1>2, <1>3, <1>4, <1>5, <1>6 DEF LoginNext

\* What the invariant says of the structs.
LEMMA LoginInvContains == LoginInv => LoginContained
<1> SUFFICES ASSUME LoginInv PROVE LoginContained
  OBVIOUS
<1>1. /\ Len(certificateChain) \in Nat /\ DOMAIN certificateChain = 1 .. Len(certificateChain)
      /\ next \in 1 .. Len(certificateChain) + 1
  BY DEF LoginInv, Chain
<1>2. microsoftAuth # None =>
        /\ authToken # NoToken /\ authToken = login.microsoft /\ Readable(login.microsoft)
  BY ClaimsOfReadable DEF LoginInv, GoodLogin
<1>3. clientData # None => Readable(login.client)
  BY ClaimsOfReadable DEF LoginInv, GoodLogin
<1>4. NoneHalfFilled
  <2>1. ASSUME identity # None
        PROVE  \E i \in DOMAIN certificateChain :
                 /\ certificateChain[i].wrong = {}
                 /\ identity = [from |-> i, present |-> certificateChain[i].present]
                 /\ \A j \in i + 1 .. next - 1 : ~ Whole(certificateChain[j])
    <3>1. PICK i \in 1 .. next - 1 :
                 /\ Whole(certificateChain[i])
                 /\ identity = [from |-> i, present |-> certificateChain[i].present]
                 /\ \A j \in i + 1 .. next - 1 : ~ Whole(certificateChain[j])
      BY <2>1 DEF LoginInv, IdentityOfLast
    <3>2. i \in DOMAIN certificateChain
      BY <1>1
    <3> QED
      BY <3>1, <3>2 DEF Whole
  <2>2. microsoftAuth # None => login.microsoft.wrong \cap login.microsoft.present = {}
    BY <1>2 DEF Readable
  <2>3. clientData # None => login.client.wrong \cap login.client.present = {}
    BY <1>3 DEF Readable
  <2> QED
    BY <2>1, <2>2, <2>3 DEF NoneHalfFilled
<1>5. ASSUME stage = "done" PROVE FailureContained
  <2>1. clientData # None <=> Readable(login.client)
    BY <1>5, ClaimsOfReadable DEF LoginInv, GoodLogin
  <2>2. microsoftAuth # None <=> authToken # NoToken /\ Readable(login.microsoft)
    BY <1>5, ClaimsOfReadable DEF LoginInv, GoodLogin
  <2>3. login.document = "object" /\ login.type # "wrong" /\ login.token = "right" =>
          authToken = login.microsoft
    BY <1>5 DEF LoginInv
  <2>4. identity # None <=> \E i \in DOMAIN certificateChain : Whole(certificateChain[i])
    <3>1. next - 1 = Len(certificateChain)
      BY <1>1, <1>5 DEF LoginInv
    <3>2. \A i \in Nat \ {0} : \A p : [from |-> i, present |-> p] # None
      BY DEF None
    <3>3. 1 .. next - 1 = DOMAIN certificateChain
      BY <1>1, <3>1
    <3>4. CASE identity = None /\ \A j \in 1 .. next - 1 : ~ Whole(certificateChain[j])
      BY <3>3, <3>4
    <3>5. CASE \E i \in 1 .. next - 1 :
                 /\ Whole(certificateChain[i])
                 /\ identity = [from |-> i, present |-> certificateChain[i].present]
      <4>1. PICK i \in 1 .. next - 1 :
                 /\ Whole(certificateChain[i])
                 /\ identity = [from |-> i, present |-> certificateChain[i].present]
        BY <3>5
      <4>2. i \in Nat \ {0}
        OBVIOUS
      <4> QED
        BY <3>2, <3>3, <4>1, <4>2
    <3> QED
      BY <3>4, <3>5 DEF LoginInv, IdentityOfLast
  <2> QED
    BY <2>1, <2>2, <2>3, <2>4 DEF FailureContained, Readable
<1> QED
  BY <1>4, <1>5 DEF LoginContained, FailureContained

\* A login's structs are set whole or not at all, and what one of its documents
\* throws keeps no other from being read, for chains of any length.
THEOREM LoginAlwaysContained == LoginSpec => []LoginContained
  BY InitLogin, StepLogin, LoginInvContains, PTL DEF LoginSpec
=============================================================================

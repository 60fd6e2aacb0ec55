--------------------------- MODULE JerverSession ---------------------------
(***************************************************************************)
(* The game session of one endpoint: Jerver::handleData, handlePacket and  *)
(* send, the packet handlers, and handleTick's part for the connection.    *)
(* Every handler runs on the network thread, one packet after the other;   *)
(* the tick thread sends on the same connection.                           *)
(*                                                                         *)
(* The client is external: it logs in, plays, leaves and comes back to the *)
(* same endpoint, where its old connection is still in the table (see      *)
(* RaknetServer).  All frames of the server are Reliable, not ordered: the *)
(* client gets them in any order.  What it sends arrives in any order, and *)
(* may arrive twice (see RaknetReceiver).                                  *)
(***************************************************************************)
EXTENDS Integers, Sequences, FiniteSets

CONSTANTS
    Distances,      \* view distances the client asks for
    MaxChunks,      \* maxChunksToSend
    MaxSessions,    \* bound: times a client comes to the endpoint
    MaxExtras       \* bound: batches of the first client that arrive twice, and
                    \* changes of the view distance in the game

ASSUME DistancesAssumption == Distances \subseteq Nat /\ Distances # {}

ASSUME SessionBounds ==
    MaxChunks \in Nat /\ MaxSessions \in Nat /\ MaxExtras \in Nat

VARIABLES
    connection,  \* the session fields of the ServerConnection
    network,     \* the packets of a batch to handle, and what the handler has yet to do
    tick,        \* the chunks handleTick has yet to send, and whether an update is due
    toServer, toClient,  \* what is on its way
    client,      \* the client that is at the endpoint
    extras,      \* what MaxExtras bounds
    (* history *)
    sent,        \* the packets sent on the connection
    spawns,      \* how often PlayerSpawn was
    told,        \* the radius of the last publisher's update
    narrowed,    \* a view distance gave way to a smaller one
    garbled      \* what was misread, on either side

history == <<sent, spawns, told, narrowed, garbled>>
vars == <<connection, network, tick, toServer, toClient, client, extras, history>>

Packet(name, n) == [name |-> name, n |-> n]

Distance == connection.playerViewDistance

Smallest == CHOOSE d \in Distances : \A e \in Distances : d <= e

\* A batch starts with the compression byte, or not.
Batch(framed, packets) == [framed |-> framed, packets |-> packets]

Idle == [packets |-> <<>>, todo |-> <<>>]

\* Who misread what: a batch that starts with the compression byte, or one without.
Misread(by, framed) == [by |-> by, framed |-> framed, session |-> client.session]

Resting == [chunks |-> {}, update |-> FALSE]

\* A client that has just come: it has yet to ask for the network settings.
NewClient(session, late) ==
    [session |-> session, here |-> TRUE, settings |-> FALSE, received |-> {}, late |-> late]

Init ==
    /\ connection = [networkSettingsSent |-> FALSE, playerSpawned |-> FALSE,
                     playerViewDistance |-> 0, playerLoadedChunks |-> {}]
    /\ network = Idle
    /\ tick = Resting
    /\ toServer = {Batch(FALSE, <<Packet("RequestNetworkSettings", 0)>>)}
    /\ toClient = {}
    /\ client = NewClient(1, FALSE)
    /\ extras = 0
    /\ sent = {} /\ spawns = 0 /\ told = -1 /\ narrowed = FALSE /\ garbled = {}
-----------------------------------------------------------------------------
(* The server's frames.                                                    *)

\* Mutant of SendPacket: the compression byte is never put in front.
SendPacketPlain(packet) ==
    /\ toClient' = toClient \cup {[framed |-> FALSE, packet |-> packet]}
    /\ sent' = sent \cup {packet.name}
    /\ spawns' = IF packet.name = "PlayerSpawn" THEN spawns + 1 ELSE spawns
    /\ told' = IF packet.name = "NetworkChunkPublisherUpdate" THEN packet.n ELSE told

\* send puts the compression byte in front once networkSettingsSent is set.
SendPacket(packet) ==
    /\ toClient' = toClient \cup {[framed |-> connection.networkSettingsSent, packet |-> packet]}
    /\ sent' = sent \cup {packet.name}
    /\ spawns' = IF packet.name = "PlayerSpawn" THEN spawns + 1 ELSE spawns
    /\ told' = IF packet.name = "NetworkChunkPublisherUpdate" THEN packet.n ELSE told
-----------------------------------------------------------------------------
(* The network thread.                                                     *)

\* handleData takes the first byte for the compression if networkSettingsSent
\* is set.  A batch that has none then, or has one too early, shows a packet
\* length beyond its end, and is dropped.
HandleData(batch) ==
    /\ network = Idle
    /\ batch \in toServer
    /\ \/ toServer' = toServer \ {batch} /\ UNCHANGED extras
       \/ /\ extras < MaxExtras /\ client.session = 1
          /\ extras' = extras + 1 /\ UNCHANGED toServer
    /\ LET readable == batch.framed = connection.networkSettingsSent
       IN /\ network' = [Idle EXCEPT !.packets = IF readable THEN batch.packets ELSE <<>>]
          /\ garbled' = IF readable THEN garbled ELSE garbled \cup {Misread("server", batch.framed)}
    /\ UNCHANGED <<connection, tick, toClient, client, sent, spawns, told, narrowed>>

SendOp(name) == [op |-> "send", name |-> name]

SetOp(field, value) == [op |-> field, value |-> value]

\* The first and the last of the eight packets that set the game up.
GameSetUp == <<"StartGame", "UpdateAbilities">>

\* Mutant of HandleSettings: the flag is set first, so that NetworkSettings is framed.
HandleSettingsFlagFirst ==
    <<SetOp("networkSettingsSent", TRUE), SendOp("NetworkSettings")>>

HandleSettings == <<SendOp("NetworkSettings"), SetOp("networkSettingsSent", TRUE)>>

\* Its player's name is LoginPacket's business.
HandleLogin == <<SendOp("LoginSuccess"), SendOp("ResourcePacksInfo")>>

\* Mutant of HandleCompleted: the player is spawned with the start of the game.
HandleCompletedSpawning ==
    <<SetOp("playerSpawned", TRUE)>> \o [i \in DOMAIN GameSetUp |-> SendOp(GameSetUp[i])]

HandleCompleted == [i \in DOMAIN GameSetUp |-> SendOp(GameSetUp[i])]

HandleRadius(distance) == <<SetOp("playerViewDistance", distance)>>

HandleScreen ==
    IF connection.playerSpawned THEN <<>>
    ELSE <<SetOp("playerSpawned", TRUE), SendOp("PlayerSpawn")>>

\* What each handler sends and sets, in order.  Where PlayerAuthInput puts the player
\* is ChunkGenerator's business; Refused, SendPacks, CommandRequest and packets that
\* have no handler change nothing.
HandlerOf(packet) ==
    CASE packet.name = "RequestNetworkSettings" -> HandleSettings
      [] packet.name = "Login" -> HandleLogin
      [] packet.name = "HaveAllPacks" -> <<SendOp("ResourcePackStack")>>
      [] packet.name = "Completed" -> HandleCompleted
      [] packet.name = "RequestChunkRadius" -> HandleRadius(packet.n)
      [] packet.name = "ServerboundLoadingScreen" -> HandleScreen
      [] OTHER -> <<>>

HandlePacket ==
    /\ network.todo = <<>> /\ network.packets # <<>>
    /\ network' = [packets |-> Tail(network.packets), todo |-> HandlerOf(Head(network.packets))]
    /\ UNCHANGED <<connection, tick, toServer, toClient, client, extras, history>>

\* The next thing the handler does.
RunHandler ==
    /\ network.todo # <<>>
    /\ network' = [network EXCEPT !.todo = Tail(@)]
    /\ LET next == Head(network.todo)
       IN IF next.op = "send"
          THEN SendPacket(Packet(next.name, 0)) /\ UNCHANGED <<connection, narrowed>>
          ELSE /\ connection' = [connection EXCEPT ![next.op] = next.value]
               /\ narrowed' = (narrowed \/ Distance' < Distance)
               /\ UNCHANGED <<toClient, sent, spawns, told>>
    /\ UNCHANGED <<tick, toServer, client, extras, garbled>>

NetworkStep == (\E batch \in toServer : HandleData(batch)) \/ HandlePacket \/ RunHandler
-----------------------------------------------------------------------------
(* The tick thread.  Chunks lie in a row, the player at 0: its circle of   *)
(* view distance d are the chunks 0 .. d.                                  *)

\* The nearest MaxChunks missing.
NewChunks(desired) ==
    LET missing == desired \ connection.playerLoadedChunks
    IN {c \in missing : Cardinality({d \in missing : d < c}) < MaxChunks}

\* Mutant of Generate: only the first chunks are announced.
GenerateOneUpdate ==
    /\ connection.playerSpawned /\ tick = Resting
    /\ LET desired == 0 .. Distance
           new == NewChunks(desired)
           loaded == (connection.playerLoadedChunks \cap desired) \cup new
       IN /\ connection' = [connection EXCEPT !.playerLoadedChunks = loaded]
          /\ tick' = [chunks |-> new, update |-> connection.playerLoadedChunks = {}]
    /\ UNCHANGED <<network, toServer, toClient, client, extras, history>>

\* Chunks out of sight are forgotten whether or not there are new ones.
Generate ==
    /\ connection.playerSpawned /\ tick = Resting
    /\ LET desired == 0 .. Distance
           new == NewChunks(desired)
           loaded == (connection.playerLoadedChunks \cap desired) \cup new
       IN /\ connection' = [connection EXCEPT !.playerLoadedChunks = loaded]
          /\ tick' = [chunks |-> new, update |-> new # {}]
    /\ UNCHANGED <<network, toServer, toClient, client, extras, history>>

\* Mutant of SendChunk: the loop is left after the nearest chunk of the round.
SendNearestChunk ==
    /\ \E c \in tick.chunks :
         /\ \A d \in tick.chunks : c <= d
         /\ tick' = [tick EXCEPT !.chunks = {}]
         /\ SendPacket(Packet("LevelChunk", c))
    /\ UNCHANGED <<connection, network, toServer, client, extras, narrowed, garbled>>

SendChunk ==
    /\ \E c \in tick.chunks :
         /\ \A d \in tick.chunks : c <= d
         /\ tick' = [tick EXCEPT !.chunks = @ \ {c}]
         /\ SendPacket(Packet("LevelChunk", c))
    /\ UNCHANGED <<connection, network, toServer, client, extras, narrowed, garbled>>

\* The update's radius is read now, not when the chunks were chosen.
SendUpdate ==
    /\ tick.update /\ tick.chunks = {}
    /\ tick' = Resting
    /\ SendPacket(Packet("NetworkChunkPublisherUpdate", Distance))
    /\ UNCHANGED <<connection, network, toServer, client, extras, narrowed, garbled>>

TickStep == Generate \/ SendChunk \/ SendUpdate
-----------------------------------------------------------------------------
(* The client.                                                             *)

SettingsRequest == Batch(FALSE, <<Packet("RequestNetworkSettings", 0)>>)

\* What the client sends when it first gets a packet, each batch framed.
Replies(name) ==
    LET one(p, n) == Batch(TRUE, <<Packet(p, n)>>)
    IN CASE name = "NetworkSettings" -> {one("Login", 0)}
         [] name = "ResourcePacksInfo" -> {one("HaveAllPacks", 0)}
         [] name = "ResourcePackStack" -> {one("Completed", 0)}
         [] name = "StartGame" ->
              {one("RequestChunkRadius", Smallest), one("ServerboundLoadingScreen", 0)}
         [] name = "PlayerSpawn" ->
              {Batch(TRUE, <<Packet("ServerboundLoadingScreen", 0), Packet("PlayerAuthInput", 0)>>)}
         [] OTHER -> {}

Batches ==
    {SettingsRequest} \cup
    UNION {Replies(name) : name \in {"NetworkSettings", "ResourcePacksInfo",
             "ResourcePackStack", "StartGame", "PlayerSpawn"}} \cup
    {Batch(TRUE, <<Packet("RequestChunkRadius", d)>>) : d \in Distances}

Receive(frame) ==
    /\ client.here /\ frame \in toClient
    /\ toClient' = toClient \ {frame}
    /\ IF frame.framed = client.settings
       THEN /\ client' = [client EXCEPT
                 !.settings = @ \/ frame.packet.name = "NetworkSettings",
                 !.received = @ \cup {frame.packet}]
            /\ toServer' = IF frame.packet \in client.received THEN toServer
                           ELSE toServer \cup Replies(frame.packet.name)
            /\ UNCHANGED garbled
       ELSE /\ garbled' = garbled \cup {Misread("client", frame.framed)}
            /\ UNCHANGED <<client, toServer>>
    /\ UNCHANGED <<connection, network, tick, extras, sent, spawns, told, narrowed>>

InGame == client.here /\ Packet("PlayerSpawn", 0) \in client.received

ChangeRadius(distance) ==
    /\ InGame /\ extras < MaxExtras
    /\ extras' = extras + 1
    /\ toServer' = toServer \cup {Batch(TRUE, <<Packet("RequestChunkRadius", distance)>>)}
    /\ UNCHANGED <<connection, network, tick, toClient, client, history>>

\* It goes without a word that the server would hear; what was on its way to it is lost.
Leave ==
    /\ client.here
    /\ client' = [client EXCEPT !.here = FALSE]
    /\ toClient' = {}
    /\ UNCHANGED <<connection, network, tick, toServer, extras, history>>

Return ==
    /\ ~client.here /\ client.session < MaxSessions
    /\ client' = NewClient(client.session + 1, connection.networkSettingsSent)
    /\ toServer' = toServer \cup {SettingsRequest}
    /\ toClient' = {}
    /\ UNCHANGED <<connection, network, tick, extras, history>>

ClientStep ==
    \/ \E frame \in toClient : Receive(frame)
    \/ \E distance \in Distances : ChangeRadius(distance)
    \/ Leave
    \/ Return
-----------------------------------------------------------------------------
Next == NetworkStep \/ TickStep \/ ClientStep

\* Both threads go on, and every batch and every frame is delivered in the end.
Fairness ==
    /\ WF_vars(HandlePacket \/ RunHandler)
    /\ \A batch \in Batches : WF_vars(HandleData(batch))
    /\ WF_vars(TickStep)
    /\ WF_vars(\E frame \in toClient : Receive(frame))

-----------------------------------------------------------------------------
(* Properties.                                                             *)

\* Both sides change the framing at the same point of the conversation, though no
\* order of arrival is kept: the first client reads everything, and all the server
\* drops of its batches is a request for the settings that arrived twice.
FramingAgreed ==
    \A misread \in garbled :
      misread.session = 1 => misread.by = "server" /\ ~misread.framed

\* The tick thread sends the connection nothing before the game is set up, nor is
\* the player spawned; and it is spawned once, however often the loading screen is
\* announced by the clients of the endpoint.
GameSetUpFirst ==
    /\ sent \cap {"LevelChunk", "NetworkChunkPublisherUpdate", "PlayerSpawn"} # {} =>
         \A i \in DOMAIN GameSetUp : GameSetUp[i] \in sent
    /\ spawns <= 1

\* A client that comes back to an endpoint whose connection has been told the
\* settings hears nothing it can read, whatever it and the server go on to send.
OldConnectionDeaf == client.late => client.received = {}

\* The first client to come to the endpoint is let into the game, and gets every
\* chunk of its view distance, unless it leaves.
FirstClientPlays ==
    (client.session = 1 /\ client.here) ~>
      (\/ ~client.here
       \/ /\ InGame
          /\ \A c \in 0 .. Distance :
               Packet("LevelChunk", c) \in client.received)

\* Unless a view distance gave way to a smaller one, the first client is told in the
\* end of a radius that takes in what it asked for, if it stays.
ToldInTheEnd ==
    <>[](told >= Distance \/ narrowed \/ ~client.here \/ client.session > 1)
=============================================================================

--------------------------- MODULE OfflineHandshake ---------------------------
(***************************************************************************)
(* RaknetServer::handleOffline: the answers to pings and to the two        *)
(* requests that open a connection, with their sizes, and the mtu that the *)
(* two sides settle on.                                                    *)
(*                                                                         *)
(* The client is external: it asks with padding of several sizes, takes    *)
(* the mtu of the first answer that gets back, and repeats what is not     *)
(* answered.  Datagrams are lost and reordered; those with more than the   *)
(* path takes never arrive.                                                *)
(***************************************************************************)
EXTENDS Integers

CONSTANTS
    RequestSizes,  \* payloads of an OpenConnectionRequest1
    GuidLengths,   \* lengths of the server's guid in decimal
    MaxLost        \* bound: datagrams lost

\* The guid is an int64_t: at most 20 characters, the sign's included.
SizesAssumption ==
    RequestSizes \subseteq Nat /\ RequestSizes # {} /\ GuidLengths \subseteq 1 .. 20

VARIABLES
    path,      \* the largest payload that arrives
    guid,      \* the length of serverGuid
    requests,  \* datagrams on their way to the server
    replies,   \* and to the client
    client,    \* how far the client is, and the mtu it was offered
    mtu,       \* the connection's, 0 if there is none
    lost,      \* what MaxLost bounds
    overrun    \* history: a reply was larger than its buffer

vars == <<path, guid, requests, replies, client, mtu, lost, overrun>>

IdealMaxMtuSize == 1432

UdpHeaderSize == 68

Ping == [name |-> "UnconnectPing", n |-> 0]
Request1(size) == [name |-> "OpenConnectionRequest1", n |-> size]
Request2(m) == [name |-> "OpenConnectionRequest2", n |-> m]
Pong == [name |-> "UnconnectPong", n |-> 0]
Reply1(m) == [name |-> "OpenConnectionReply1", n |-> m]
Reply2 == [name |-> "OpenConnectionReply2", n |-> 0]

Init ==
    /\ path \in RequestSizes
    /\ guid \in GuidLengths
    /\ requests = {} /\ replies = {}
    /\ client = [at |-> "asking", offered |-> 0]
    /\ mtu = 0 /\ lost = 0 /\ overrun = FALSE
-----------------------------------------------------------------------------
(* What the replies take: the id, the magic of 16 bytes, an address of 7.  *)

PongSize == 1 + 8 + 8 + 16 + 2 + (30 + guid + 19)

Reply1Size == 1 + 16 + 8 + 1 + 2

Reply2Size == 1 + 16 + 8 + 7 + 2 + 1

\* sendPacketOffline: the id's byte on top of the template's argument.
BufferFor(size) == size + 1

\* One datagram in, one out.
Answer(request, reply, size, buffer) ==
    /\ requests' = requests \ {request}
    /\ replies' = replies \cup {reply}
    /\ overrun' = (overrun \/ size > BufferFor(buffer))
    /\ UNCHANGED <<path, guid, client, lost>>
-----------------------------------------------------------------------------
(* The server.                                                             *)

HandlePing ==
    /\ Ping \in requests
    /\ Answer(Ping, Pong, PongSize, 34 + 69)
    /\ UNCHANGED mtu

\* Mutant of OfferedMtu: what came through is not looked at.
OfferedMtuIdeal(size) == IdealMaxMtuSize

OfferedMtu(size) ==
    IF size + UdpHeaderSize > IdealMaxMtuSize THEN IdealMaxMtuSize ELSE size + UdpHeaderSize

HandleRequest1(size) ==
    /\ Request1(size) \in requests
    /\ Answer(Request1(size), Reply1(OfferedMtu(size)), Reply1Size, 31)
    /\ UNCHANGED mtu

\* The reply's mtu and security are not initialised; the connection, if it is new,
\* gets the mtu the client asks for.
HandleRequest2(m) ==
    /\ Request2(m) \in requests
    /\ mtu' = IF mtu = 0 THEN m ELSE mtu
    /\ Answer(Request2(m), Reply2, Reply2Size, 34)

Mtus == {OfferedMtu(size) : size \in RequestSizes}

Server ==
    \/ HandlePing
    \/ \E size \in RequestSizes : HandleRequest1(size)
    \/ \E m \in Mtus : HandleRequest2(m)
-----------------------------------------------------------------------------
(* The client and the network.                                             *)

Send(datagram) ==
    /\ requests' = requests \cup {datagram}
    /\ UNCHANGED <<path, guid, replies, client, mtu, lost, overrun>>

SendPing == Ping \notin requests /\ Send(Ping)

\* Only what fits the path is ever on its way.
Ask(size) ==
    /\ client.at = "asking" /\ size <= path
    /\ Request1(size) \notin requests /\ Send(Request1(size))

Open ==
    /\ client.at = "opening"
    /\ Request2(client.offered) \notin requests /\ Send(Request2(client.offered))

Receive(datagram) ==
    /\ datagram \in replies
    /\ replies' = replies \ {datagram}
    /\ client' =
         CASE datagram.name = "OpenConnectionReply1" /\ client.at = "asking" ->
                [at |-> "opening", offered |-> datagram.n]
           [] datagram = Reply2 -> [client EXCEPT !.at = "connected"]
           [] OTHER -> client
    /\ UNCHANGED <<path, guid, requests, mtu, lost, overrun>>

Lose ==
    /\ lost < MaxLost /\ lost' = lost + 1
    /\ \/ \E datagram \in requests : requests' = requests \ {datagram} /\ UNCHANGED replies
       \/ \E datagram \in replies : replies' = replies \ {datagram} /\ UNCHANGED requests
    /\ UNCHANGED <<path, guid, client, mtu, overrun>>

Client ==
    \/ SendPing
    \/ \E size \in RequestSizes : Ask(size)
    \/ Open
    \/ \E datagram \in replies : Receive(datagram)

Next == Server \/ Client \/ Lose

\* The client repeats itself, and what is not lost is delivered.
Fairness ==
    /\ \A size \in RequestSizes : WF_vars(Ask(size)) /\ WF_vars(HandleRequest1(size))
    /\ WF_vars(Open) /\ \A m \in Mtus : WF_vars(HandleRequest2(m))
    /\ \A m \in Mtus : WF_vars(Receive(Reply1(m)))
    /\ WF_vars(Receive(Reply2))
-----------------------------------------------------------------------------
\* Every reply fits the array it is built in, the pong with the longest guid too.
RepliesFit == ~ overrun

\* Whatever was lost, overtaken or asked for again, the datagrams the server builds
\* for the connection, of the mtu less the header at most, are no larger than what
\* got through to it, and than its buffer.
DatagramsPass ==
    mtu # 0 => mtu - UdpHeaderSize <= path /\ mtu <= IdealMaxMtuSize
===============================================================================

--------------------------- MODULE ClientConnection ---------------------------
(***************************************************************************)
(* A client from its first ping into the game: OfflineHandshake, and the   *)
(* JerverSession that begins once both sides have the connection.  Offline *)
(* datagrams that are late then change nothing of the session.             *)
(***************************************************************************)
EXTENDS JerverSession

CONSTANTS
    RequestSizes,  \* payloads of an OpenConnectionRequest1
    GuidLengths,   \* lengths of the server's guid in decimal
    MaxLost        \* bound: offline datagrams lost

VARIABLES
    opener,  \* the client, before it is connected
    path, guid, requests, replies, mtu, lost, overrun

openingVars == <<opener, path, guid, requests, replies, mtu, lost, overrun>>

Opening == INSTANCE OfflineHandshake WITH client <- opener

ASSUME OpeningAssumption == Opening!SizesAssumption

ConnectionInit == Init /\ Opening!Init

Opened == opener.at = "in session"

OpeningStep == Opening!Next /\ UNCHANGED vars

\* The connection is made on both sides; what the handshake was about is over.
Establish ==
    /\ opener.at = "connected" /\ mtu # 0
    /\ opener' = [at |-> "in session", offered |-> 0]
    /\ requests' = {} /\ replies' = {} /\ mtu' = 0 /\ lost' = 0
    /\ path' = 0 /\ guid' = 0 /\ overrun' = FALSE
    /\ UNCHANGED vars

SessionStep == Opened /\ Next /\ UNCHANGED openingVars

ConnectionNext == (OpeningStep /\ ~Opened) \/ Establish \/ SessionStep

ConnectionSpec == ConnectionInit /\ [][ConnectionNext]_<<vars, openingVars>>

\* Each side goes on, in the handshake and after it.
LiveConnectionSpec ==
    ConnectionSpec /\ Opening!Fairness /\ WF_openingVars(Establish) /\ Fairness
-----------------------------------------------------------------------------
\* The datagrams the server builds for the connection pass the path and fit its
\* buffer, whatever was lost, overtaken or asked for again; so does every reply fit
\* the array it is built in, the pong with the longest guid too.
DatagramsPass == Opening!DatagramsPass /\ Opening!RepliesFit
=============================================================================

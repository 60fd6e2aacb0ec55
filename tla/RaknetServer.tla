---------------------------- MODULE RaknetServer ----------------------------
(***************************************************************************)
(* The connection table of RaknetServer and the two threads that use it:   *)
(* the network thread (onMessage, handleOffline, handleOnline and what     *)
(* they call, up to the transport of RaknetSender and RaknetReceiver),     *)
(* which takes connectionsMutex, and the tick thread (Jerver::handleTick), *)
(* which iterates the same unordered_map and takes no lock.                *)
(*                                                                         *)
(* Clients are external: any endpoint may send any message at any time.    *)
(***************************************************************************)
EXTENDS Naturals

CONSTANTS
    Endpoints,  \* addresses and ports
    Guids       \* the ids clients give themselves

VARIABLES
    connections,  \* endpoint -> the guid and playerSpawned of its ServerConnection
    network,      \* what the network thread is doing
    tick,         \* the endpoints handleTick has yet to come to, or Resting
    process,      \* "running", "crashed" or "terminated"
    (* history *)
    accepted,     \* <<endpoint, guid>>: ConnectionRequestAccepted was queued
    served        \* the spawned players handleTick came to in its current round

vars == <<connections, network, tick, process, accepted, served>>

Idle == [at |-> "idle"]
\* From here on the thread holds connectionsMutex.
Online(e) == [at |-> "online", endpoint |-> e]
Hung(e) == [at |-> "hung", endpoint |-> e]

Resting == [resting |-> TRUE, left |-> {}]
Iterating(left) == [resting |-> FALSE, left |-> left]

Known == DOMAIN connections

Running == process = "running"

Init ==
    /\ connections = [e \in {} |-> 0]
    /\ network = Idle
    /\ tick = Resting
    /\ process = "running"
    /\ accepted = {}
    /\ served = {}
-----------------------------------------------------------------------------
(* The network thread.                                                     *)

\* The map changes under handleTick's feet.  The race is undefined behaviour: the
\* loop may go on at any elements, old or new, or the process may crash.
DisturbTick ==
    IF tick.resting
    THEN UNCHANGED <<tick, process>>
    ELSE \/ /\ \E left \in SUBSET Known' : tick' = Iterating(left)
            /\ UNCHANGED process
         \/ /\ process' = "crashed"
            /\ UNCHANGED tick

\* Mutant of TryEmplace: insert_or_assign.
InsertOrAssign(e, g) ==
    /\ connections' = [other \in Known \cup {e} |->
          IF other = e THEN [guid |-> g, playerSpawned |-> FALSE]
                       ELSE connections[other]]
    /\ UNCHANGED <<tick, process>>

\* try_emplace: an entry that is there stays as it is, whoever asks.
TryEmplace(e, g) ==
    IF e \in Known
    THEN UNCHANGED <<connections, tick, process>>
    ELSE /\ connections' = [other \in Known \cup {e} |->
               IF other = e THEN [guid |-> g, playerSpawned |-> FALSE]
                            ELSE connections[other]]
         /\ DisturbTick

\* handleOffline, the case; nobody else ever holds connectionsMutex.  The reply has
\* left before, but what the client answers this thread reads after it.
OpenConnectionRequest2(e, g) ==
    /\ Running
    /\ network = Idle
    /\ TryEmplace(e, g)
    /\ UNCHANGED <<network, accepted, served>>

\* handleOnline, the endpoint found, up to the frames of the datagram.  (A datagram
\* of an endpoint that is not, an ACK, a NACK and the frames not named below change
\* nothing of this module.)
BeginOnline(e) ==
    /\ Running
    /\ network = Idle
    /\ e \in Known
    /\ network' = Online(e)
    /\ UNCHANGED <<connections, tick, process, accepted, served>>

\* handleFrame, ConnectionRequest: another guid than the entry's is ignored.
ConnectionRequest(g) ==
    /\ Running
    /\ network.at = "online"
    /\ g = connections[network.endpoint].guid
    /\ accepted' = accepted \cup {<<network.endpoint, g>>}
    /\ UNCHANGED <<connections, network, tick, process, served>>

\* handleFrame, GameData with a ServerboundLoadingScreen in it.  No handler asks
\* whether the connection was accepted or the player logged in.
SpawnPlayer ==
    /\ Running
    /\ network.at = "online"
    /\ connections' = [connections EXCEPT ![network.endpoint].playerSpawned = TRUE]
    /\ UNCHANGED <<network, tick, process, accepted, served>>

\* Mutant of LockTwice: connectionsMutex made recursive, as a connection's
\* outgoingMutex is, so that the erase is reached and the frames go on.
EraseConnection ==
    /\ connections' = [e \in Known \ {network.endpoint} |-> connections[e]]
    /\ UNCHANGED <<network, tick, process>>

\* A std::mutex locked again by its owner: undefined, in practice a wait for
\* oneself, or a std::system_error nobody catches.
LockTwice ==
    \/ /\ network' = Hung(network.endpoint)
       /\ UNCHANGED <<connections, tick, process>>
    \/ /\ process' = "terminated"
       /\ UNCHANGED <<connections, network, tick>>

\* disconnectClient, called with the mutex held: by handleFrame for a Disconnect,
\* by handleFrameSet for an id above 0xFFFFE0.
DisconnectClient ==
    /\ Running
    /\ network.at = "online"
    /\ LockTwice
    /\ UNCHANGED <<accepted, served>>

\* handleOnline returns.
EndOnline ==
    /\ Running
    /\ network.at = "online"
    /\ network' = Idle
    /\ UNCHANGED <<connections, tick, process, accepted, served>>

NetworkStep ==
    \/ \E e \in Endpoints, g \in Guids : OpenConnectionRequest2(e, g)
    \/ \E e \in Endpoints : BeginOnline(e)
    \/ \E g \in Guids : ConnectionRequest(g)
    \/ SpawnPlayer
    \/ DisconnectClient
    \/ EndOnline
-----------------------------------------------------------------------------
(* The tick thread.                                                        *)

TickBegin ==
    /\ Running
    /\ tick.resting
    /\ tick' = Iterating(Known)
    /\ served' = {}
    /\ UNCHANGED <<connections, network, process, accepted>>

\* Mutant of After: the loop is left at a player not spawned.
AfterReturn(e) == IF connections[e].playerSpawned THEN tick.left \ {e} ELSE {}

\* The elements still to come.
After(e) == tick.left \ {e}

\* One turn of the loop, in the map's own order.  What is done for a spawned player
\* is the business of other modules.
TickVisit(e) ==
    /\ Running
    /\ e \in tick.left
    /\ tick' = Iterating(After(e))
    /\ served' = IF connections[e].playerSpawned THEN served \cup {e} ELSE served
    /\ UNCHANGED <<connections, network, process, accepted>>

TickEnd ==
    /\ Running
    /\ ~ tick.resting
    /\ tick.left = {}
    /\ tick' = Resting
    /\ UNCHANGED <<connections, network, process, accepted, served>>

TickStep == TickBegin \/ (\E e \in Endpoints : TickVisit(e)) \/ TickEnd

Next == NetworkStep \/ TickStep

Spec == Init /\ [][Next]_vars

\* The tick thread waits for nothing but the clock and a connection's
\* outgoingMutex, which the network thread always gives back.
LiveSpec == Spec /\ WF_vars(TickStep)
-----------------------------------------------------------------------------
TypeOK ==
    /\ Known \subseteq Endpoints
    /\ \A e \in Known :
         connections[e] \in [guid : Guids, playerSpawned : BOOLEAN]
    /\ network \in {Idle} \cup {Online(e) : e \in Endpoints} \cup {Hung(e) : e \in Endpoints}
    /\ tick \in {Resting} \cup {Iterating(left) : left \in SUBSET Endpoints}
    /\ process \in {"running", "crashed", "terminated"}
    /\ accepted \subseteq Endpoints \X Guids
    /\ served \subseteq Endpoints

\* No step of any thread takes a connection out of the table or changes whose it
\* is: the only erase in the code, disconnectClient's, is never reached.
NeverRemoved ==
    [][\A e \in Known : e \in Known' /\ connections'[e].guid = connections[e].guid]_vars

\* Of the guids that ever claimed an endpoint one alone is accepted there, even
\* after its client is gone: a client that comes back under another guid is not.
OneGuidAccepted ==
    \A a, b \in accepted : a[1] = b[1] => a[2] = b[2]

\* Neither thread has a connection in hand that is out of the table: handleOnline
\* keeps its reference over all frames of a datagram, processQueue after a Disconnect
\* included, and handleTick, without the mutex, the elements it has yet to come to.
\* disconnectClient is written to erase the one under both, and never gets to it.
NoneGoneInHand ==
    /\ network.at = "online" => network.endpoint \in Known
    /\ tick.left \subseteq Known

\* Whatever the network thread does, hanging included, handleTick comes to a
\* spawned player in some later round, unless the process is gone: neither another
\* player who has not spawned nor a disturbed loop keeps it away for good.
EverySpawnedServed ==
    \A e \in Endpoints :
       (e \in Known /\ connections[e].playerSpawned) ~> (e \in served \/ ~ Running)

\* jerver.cpp:61 on the loop over the connections: "TODO: loop causes segfault as
\* this runs on a different thread then the networking one (hopefully fixed)".
\* Fixed, it would never have the map change while elements are left to visit.
IterationUndisturbed == [][tick.left # {} => Known' = Known]_vars
=============================================================================

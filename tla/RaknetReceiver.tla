--------------------------- MODULE RaknetReceiver ---------------------------
(***************************************************************************)
(* The receiving half of one RakNet connection: the incoming fields of     *)
(* ServerConnection, handleFrameSet, handleCapsule, handleFragment and     *)
(* FragmentMeta, all run by the network thread alone.                      *)
(*                                                                         *)
(* The client and the network are external: a datagram may hold any        *)
(* capsules of the messages, again and again (whatever the client's        *)
(* retransmission policy), and the network loses, repeats and reorders     *)
(* datagrams at will.  A fragment's bytes are the pair of its message and  *)
(* its index; a message of one part is sent unfragmented.                  *)
(*                                                                         *)
(* What handleFrame does with a whole frame is RaknetSender's (the queue)  *)
(* and RaknetServer's (the connections); here it is handed on.             *)
(***************************************************************************)
EXTENDS Integers, Sequences, FiniteSets, Functions

CONSTANTS
    Messages,      \* what the client sends
    Parts,         \* message -> number of its parts
    FragmentId,    \* message -> the 16-bit id its fragments carry
    Contents,      \* the capsule sequences the client may put in a datagram
    WordModulus,   \* 2^32: datagram ids are subtracted as uint32_t
    IdLimit,       \* 0xFFFFE0, the last frame set id accepted
    MaxDatagrams   \* bound: datagrams the client sends

Capsules == {capsule \in Messages \X Nat : capsule[2] < Parts[capsule[1]]}

ASSUME PartsAssumption ==
    /\ Parts \in [Messages -> Nat \ {0}]
    /\ FragmentId \in [Messages -> Nat]

ASSUME ContentsAssumption == \A content \in Contents :
    /\ content \in Seq(Messages \X Nat)
    /\ \A i \in DOMAIN content : content[i][2] < Parts[content[i][1]]

ASSUME IdAssumption ==
    /\ WordModulus \in Nat
    /\ IdLimit \in Nat
    /\ IdLimit + 1 < WordModulus
    /\ MaxDatagrams \in Nat
    /\ MaxDatagrams < WordModulus

\* Two fragmented messages never carry the same id.  The client's counter wraps
\* at 2^16 and handleFragment keeps what never completes for good, so this
\* assumption is one about the client.
ASSUME FragmentIdAssumption ==
    \A m, n \in Messages :
       Parts[m] > 1 /\ Parts[n] > 1 /\ FragmentId[m] = FragmentId[n] => m = n

VARIABLES
    datagrams,       \* external: what the client sent, id 0 first
    connected,       \* FALSE once disconnectClient was called
    lastDatagramId,  \* incomingLastDatagramId, starts at uint32_t(-1)
    missing,         \* incomingMissingDatagram
    ackStack,        \* incomingReceivedDatagramAcknowledgeStack
    rebuildTable,    \* incomingFragmentRebuildTable: id -> index -> bytes
    current,         \* the frame set being handled: its capsules still unread
    (* history *)
    received,        \* the ids of the frame sets begun
    handled,         \* the capsules read
    acked,           \* the ids ACKed
    nacked,          \* the ids NACKed
    delivered        \* the frames handed on to handleFrame

networkVars == <<datagrams, connected>>
trackVars == <<lastDatagramId, missing, ackStack, received, acked, nacked>>
bodyVars == <<rebuildTable, handled, delivered>>
vars == <<networkVars, trackVars, bodyVars, current>>

Idle == [id |-> -1, left |-> <<>>]

Init ==
    /\ datagrams = <<>>
    /\ connected = TRUE
    /\ lastDatagramId = WordModulus - 1
    /\ missing = {}
    /\ ackStack = <<>>
    /\ rebuildTable = [id \in {} |-> <<>>]
    /\ current = Idle
    /\ received = {}
    /\ handled = {}
    /\ acked = {}
    /\ nacked = {}
    /\ delivered = {}

\* The client sends its next datagram.
PeerSends(content) ==
    /\ Len(datagrams) < MaxDatagrams
    /\ datagrams' = Append(datagrams, content)
    /\ UNCHANGED <<connected, trackVars, bodyVars, current>>

Arrives(id) ==
    /\ connected
    /\ current = Idle
    /\ id < Len(datagrams)

\* The guard on sequenceId.
IdAccepted(id) == id <= IdLimit

\* A frame set id that gets near the end of the 24 bits ends the connection.
RefuseFrameSet(id) ==
    /\ Arrives(id)
    /\ ~IdAccepted(id)
    /\ connected' = FALSE
    /\ UNCHANGED <<datagrams, trackVars, bodyVars, current>>

\* Mutant of Gap: the last id itself is counted from.
GapFromSecond(id) ==
    IF (id - lastDatagramId) % WordModulus > 1
    THEN {i \in 0 .. id - 1 : i >= (lastDatagramId + 2) % WordModulus}
    ELSE {}

\* The ids between the last one and this one, in 32-bit arithmetic: none when
\* this one is older, for then the loop starts above its end.
Gap(id) ==
    IF (id - lastDatagramId) % WordModulus > 1
    THEN {i \in 0 .. id - 1 : i >= (lastDatagramId + 1) % WordModulus}
    ELSE {}

\* handleFrameSet up to its loop.  The last id becomes this one, even when
\* this one is older than the last.
BeginFrameSet(id) ==
    /\ Arrives(id)
    /\ IdAccepted(id)
    /\ missing' = (missing \ {id}) \cup Gap(id)
    /\ ackStack' = Append(ackStack, id)
    /\ lastDatagramId' = id
    /\ current' = [id |-> id, left |-> datagrams[id + 1]]
    /\ received' = received \cup {id}
    /\ UNCHANGED <<networkVars, bodyVars, acked, nacked>>

Fragmented(capsule) == Parts[capsule[1]] > 1

\* FragmentMeta::set: an index already there keeps its bytes.
SetFragment(entry, capsule) ==
    [index \in DOMAIN entry \cup {capsule[2]} |->
        IF index \in DOMAIN entry THEN entry[index] ELSE capsule]

\* operator[] of the rebuild table: an entry of its own for a new id.
EntryOf(id) == IF id \in DOMAIN rebuildTable THEN rebuildTable[id] ELSE <<>>

\* Mutant of Complete: one fragment too few.
CompleteTooEarly(entry, capsule) ==
    Cardinality(DOMAIN entry) + 1 >= Parts[capsule[1]]

\* meta.length() >= fragment.length
Complete(entry, capsule) == Cardinality(DOMAIN entry) >= Parts[capsule[1]]

\* handleFragment, build() being the entry itself, in the order of its indices.
HandleFragment(capsule) ==
    LET id == FragmentId[capsule[1]]
        entry == SetFragment(EntryOf(id), capsule)
    IN IF Complete(entry, capsule)
       THEN /\ rebuildTable' = [other \in DOMAIN rebuildTable \ {id} |->
                                  rebuildTable[other]]
            /\ delivered' = delivered \cup {entry}
       ELSE /\ rebuildTable' = [other \in DOMAIN rebuildTable \cup {id} |->
                                  IF other = id THEN entry
                                                ELSE rebuildTable[other]]
            /\ UNCHANGED delivered

\* handleFrame straight away.
HandleUnfragmented(capsule) ==
    /\ delivered' = delivered \cup {[index \in {0} |-> capsule]}
    /\ UNCHANGED rebuildTable

\* One turn of handleFrameSet's loop.  A reliable index seen before, an order
\* index ahead of its turn: nothing is looked at but the fragment.
HandleCapsule ==
    /\ current.left # <<>>
    /\ LET capsule == Head(current.left)
       IN /\ IF Fragmented(capsule) THEN HandleFragment(capsule)
                                    ELSE HandleUnfragmented(capsule)
          /\ handled' = handled \cup {capsule}
    /\ current' = [current EXCEPT !.left = Tail(@)]
    /\ UNCHANGED <<networkVars, trackVars>>

\* Mutant of Handled: the ACK does not wait for the capsules.
HandledEarly == current # Idle

\* The loop has read the datagram to its end.
Handled == current # Idle /\ current.left = <<>>

\* The rest of handleFrameSet: the ACK, then one NACK of all that is missing,
\* which is forgotten with that.
EndFrameSet ==
    /\ Handled
    /\ acked' = acked \cup Range(ackStack)
    /\ ackStack' = <<>>
    /\ nacked' = nacked \cup missing
    /\ missing' = {}
    /\ current' = Idle
    /\ UNCHANGED <<networkVars, bodyVars, lastDatagramId, received>>

Next ==
    \/ \E content \in Contents : PeerSends(content)
    \/ \E id \in 0 .. Len(datagrams) - 1 : RefuseFrameSet(id) \/ BeginFrameSet(id)
    \/ HandleCapsule
    \/ EndFrameSet

Spec == Init /\ [][Next]_vars
-----------------------------------------------------------------------------
TypeOK ==
    /\ datagrams \in Seq(Contents)
    /\ connected \in BOOLEAN
    /\ lastDatagramId \in 0 .. WordModulus - 1
    /\ missing \in SUBSET (0 .. IdLimit)
    /\ ackStack \in Seq(0 .. IdLimit)
    /\ \A id \in DOMAIN rebuildTable :
         DOMAIN rebuildTable[id] \subseteq Nat
    /\ current.id \in -1 .. IdLimit
    /\ current.left \in Seq(Capsules)
    /\ received \in SUBSET (0 .. IdLimit)
    /\ acked \in SUBSET (0 .. IdLimit)
    /\ nacked \in SUBSET (0 .. IdLimit)

\* Below the highest frame set id received, every id was received or was asked
\* for: reordering and repetition, which set the last id back, open no hole
\* through which a lost datagram would go unreported.
GapsReported ==
    \A highest \in received :
       \A id \in 0 .. highest : id \in received \cup missing \cup nacked

\* An ACK is sent only once every capsule of the frame set was handled.
AckedWasHandled ==
    \A id \in acked : Range(datagrams[id + 1]) \subseteq handled

Whole(m) == [index \in 0 .. Parts[m] - 1 |-> <<m, index>>]

\* What is handed on is a whole message, its parts at their places, however the
\* fragments of several messages were interleaved, repeated or reordered; and a
\* message whose parts were all handled was handed on: the rebuild table never
\* holds a complete message nobody would look at again.
DeliveredWhole ==
    /\ \A frame \in delivered : \E m \in Messages : frame = Whole(m)
    /\ \A m \in Messages :
         (\A index \in 0 .. Parts[m] - 1 : <<m, index>> \in handled) => Whole(m) \in delivered
=============================================================================

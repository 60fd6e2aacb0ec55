---------------------------- MODULE RaknetSender ----------------------------
(***************************************************************************)
(* The sending half of one RakNet connection: the outgoing fields of       *)
(* ServerConnection and the functions of RaknetServer that touch them      *)
(* (sendFrame, sendCapsule, processQueue, createCurrentConnectionBuffer,   *)
(* handleAck, handleNack, and the tail of handleFrame).                    *)
(*                                                                         *)
(* Two threads share it, serialised by outgoingMutex: the network thread,  *)
(* inside handleOnline, and the tick thread, which only sends.  What runs  *)
(* under the mutex is cut into steps (one capsule packed, one datagram     *)
(* acknowledged) that nobody else can see, so that each step is small.     *)
(*                                                                         *)
(* A body is a std::span into the caller's stack or heap: it is readable   *)
(* only while the sendFrame call that queued it is still running.          *)
(*                                                                         *)
(* The prefix "outgoing" of the fields' names is dropped.                  *)
(***************************************************************************)
EXTENDS Integers, FiniteSets, Functions, DequeOperators

CONSTANTS
    WindowSize,   \* unacknowledgedWindowSize, 512
    OutgoingMtu,  \* outgoingMtu: the client's mtu less UDP_HEADER_SIZE
    Frames,       \* the frames callers send: size and reliability
    MaxFrames,    \* bound: calls of sendFrame
    MaxNacks,     \* bound: NACK packets received
    MaxRanges     \* bound: ranges in one ACK or NACK packet

----------------------------------------------------------------------------
(* constants.hpp and reliability.hpp *)

Unreliable == 0
UnreliableSequenced == 1
Reliable == 2
ReliableOrdered == 3
ReliableSequenced == 4
Reliabilities == 0 .. 4

IsReliable(reliability) == reliability \in {2, 3, 4}
IsSequenced(reliability) == reliability \in {1, 4}
IsOrdered(reliability) == reliability \in {1, 3, 4}
IsOrderedExclusive(reliability) == reliability = 3

FrameSetHeader == 4                 \* flags and the 24-bit frame set id
MaxCapsuleHeader == 23              \* MAX_CAPSULE_HEADER_SIZE
MaxFrameSetHeader == MaxCapsuleHeader + FrameSetHeader

\* A fragment must have room for a body: what the mtu negotiated in
\* OpenConnectionRequest2 has to guarantee (raknetServer.cpp does not check).
ASSUME MtuAssumption == OutgoingMtu \in Nat /\ OutgoingMtu > MaxFrameSetHeader

ASSUME WindowAssumption == WindowSize \in Nat \ {0}

ASSUME FramesAssumption == Frames \subseteq [size : Nat, reliability : Reliabilities]

ASSUME BoundsAssumption ==
    /\ MaxFrames \in Nat
    /\ MaxNacks \in Nat
    /\ MaxRanges \in Nat

----------------------------------------------------------------------------
Threads == {"network", "tick"}
Free == "free"

VARIABLES
    pc,                   \* what each thread is doing
    mutex,                \* outgoingMutex: the thread that holds it, or Free
    toSendStack,          \* the queue of capsules, front first
    unackedCapsules,      \* unacknowledgedReliableCapsules, the window counter
    unackedCache,         \* frame set id -> its reliable capsules
    unackedStack,         \* the reliable capsules of the datagram being built
    bufferCursor,         \* bytes used of the datagram being built
    frameSetId,
    reliableIndex,
    orderIndex,           \* outgoingOrderChannels[0]; the channel is never set
    sequenceIndex,        \* outgoingSequenceChannels[0]
    nextFragmentId,
    packet,               \* the ACK or NACK being handled: ranges still to
                          \* read, and what is left of the current one
    (* history *)
    buffer,               \* the capsules of the datagram being built
    wire,                 \* the datagrams sent: wire[id + 1] has frame set id
    frames,               \* calls of sendFrame so far
    nacks,                \* NACK packets so far
    acked,                \* reliable indices the peer acknowledged
    dropped,              \* reliable indices the full queue refused
    nacked                \* capsules taken back out of the cache by a NACK

channelVars == <<reliableIndex, orderIndex, sequenceIndex, nextFragmentId>>
datagramVars == <<unackedStack, bufferCursor, frameSetId, buffer, wire>>
peerVars == <<packet, nacks, acked, nacked>>
vars == <<pc, mutex, toSendStack, unackedCapsules, unackedCache, channelVars,
          datagramVars, peerVars, frames, dropped>>

NoRange == [left |-> 0, low |-> 1, high |-> 0]

Init ==
    /\ pc = [thread \in Threads |-> "idle"]
    /\ mutex = Free
    /\ toSendStack = <<>>
    /\ unackedCapsules = 0
    /\ unackedCache = [id \in {} |-> <<>>]
    /\ unackedStack = <<>>
    /\ bufferCursor = FrameSetHeader
    /\ frameSetId = 0
    /\ reliableIndex = 0
    /\ orderIndex = 0
    /\ sequenceIndex = 0
    /\ nextFragmentId = 0
    /\ packet = NoRange
    /\ buffer = {}
    /\ wire = <<>>
    /\ frames = 0
    /\ nacks = 0
    /\ acked = {}
    /\ dropped = {}
    /\ nacked = 0

Indices(capsules) == {capsules[i].reliableIndex : i \in DOMAIN capsules}

----------------------------------------------------------------------------
(* sendFrame *)

\* The network thread sends from inside handleFrame (the replies and the
\* GameData callback), the tick thread from its loop.
CallerState == [network |-> "handling", tick |-> "idle"]

\* handleFrame is entered for a frame that is not a rejected ConnectionRequest;
\* that one returns at once and changes nothing here.
ReceiveFrame ==
    /\ pc["network"] = "idle"
    /\ pc' = [pc EXCEPT !["network"] = "handling"]
    /\ UNCHANGED <<mutex, toSendStack, unackedCapsules, unackedCache,
                   channelVars, datagramVars, peerVars, frames, dropped>>

\* Mutant of ChunkSize: the frame set header is forgotten.
ChunkSizeNoFrameSetHeader == OutgoingMtu - MaxCapsuleHeader

\* The body bytes of one fragment.
ChunkSize == OutgoingMtu - MaxFrameSetHeader

FragmentCount(size) == (size + ChunkSize - 1) \div ChunkSize

\* Only a frame shorter than a chunk goes in one piece; one exactly as long is
\* a single fragment.
IsFragmented(size) == size >= ChunkSize

CapsuleCount(frame) ==
    IF IsFragmented(frame.size) THEN FragmentCount(frame.size) ELSE 1

\* The body size of a frame's n-th capsule, counting from 1.
BodySize(frame, n) ==
    LET remaining == frame.size - (n - 1) * ChunkSize
    IN IF remaining < ChunkSize THEN remaining ELSE ChunkSize

\* The capsules sendFrame makes of a frame, in the order it queues them.
Capsules(frame) ==
    [n \in 1 .. CapsuleCount(frame) |->
        [reliableIndex |-> reliableIndex + n - 1,
         reliability |-> frame.reliability,
         orderIndex |-> IF IsOrdered(frame.reliability) THEN orderIndex ELSE 0,
         sequenceIndex |->
            IF IsSequenced(frame.reliability) THEN sequenceIndex ELSE 0,
         fragmented |-> IsFragmented(frame.size),
         fragmentId |-> IF IsFragmented(frame.size) THEN nextFragmentId ELSE 0,
         fragmentIndex |-> n - 1,
         size |-> BodySize(frame, n),
         frame |-> frames + 1]]

\* sendFrame up to its processQueue: indices are taken, every capsule is
\* queued (sendCapsule ignores a refusal of the full queue).
SendFrame(thread, frame) ==
    /\ pc[thread] = CallerState[thread]
    /\ mutex = Free
    /\ frames < MaxFrames
    /\ pc' = [pc EXCEPT ![thread] = "sending"]
    /\ mutex' = thread
    /\ toSendStack' = PushAllBack(toSendStack, Capsules(frame))
    /\ dropped' = dropped \cup (Indices(Capsules(frame)) \ Indices(toSendStack'))
    /\ frames' = frames + 1
    /\ reliableIndex' = reliableIndex + CapsuleCount(frame)
    /\ orderIndex' = IF IsOrderedExclusive(frame.reliability)
                     THEN orderIndex + 1 ELSE orderIndex
    /\ sequenceIndex' =
         IF IsOrderedExclusive(frame.reliability) THEN 0
         ELSE IF IsSequenced(frame.reliability) THEN sequenceIndex + 1
              ELSE sequenceIndex
    /\ nextFragmentId' = IF IsFragmented(frame.size)
                         THEN nextFragmentId + 1 ELSE nextFragmentId
    /\ UNCHANGED <<unackedCapsules, unackedCache, datagramVars, peerVars>>

\* The processQueue at the end of handleFrame, for whatever it handled.
FinishFrame ==
    /\ pc["network"] = "handling"
    /\ mutex = Free
    /\ pc' = [pc EXCEPT !["network"] = "draining"]
    /\ mutex' = "network"
    /\ UNCHANGED <<toSendStack, unackedCapsules, unackedCache, channelVars,
                   datagramVars, peerVars, frames, dropped>>

----------------------------------------------------------------------------
(* processQueue *)

CapsuleHeader(capsule) ==
    3 + (IF IsReliable(capsule.reliability) THEN 3 ELSE 0)
      + (IF IsSequenced(capsule.reliability) THEN 3 ELSE 0)
      + (IF IsOrdered(capsule.reliability) THEN 4 ELSE 0)
      + (IF capsule.fragmented THEN 10 ELSE 0)

\* The caller's buffer outlives only its own sendFrame call.
BodyAlive(thread, capsule) ==
    /\ pc[thread] = "sending"
    /\ capsule.frame = frames

Draining(thread) ==
    /\ mutex = thread
    /\ pc[thread] \in {"sending", "draining"}

\* Mutant of WindowOpen: one capsule more than the window.
WindowOpenTooWide == unackedCapsules <= WindowSize

WindowOpen == unackedCapsules < WindowSize

NeedsNewDatagram(capsule) ==
    OutgoingMtu - bufferCursor <= MaxCapsuleHeader + capsule.size

\* outgoingUnacknowledgedCache[id] = capsules
Remember(id, capsules) ==
    [other \in DOMAIN unackedCache \cup {id} |->
        IF other = id THEN capsules ELSE unackedCache[other]]

\* Mutant of StackAfterMove: the stack is copied into the cache, not moved.
StackCopied == unackedStack

StackAfterMove == <<>>

\* The datagram being built is sent and remembered under its frame set id,
\* with no entry in the cache's sequence for its unreliable capsules.
CreateCurrentConnectionBuffer ==
    /\ unackedCache' = Remember(frameSetId, unackedStack)
    /\ unackedStack' = StackAfterMove
    /\ wire' = Append(wire, buffer)
    /\ buffer' = {}
    /\ frameSetId' = frameSetId + 1
    /\ bufferCursor' = FrameSetHeader

\* The next capsule might not fit: send what is there first.
RollDatagram(thread) ==
    /\ Draining(thread)
    /\ toSendStack # <<>>
    /\ WindowOpen
    /\ NeedsNewDatagram(Head(toSendStack))
    /\ bufferCursor > FrameSetHeader
    /\ CreateCurrentConnectionBuffer
    /\ UNCHANGED <<pc, mutex, toSendStack, unackedCapsules, channelVars,
                   peerVars, frames, dropped>>

\* One turn of the loop: the front capsule is counted if it is reliable, and
\* written.
PackCapsule(thread) ==
    /\ Draining(thread)
    /\ toSendStack # <<>>
    /\ WindowOpen
    /\ \/ ~ NeedsNewDatagram(Head(toSendStack))
       \/ bufferCursor <= FrameSetHeader
    /\ LET capsule == Head(toSendStack)
       IN /\ toSendStack' = Tail(toSendStack)
          /\ IF IsReliable(capsule.reliability)
             THEN /\ unackedStack' = Append(unackedStack, capsule)
                  /\ unackedCapsules' = unackedCapsules + 1
             ELSE UNCHANGED <<unackedStack, unackedCapsules>>
          /\ bufferCursor' = bufferCursor + CapsuleHeader(capsule) + capsule.size
          /\ buffer' = buffer \cup
               {[capsule |-> capsule, intact |-> BodyAlive(thread, capsule)]}
    /\ UNCHANGED <<pc, mutex, unackedCache, channelVars, frameSetId, wire,
                   peerVars, frames, dropped>>

\* The queue is empty or the window closed: the last datagram is sent, the
\* mutex released, and the caller goes on.
FinishQueue(thread) ==
    /\ Draining(thread)
    /\ toSendStack = <<>> \/ ~ WindowOpen
    /\ IF bufferCursor > FrameSetHeader
       THEN CreateCurrentConnectionBuffer
       ELSE UNCHANGED <<unackedCache, datagramVars>>
    /\ mutex' = Free
    /\ pc' = [pc EXCEPT ![thread] =
                IF pc[thread] = "sending" THEN CallerState[thread] ELSE "idle"]
    /\ UNCHANGED <<toSendStack, unackedCapsules, channelVars, peerVars, frames,
                   dropped>>

----------------------------------------------------------------------------
(* handleAck and handleNack *)

RangeEmpty == packet.low > packet.high

HandleAck ==
    /\ pc["network"] = "idle"
    /\ mutex = Free
    /\ pc' = [pc EXCEPT !["network"] = "acking"]
    /\ mutex' = "network"
    /\ \E rangeCount \in 0 .. MaxRanges :
         packet' = [NoRange EXCEPT !.left = rangeCount]
    /\ UNCHANGED <<toSendStack, unackedCapsules, unackedCache, channelVars,
                   datagramVars, nacks, acked, nacked, frames, dropped>>

HandleNack ==
    /\ pc["network"] = "idle"
    /\ mutex = Free
    /\ nacks < MaxNacks
    /\ pc' = [pc EXCEPT !["network"] = "nacking"]
    /\ mutex' = "network"
    /\ \E rangeCount \in 0 .. MaxRanges :
         packet' = [NoRange EXCEPT !.left = rangeCount]
    /\ nacks' = nacks + 1
    /\ UNCHANGED <<toSendStack, unackedCapsules, unackedCache, channelVars,
                   datagramVars, acked, nacked, frames, dropped>>

\* The next range of the packet: any range of the frame set ids sent, and the
\* next one, which stands for the ids never sent.
ReadRange(low, high) ==
    /\ pc["network"] \in {"acking", "nacking"}
    /\ RangeEmpty
    /\ packet.left > 0
    /\ low <= high
    /\ packet' = [left |-> packet.left - 1, low |-> low, high |-> high]
    /\ UNCHANGED <<pc, mutex, toSendStack, unackedCapsules, unackedCache,
                   channelVars, datagramVars, nacks, acked, nacked, frames,
                   dropped>>

\* Mutant of Forget: the entry is not erased.
ForgetNothing(id) == unackedCache

\* outgoingUnacknowledgedCache.erase
Forget(id) == [other \in DOMAIN unackedCache \ {id} |-> unackedCache[other]]

\* Mutant of AckCredit: a datagram is one slot of the window.
AckCreditOne(id) == 1

\* What an acknowledged datagram gives back to the window.
AckCredit(id) == Len(unackedCache[id])

\* One turn of handleAck's inner loop, upwards through the range.
AckDatagram ==
    /\ pc["network"] = "acking"
    /\ ~ RangeEmpty
    /\ packet' = [packet EXCEPT !.low = @ + 1]
    /\ IF packet.low \in DOMAIN unackedCache
       THEN /\ unackedCapsules' = unackedCapsules - AckCredit(packet.low)
            /\ unackedCache' = Forget(packet.low)
            /\ acked' = acked \cup Indices(unackedCache[packet.low])
       ELSE UNCHANGED <<unackedCapsules, unackedCache, acked>>
    /\ UNCHANGED <<pc, mutex, toSendStack, channelVars, datagramVars, nacks,
                   nacked, frames, dropped>>

\* Mutant of Requeued: capsules to resend go to the back.
RequeuedAtBack(capsules) == PushAllBack(toSendStack, capsules)

\* The capsules of a lost datagram go back to the front of the queue, in their
\* order; again a refusal is ignored.
Requeued(capsules) == PushAllFront(toSendStack, capsules)

\* One turn of handleNack's inner loop, downwards through the range.  The
\* window counter keeps counting the capsules, and nothing is sent.
NackDatagram ==
    /\ pc["network"] = "nacking"
    /\ ~ RangeEmpty
    /\ packet' = [packet EXCEPT !.high = @ - 1]
    /\ IF packet.high \in DOMAIN unackedCache
       THEN LET capsules == unackedCache[packet.high]
            IN /\ toSendStack' = Requeued(capsules)
               /\ unackedCache' = Forget(packet.high)
               /\ nacked' = nacked + Len(capsules)
               /\ dropped' = dropped \cup
                               (Indices(capsules) \ Indices(toSendStack'))
       ELSE UNCHANGED <<toSendStack, unackedCache, nacked, dropped>>
    /\ UNCHANGED <<pc, mutex, unackedCapsules, channelVars, datagramVars, nacks,
                   acked, frames>>

\* The packet is read to its end.
EndPacket ==
    /\ pc["network"] \in {"acking", "nacking"}
    /\ RangeEmpty
    /\ packet.left = 0
    /\ pc' = [pc EXCEPT !["network"] = "idle"]
    /\ mutex' = Free
    /\ packet' = NoRange
    /\ UNCHANGED <<toSendStack, unackedCapsules, unackedCache, channelVars,
                   datagramVars, nacks, acked, nacked, frames, dropped>>

----------------------------------------------------------------------------
Sending(thread) ==
    \/ \E frame \in Frames : SendFrame(thread, frame)
    \/ RollDatagram(thread)
    \/ PackCapsule(thread)
    \/ FinishQueue(thread)

Next ==
    \/ ReceiveFrame
    \/ FinishFrame
    \/ \E thread \in Threads : Sending(thread)
    \/ HandleAck
    \/ HandleNack
    \/ \E low, high \in 0 .. frameSetId : ReadRange(low, high)
    \/ AckDatagram
    \/ NackDatagram
    \/ EndPacket

Spec == Init /\ [][Next]_vars

----------------------------------------------------------------------------
(* Properties *)

Capsule ==
    [reliableIndex : Nat, reliability : Reliabilities, orderIndex : Nat,
     sequenceIndex : Nat, fragmented : BOOLEAN, fragmentId : Nat,
     fragmentIndex : Nat, size : Nat, frame : Nat]

Written == [capsule : Capsule, intact : BOOLEAN]

TypeOK ==
    /\ pc \in [Threads -> {"idle", "handling", "sending", "draining", "acking",
                           "nacking"}]
    /\ mutex \in Threads \cup {Free}
    /\ toSendStack \in Seq(Capsule)
    /\ Len(toSendStack) <= Capacity
    /\ unackedCapsules \in Nat
    /\ DOMAIN unackedCache \subseteq 0 .. frameSetId - 1
    /\ unackedCache \in [DOMAIN unackedCache -> Seq(Capsule)]
    /\ unackedStack \in Seq(Capsule)
    /\ bufferCursor \in Nat
    /\ frameSetId \in Nat
    /\ reliableIndex \in Nat
    /\ orderIndex \in Nat
    /\ sequenceIndex \in Nat
    /\ nextFragmentId \in Nat
    /\ packet \in [left : Nat, low : Nat, high : Int]
    /\ buffer \in SUBSET Written
    /\ wire \in Seq(SUBSET Written)
    /\ frames \in Nat
    /\ nacks \in Nat
    /\ acked \in SUBSET Nat
    /\ dropped \in SUBSET Nat
    /\ nacked \in Nat

\* The places of the capsules waiting for an ACK: datagram and position.
InFlight == UNION {{id} \X DOMAIN unackedCache[id] : id \in DOMAIN unackedCache}

\* The counter the window is measured with is exactly: what waits for an ACK,
\* what the datagram being built holds, and every capsule a NACK ever took
\* back.  The last term is never given back: handleNack does not decrement.
WindowAccounting ==
    unackedCapsules = Cardinality(InFlight) + Len(unackedStack) + nacked

\* No ACK, duplicate, late or of a retransmission, makes the size_t counter
\* wrap below zero, and what is out never exceeds the window.
WindowRespected ==
    /\ unackedCapsules <= WindowSize
    /\ \A id \in DOMAIN unackedCache : Len(unackedCache[id]) <= unackedCapsules
    /\ Cardinality(InFlight) + Len(unackedStack) <= WindowSize

\* The memcpy of processQueue stays within the mtu for every size of frame: also
\* when a capsule does not fit a fresh datagram by the test above, which
\* createCurrentConnectionBuffer then ignores.
DatagramFits == bufferCursor <= OutgoingMtu

ReliableOf(datagram) ==
    {entry.capsule : entry \in {e \in datagram : IsReliable(e.capsule.reliability)}}

\* What the cache would retransmit under an id is what was written into the
\* datagram with that id: nothing forgotten, nothing of another datagram.
CacheMatchesWire ==
    /\ \A id \in DOMAIN unackedCache :
         Range(unackedCache[id]) = ReliableOf(wire[id + 1])
    /\ Range(unackedStack) = ReliableOf(buffer)

UnreliableSent ==
    {entry.capsule.reliableIndex :
       entry \in {e \in (UNION Range(wire)) \cup buffer :
                   ~ IsReliable(e.capsule.reliability)}}

Flying == UNION {Indices(unackedCache[id]) : id \in DOMAIN unackedCache}

\* Every capsule ever made is in exactly one place: the queue, the datagram
\* being built, the cache, acknowledged, sent unreliably, or refused by the
\* full queue.  No sequence of sends, ACKs and NACKs loses or doubles one.
ExactlyOnePlace ==
    /\ Indices(toSendStack) \cup Indices(unackedStack) \cup Flying \cup acked
          \cup UnreliableSent \cup dropped = 0 .. reliableIndex - 1
    /\ Len(toSendStack) + Len(unackedStack) + Cardinality(InFlight)
          + Cardinality(acked) + Cardinality(UnreliableSent)
          + Cardinality(dropped) = reliableIndex

Place ==
    [i \in 0 .. reliableIndex - 1 |->
        CASE i \in Indices(toSendStack)  -> "queued"
          [] i \in Indices(unackedStack) -> "building"
          [] i \in acked                 -> "acked"
          [] i \in Flying                -> "inFlight"
          [] i \in UnreliableSent        -> "sent"
          [] OTHER                       -> "dropped"]

Lifecycle == INSTANCE CapsuleLifecycle WITH place <- Place

\* Each capsule goes its way from the queue to the datagram being built, into
\* flight, and to an end or back to the queue; none is acknowledged that was not
\* in flight, and none comes back from an end, whatever ACKs and NACKs say.
ImplementsLifecycle == Lifecycle!Spec

EverSent ==
    {entry.capsule.reliableIndex : entry \in (UNION Range(wire)) \cup buffer}

\* Both threads' frames reach the wire for the first time in the order
\* sendFrame numbered them, and retransmissions go before them.
FirstSendInOrder ==
    \A i \in DOMAIN toSendStack :
       LET index == toSendStack[i].reliableIndex
       IN index \notin EverSent =>
            /\ \A j \in i + 1 .. Len(toSendStack) :
                 /\ toSendStack[j].reliableIndex \notin EverSent
                 /\ toSendStack[j].reliableIndex > index
            /\ \A sent \in EverSent : sent < index

\* Once NACKs took back as many capsules as the window is wide, no capsule
\* leaves the queue again, whatever the peer acknowledges.
StallsAfterAWindowOfNacks ==
    [][nacked >= WindowSize => Len(toSendStack') >= Len(toSendStack)]_vars

\* raknetServer.cpp:543 and :552 run processQueue inside sendFrame because the
\* "buffer die from jerv.send": no datagram should hold a body read after its
\* sendFrame returned.
NoFreedBodySent ==
    \A entry \in (UNION Range(wire)) \cup buffer : entry.intact

=============================================================================

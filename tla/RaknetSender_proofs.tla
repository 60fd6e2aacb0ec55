------------------------- MODULE RaknetSender_proofs -------------------------
(***************************************************************************)
(* Theorems about the sending half of a connection, for every queue        *)
(* capacity, window, mtu and set of frames: the window counter never wraps *)
(* and never exceeds the window, a datagram never exceeds the mtu, a       *)
(* window's worth of NACKs stops the connection, the cache holds what was  *)
(* sent, no capsule is lost or in two places, the lifecycle of a capsule   *)
(* is implemented, and capsules are first sent in the order of their       *)
(* indices.  And about the connection with its peer, on a network that     *)
(* loses and reorders: it does what the sender does, and what it takes for *)
(* acknowledged has arrived.                                               *)
(***************************************************************************)
EXTENDS LossyConnection, FiniteSetTheorems, SequenceTheorems, TLAPS

-----------------------------------------------------------------------------
(* The places of the capsules in a cache, counted.                         *)

Places(cache) == UNION {{id} \X DOMAIN cache[id] : id \in DOMAIN cache}

With(cache, id, seq) ==
    [other \in DOMAIN cache \cup {id} |-> IF other = id THEN seq ELSE cache[other]]

Without(cache, id) == [other \in DOMAIN cache \ {id} |-> cache[other]]

\* The places under one id are as many as the capsules of its sequence.
LEMMA PlacesOfOne ==
    ASSUME NEW S, NEW seq \in Seq(S), NEW id
    PROVE  /\ IsFiniteSet({id} \X DOMAIN seq)
           /\ Cardinality({id} \X DOMAIN seq) = Len(seq)
<1>1. /\ DOMAIN seq = 1 .. Len(seq)
      /\ Len(seq) \in Nat
  OBVIOUS
<1>2. /\ IsFiniteSet(1 .. Len(seq))
      /\ Cardinality(1 .. Len(seq)) = Len(seq)
  BY <1>1, FS_Interval
<1>3. IsFiniteSet({id}) /\ Cardinality({id}) = 1
  BY FS_Singleton
<1>4. /\ IsFiniteSet({id} \X (1 .. Len(seq)))
      /\ Cardinality({id} \X (1 .. Len(seq)))
           = Cardinality({id}) * Cardinality(1 .. Len(seq))
  BY <1>2, <1>3, FS_Product
<1> QED
  BY <1>1, <1>2, <1>3, <1>4

\* An id added to the cache adds the length of its sequence.
LEMMA PlacesRemembered ==
    ASSUME NEW cache, IsFiniteSet(Places(cache)),
           NEW id, id \notin DOMAIN cache,
           NEW S, NEW seq \in Seq(S)
    PROVE  /\ IsFiniteSet(Places(With(cache, id, seq)))
           /\ Cardinality(Places(With(cache, id, seq)))
                = Cardinality(Places(cache)) + Len(seq)
<1> DEFINE old == Places(cache)
           new == {id} \X DOMAIN seq
           after == With(cache, id, seq)
<1>1. Places(after) = old \cup new
  BY DEF Places, With
<1>2. old \cap new = {}
  BY DEF Places
<1>3. IsFiniteSet(new) /\ Cardinality(new) = Len(seq)
  BY PlacesOfOne, Zenon
<1>4. IsFiniteSet(old) /\ Cardinality(old) \in Nat /\ Len(seq) \in Nat
  BY FS_CardinalityType
<1> HIDE DEF old, new
<1>5. /\ IsFiniteSet(old \cup new)
      /\ Cardinality(old \cup new)
           = Cardinality(old) + Cardinality(new) - Cardinality(old \cap new)
  BY <1>3, <1>4, FS_Union, Zenon
<1>6. Cardinality(old \cap new) = 0
  BY <1>2, FS_EmptySet, Zenon
<1>7. Cardinality(old \cup new) = Cardinality(old) + Len(seq)
  BY <1>3, <1>4, <1>5, <1>6
<1> QED
  BY <1>1, <1>5, <1>7 DEF old

\* An id forgotten takes the length of its sequence away.
LEMMA PlacesForgotten ==
    ASSUME NEW cache, IsFiniteSet(Places(cache)),
           NEW id \in DOMAIN cache,
           NEW S, cache[id] \in Seq(S)
    PROVE  /\ IsFiniteSet(Places(Without(cache, id)))
           /\ Cardinality(Places(Without(cache, id)))
                = Cardinality(Places(cache)) - Len(cache[id])
<1> DEFINE old == Places(cache)
           gone == {id} \X DOMAIN cache[id]
           after == Without(cache, id)
<1>1. Places(after) = old \ gone
  BY DEF Places, Without
<1>2. old \cap gone = gone
  BY DEF Places
<1>3. Cardinality(gone) = Len(cache[id])
  BY PlacesOfOne, Zenon
<1> HIDE DEF gone
<1>4. /\ IsFiniteSet(old \ gone)
      /\ Cardinality(old \ gone) = Cardinality(old) - Cardinality(old \cap gone)
  BY FS_Difference, Zenon
<1> QED
  BY <1>1, <1>2, <1>3, <1>4, Zenon

\* No sequence of the cache is longer than all the places together.
LEMMA PlacesBound ==
    ASSUME NEW cache, IsFiniteSet(Places(cache)),
           NEW id \in DOMAIN cache, NEW S, cache[id] \in Seq(S)
    PROVE  Len(cache[id]) <= Cardinality(Places(cache))
<1>1. ({id} \X DOMAIN cache[id]) \in SUBSET Places(cache)
  BY DEF Places
<1>2. Cardinality({id} \X DOMAIN cache[id]) = Len(cache[id])
  BY PlacesOfOne
<1> QED
  BY <1>1, <1>2, FS_Subset

-----------------------------------------------------------------------------
(* The queue operations and the capsules of a frame.                       *)

\* Both bulk pushes keep the type and the capacity, and never shorten the queue.
LEMMA PushAllBackShape ==
    ASSUME NEW S, NEW queue \in Seq(S), Len(queue) <= Capacity,
           NEW items \in Seq(S)
    PROVE  /\ PushAllBack(queue, items) \in Seq(S)
           /\ Len(PushAllBack(queue, items)) <= Capacity
           /\ Len(PushAllBack(queue, items)) >= Len(queue)
<1> DEFINE kept == IF Len(items) <= Room(queue) THEN Len(items) ELSE Room(queue)
<1>1. /\ kept \in 0 .. Len(items)
      /\ kept <= Capacity - Len(queue)
  BY CapacityAssumption DEF Room
<1>2. /\ SubSeq(items, 1, kept) \in Seq(S)
      /\ Len(SubSeq(items, 1, kept)) = kept
  BY <1>1
<1> HIDE DEF kept
<1>3. /\ queue \o SubSeq(items, 1, kept) \in Seq(S)
      /\ Len(queue \o SubSeq(items, 1, kept)) = Len(queue) + kept
  BY <1>1, <1>2
<1>4. PushAllBack(queue, items) = queue \o SubSeq(items, 1, kept)
  BY Zenon DEF PushAllBack, kept
<1> QED
  BY <1>1, <1>3, <1>4, CapacityAssumption

\* Pushing to the front neither exceeds the capacity nor shortens the queue.
LEMMA PushAllFrontShape ==
    ASSUME NEW S, NEW queue \in Seq(S), Len(queue) <= Capacity,
           NEW items \in Seq(S)
    PROVE  /\ PushAllFront(queue, items) \in Seq(S)
           /\ Len(PushAllFront(queue, items)) <= Capacity
           /\ Len(PushAllFront(queue, items)) >= Len(queue)
<1> DEFINE first == IF Len(items) <= Room(queue)
                    THEN 1 ELSE Len(items) - Room(queue) + 1
           kept == Len(items) - first + 1
<1>1. /\ first \in 1 .. Len(items) + 1
      /\ kept \in Nat
      /\ kept <= Capacity - Len(queue)
  BY CapacityAssumption DEF Room
<1>2. /\ SubSeq(items, first, Len(items)) \in Seq(S)
      /\ Len(SubSeq(items, first, Len(items))) = kept
  BY <1>1
<1> HIDE DEF first, kept
<1>3. /\ SubSeq(items, first, Len(items)) \o queue \in Seq(S)
      /\ Len(SubSeq(items, first, Len(items)) \o queue) = kept + Len(queue)
  BY <1>1, <1>2
<1>4. PushAllFront(queue, items) = SubSeq(items, first, Len(items)) \o queue
  BY Zenon DEF PushAllFront, first
<1> QED
  BY <1>1, <1>3, <1>4, CapacityAssumption

\* Whole chunks fit in what they divide.
LEMMA FragmentCountBound ==
    ASSUME NEW chunk \in Nat \ {0}, NEW bytes \in Nat,
           NEW n \in 1 .. (bytes + chunk - 1) \div chunk
    PROVE  (n - 1) * chunk <= bytes
<1> DEFINE q == (bytes + chunk - 1) \div chunk
<1>1. q * chunk <= bytes + chunk - 1 /\ q \in Int
  OBVIOUS
<1>2. n \in Int /\ n <= q
  BY <1>1
<1> HIDE DEF q
<1>3. n * chunk <= q * chunk
  BY <1>1, <1>2
<1>4. n * chunk \in Int /\ q * chunk \in Int /\ (n - 1) * chunk = n * chunk - chunk
  BY <1>1, <1>2
<1> QED
  BY <1>1, <1>3, <1>4

\* Capsules that leave room for both headers in a datagram.
Sized == {capsule \in Capsule : capsule.size <= ChunkSize}

\* A frame is cut into capsules of the right type, none longer than a chunk.
LEMMA CapsulesShape ==
    ASSUME NEW frame \in Frames,
           reliableIndex \in Nat, orderIndex \in Nat, sequenceIndex \in Nat,
           nextFragmentId \in Nat, frames \in Nat
    PROVE  /\ CapsuleCount(frame) \in Nat
           /\ Capsules(frame) \in Seq(Sized)
<1>1. ChunkSize \in Nat \ {0}
  BY MtuAssumption DEF ChunkSize, MaxFrameSetHeader, MaxCapsuleHeader,
                       FrameSetHeader
<1>2. frame.size \in Nat /\ frame.reliability \in Reliabilities
  BY FramesAssumption
<1>3. CapsuleCount(frame) \in Nat
  <2>1. (frame.size + ChunkSize - 1) \div ChunkSize \in Nat
    BY <1>1, <1>2
  <2> QED
    BY <2>1, Zenon DEF CapsuleCount, FragmentCount
<1>4. ASSUME NEW n \in 1 .. CapsuleCount(frame)
      PROVE  BodySize(frame, n) \in Nat /\ BodySize(frame, n) <= ChunkSize
  <2>1. CASE IsFragmented(frame.size)
    <3>1. n \in 1 .. (frame.size + ChunkSize - 1) \div ChunkSize
      BY <2>1, Zenon DEF CapsuleCount, FragmentCount
    <3>2. (n - 1) * ChunkSize <= frame.size
      BY <1>1, <1>2, <3>1, FragmentCountBound, Zenon
    <3>3. (n - 1) * ChunkSize \in Nat
      BY <1>1, <1>3
    <3> QED
      BY <1>1, <1>2, <3>2, <3>3 DEF BodySize
  <2>2. CASE ~ IsFragmented(frame.size)
    <3>1. n = 1
      BY <2>2 DEF CapsuleCount
    <3>2. (n - 1) * ChunkSize = 0
      BY <1>1, <3>1
    <3>3. frame.size < ChunkSize
      BY <1>1, <1>2, <2>2 DEF IsFragmented
    <3> QED
      BY <1>1, <1>2, <3>2, <3>3 DEF BodySize
  <2> QED
    BY <2>1, <2>2
<1>5. ASSUME NEW n \in 1 .. CapsuleCount(frame)
      PROVE  Capsules(frame)[n] \in Sized
  <2>1. n \in Nat /\ n - 1 \in Nat /\ reliableIndex + n - 1 \in Nat
    BY <1>3
  <2>2. IsFragmented(frame.size) \in BOOLEAN
    BY DEF IsFragmented
  <2> QED
    BY <1>2, <1>4, <2>1, <2>2 DEF Capsules, Capsule, Sized
<1>6. /\ DOMAIN Capsules(frame) = 1 .. CapsuleCount(frame)
      /\ Capsules(frame) = [n \in 1 .. CapsuleCount(frame) |-> Capsules(frame)[n]]
  BY DEF Capsules
<1> QED
  BY <1>3, <1>5, <1>6

\* The indices of capsules are numbers.
LEMMA IndicesNat ==
    ASSUME NEW capsules \in Seq(Sized)
    PROVE  Indices(capsules) \subseteq Nat
<1>1. \A i \in DOMAIN capsules : capsules[i] \in Capsule
  BY DEF Sized
<1> QED
  BY <1>1 DEF Indices, Capsule

-----------------------------------------------------------------------------
(* The inductive invariant.                                                *)

\* TypeOK with the sizes of the capsules: a body in the queue, the cache or
\* the stack always fits a fresh datagram.
SenderType ==
    /\ pc \in [Threads -> {"idle", "handling", "sending", "draining", "acking",
                           "nacking"}]
    /\ mutex \in Threads \cup {Free}
    /\ toSendStack \in Seq(Sized)
    /\ Len(toSendStack) <= Capacity
    /\ unackedCapsules \in Nat
    /\ DOMAIN unackedCache \subseteq 0 .. frameSetId - 1
    /\ unackedCache \in [DOMAIN unackedCache -> Seq(Sized)]
    /\ unackedStack \in Seq(Sized)
    /\ bufferCursor \in FrameSetHeader .. OutgoingMtu
    /\ frameSetId \in Nat
    /\ reliableIndex \in Nat
    /\ orderIndex \in Nat
    /\ sequenceIndex \in Nat
    /\ nextFragmentId \in Nat
    /\ packet \in [left : Nat, low : Nat, high : Int]
    /\ buffer \in SUBSET Written
    /\ wire \in Seq(SUBSET Written)
    /\ frames \in Nat
    /\ nacks \in Nat
    /\ acked \in SUBSET Nat
    /\ dropped \in SUBSET Nat
    /\ nacked \in Nat

\* The counter is exact, so that an ACK cannot take more than it holds.
SenderCount ==
    /\ IsFiniteSet(InFlight)
    /\ WindowAccounting
    /\ unackedCapsules <= WindowSize

SenderInv == SenderType /\ SenderCount

\* An unused connection satisfies the invariant.
LEMMA InitInv == Init => SenderInv
<1> SUFFICES ASSUME Init PROVE SenderInv
  OBVIOUS
<1>1. InFlight = {}
  BY DEF Init, InFlight
<1>2. SenderType
  BY CapacityAssumption, MtuAssumption
     DEF Init, SenderType, Threads, NoRange, FrameSetHeader, MaxFrameSetHeader,
         MaxCapsuleHeader
<1>3. SenderCount
  <2>1. IsFiniteSet(InFlight) /\ Cardinality(InFlight) = 0
    BY <1>1, FS_EmptySet
  <2> QED
    BY <2>1, WindowAssumption DEF Init, SenderCount, WindowAccounting
<1> QED
  BY <1>2, <1>3 DEF SenderInv

\* What createCurrentConnectionBuffer does to the invariant's state.
LEMMA FlushInv ==
    ASSUME SenderInv, CreateCurrentConnectionBuffer
    PROVE  /\ DOMAIN unackedCache' \subseteq 0 .. frameSetId' - 1
           /\ unackedCache' \in [DOMAIN unackedCache' -> Seq(Sized)]
           /\ unackedStack' = <<>>
           /\ frameSetId' \in Nat
           /\ buffer' = {}
           /\ wire' \in Seq(SUBSET Written)
           /\ bufferCursor' \in FrameSetHeader .. OutgoingMtu
           /\ IsFiniteSet(InFlight')
           /\ Cardinality(InFlight') = Cardinality(InFlight) + Len(unackedStack)
<1>1. /\ frameSetId \in Nat
      /\ DOMAIN unackedCache \subseteq 0 .. frameSetId - 1
      /\ unackedCache \in [DOMAIN unackedCache -> Seq(Sized)]
      /\ unackedStack \in Seq(Sized)
      /\ wire \in Seq(SUBSET Written)
      /\ buffer \in SUBSET Written
      /\ IsFiniteSet(InFlight)
  BY DEF SenderInv, SenderType, SenderCount
<1>2. unackedCache' = With(unackedCache, frameSetId, unackedStack)
  BY DEF CreateCurrentConnectionBuffer, Remember, With
<1>3. frameSetId \notin DOMAIN unackedCache
  BY <1>1
<1>4. InFlight = Places(unackedCache) /\ InFlight' = Places(unackedCache')
  BY DEF InFlight, Places
<1>5. /\ IsFiniteSet(Places(unackedCache'))
      /\ Cardinality(Places(unackedCache'))
           = Cardinality(Places(unackedCache)) + Len(unackedStack)
  <2>1. IsFiniteSet(Places(unackedCache)) /\ unackedStack \in Seq(Sized)
    BY <1>1, <1>4
  <2> QED
    BY <1>2, <1>3, <2>1, PlacesRemembered, Zenon
<1>6. frameSetId' = frameSetId + 1
  BY DEF CreateCurrentConnectionBuffer
<1>7. /\ DOMAIN unackedCache' \subseteq 0 .. frameSetId' - 1
      /\ unackedCache' \in [DOMAIN unackedCache' -> Seq(Sized)]
      /\ frameSetId' \in Nat
  BY <1>1, <1>2, <1>6 DEF With
<1>8. bufferCursor' \in FrameSetHeader .. OutgoingMtu
  BY MtuAssumption DEF CreateCurrentConnectionBuffer, FrameSetHeader,
                       MaxFrameSetHeader, MaxCapsuleHeader
<1>9. wire' \in Seq(SUBSET Written) /\ buffer' = {} /\ unackedStack' = <<>>
  BY <1>1 DEF CreateCurrentConnectionBuffer, StackAfterMove
<1> QED
  BY <1>4, <1>5, <1>7, <1>8, <1>9

\* A frame that arrives, the queue's occasion to go on, keeps the invariant.
LEMMA ReceiveFrameInv ==
    ASSUME SenderInv, ReceiveFrame PROVE SenderInv'
<1>1. UNCHANGED <<toSendStack, unackedCapsules, unackedCache, channelVars,
                  datagramVars, peerVars, frames, dropped>>
  BY DEF ReceiveFrame
<1>2. /\ pc' \in [Threads -> {"idle", "handling", "sending", "draining",
                              "acking", "nacking"}]
      /\ mutex' \in Threads \cup {Free}
  BY DEF ReceiveFrame, SenderInv, SenderType, Threads
<1>3. SenderType'
  BY <1>1, <1>2 DEF SenderInv, SenderType, channelVars, peerVars, datagramVars
<1>4. SenderCount'
  BY <1>1 DEF SenderInv, SenderCount, WindowAccounting, InFlight, peerVars,
              datagramVars
<1> QED
  BY <1>3, <1>4 DEF SenderInv

\* So does the end of its handling.
LEMMA FinishFrameInv ==
    ASSUME SenderInv, FinishFrame PROVE SenderInv'
<1>1. UNCHANGED <<toSendStack, unackedCapsules, unackedCache, channelVars,
                  datagramVars, peerVars, frames, dropped>>
  BY DEF FinishFrame
<1>2. /\ pc' \in [Threads -> {"idle", "handling", "sending", "draining",
                              "acking", "nacking"}]
      /\ mutex' \in Threads \cup {Free}
  BY DEF FinishFrame, SenderInv, SenderType, Threads
<1>3. SenderType'
  BY <1>1, <1>2 DEF SenderInv, SenderType, channelVars, peerVars, datagramVars
<1>4. SenderCount'
  BY <1>1 DEF SenderInv, SenderCount, WindowAccounting, InFlight, peerVars,
              datagramVars
<1> QED
  BY <1>3, <1>4 DEF SenderInv

\* A frame cut into capsules and queued keeps the invariant.
LEMMA SendFrameInv ==
    ASSUME NEW thread \in Threads, NEW frame \in Frames,
           SenderInv, SendFrame(thread, frame)
    PROVE  SenderInv'
<1>1. SenderType
  BY DEF SenderInv
<1>2. /\ CapsuleCount(frame) \in Nat
      /\ Capsules(frame) \in Seq(Sized)
  BY <1>1, CapsulesShape DEF SenderType
<1>3. /\ toSendStack' \in Seq(Sized)
      /\ Len(toSendStack') <= Capacity
  BY <1>1, <1>2, PushAllBackShape DEF SendFrame, SenderType
<1>4. dropped' \in SUBSET Nat
  <2>1. Indices(Capsules(frame)) \subseteq Nat
    BY <1>2, IndicesNat, Zenon
  <2> QED
    BY <1>1, <2>1 DEF SendFrame, SenderType
<1>5. /\ reliableIndex' \in Nat
      /\ orderIndex' \in Nat
      /\ sequenceIndex' \in Nat
      /\ nextFragmentId' \in Nat
      /\ frames' \in Nat
  <2>1. /\ reliableIndex \in Nat /\ orderIndex \in Nat /\ sequenceIndex \in Nat
        /\ nextFragmentId \in Nat /\ frames \in Nat
    BY <1>1 DEF SenderType
  <2>2. /\ reliableIndex' = reliableIndex + CapsuleCount(frame)
        /\ orderIndex' \in {orderIndex, orderIndex + 1}
        /\ sequenceIndex' \in {0, sequenceIndex, sequenceIndex + 1}
        /\ nextFragmentId' \in {nextFragmentId, nextFragmentId + 1}
        /\ frames' = frames + 1
    BY DEF SendFrame
  <2> QED
    BY <1>2, <2>1, <2>2
<1>9. /\ pc' \in [Threads -> {"idle", "handling", "sending", "draining",
                              "acking", "nacking"}]
      /\ mutex' \in Threads \cup {Free}
  BY <1>1 DEF SendFrame, SenderType
<1>6. UNCHANGED <<unackedCapsules, unackedCache, datagramVars, peerVars>>
  BY DEF SendFrame
<1>7. SenderType'
  BY <1>1, <1>3, <1>4, <1>5, <1>6, <1>9 DEF SenderType, datagramVars, peerVars
<1>8. SenderCount'
  BY <1>6 DEF SenderInv, SenderCount, WindowAccounting, InFlight, datagramVars,
              peerVars
<1> QED
  BY <1>7, <1>8 DEF SenderInv

\* The invariant after a step that sends the datagram and touches, besides,
\* at most the threads' own state.
LEMMA FlushStepInv ==
    ASSUME SenderInv, CreateCurrentConnectionBuffer,
           UNCHANGED <<toSendStack, unackedCapsules, channelVars, peerVars,
                       frames, dropped>>,
           pc' \in [Threads -> {"idle", "handling", "sending", "draining",
                                "acking", "nacking"}],
           mutex' \in Threads \cup {Free}
    PROVE  SenderInv'
<1>1. /\ DOMAIN unackedCache' \subseteq 0 .. frameSetId' - 1
      /\ unackedCache' \in [DOMAIN unackedCache' -> Seq(Sized)]
      /\ unackedStack' = <<>>
      /\ frameSetId' \in Nat
      /\ buffer' = {}
      /\ wire' \in Seq(SUBSET Written)
      /\ bufferCursor' \in FrameSetHeader .. OutgoingMtu
  BY FlushInv
<1>2. /\ IsFiniteSet(InFlight')
      /\ Cardinality(InFlight') = Cardinality(InFlight) + Len(unackedStack)
  BY FlushInv
<1>3. unackedStack' \in Seq(Sized) /\ Len(unackedStack') = 0
  BY <1>1
<1>4. SenderType'
  BY <1>1, <1>3 DEF SenderInv, SenderType, channelVars, peerVars
<1>5. SenderCount'
  <2>1. /\ Cardinality(InFlight) \in Nat
        /\ Len(unackedStack) \in Nat
        /\ nacked \in Nat
    BY FS_CardinalityType DEF SenderInv, SenderType, SenderCount
  <2>2. /\ unackedCapsules = Cardinality(InFlight) + Len(unackedStack) + nacked
        /\ unackedCapsules <= WindowSize
    BY DEF SenderInv, SenderCount, WindowAccounting
  <2>3. unackedCapsules' = unackedCapsules /\ nacked' = nacked
    BY DEF peerVars
  <2>4. unackedCapsules' = Cardinality(InFlight') + Len(unackedStack') + nacked'
    BY <1>2, <1>3, <2>1, <2>2, <2>3
  <2> QED
    BY <1>2, <2>2, <2>3, <2>4 DEF SenderCount, WindowAccounting
<1> QED
  BY <1>4, <1>5 DEF SenderInv

\* A datagram finished to begin another one keeps the invariant.
LEMMA RollDatagramInv ==
    ASSUME NEW thread \in Threads, SenderInv, RollDatagram(thread)
    PROVE  SenderInv'
<1>1. /\ CreateCurrentConnectionBuffer
      /\ UNCHANGED <<pc, mutex>>
      /\ UNCHANGED <<toSendStack, unackedCapsules, channelVars, peerVars, frames,
                     dropped>>
  BY DEF RollDatagram
<1>2. /\ pc' \in [Threads -> {"idle", "handling", "sending", "draining",
                              "acking", "nacking"}]
      /\ mutex' \in Threads \cup {Free}
  BY <1>1 DEF SenderInv, SenderType
<1> QED
  BY <1>1, <1>2, FlushStepInv

\* The end of the queue, or of the window, keeps the invariant.
LEMMA FinishQueueInv ==
    ASSUME NEW thread \in Threads, SenderInv, FinishQueue(thread)
    PROVE  SenderInv'
<1>1. UNCHANGED <<toSendStack, unackedCapsules, channelVars, peerVars, frames,
                  dropped>>
  BY DEF FinishQueue
<1>2. /\ pc' \in [Threads -> {"idle", "handling", "sending", "draining",
                              "acking", "nacking"}]
      /\ mutex' \in Threads \cup {Free}
  BY DEF FinishQueue, SenderInv, SenderType, CallerState, Threads
<1>3. CASE CreateCurrentConnectionBuffer
  BY <1>1, <1>2, <1>3, FlushStepInv
<1>4. CASE UNCHANGED <<unackedCache, datagramVars>>
  <2>1. SenderType'
    BY <1>1, <1>2, <1>4 DEF SenderInv, SenderType, channelVars, peerVars,
                            datagramVars
  <2>2. SenderCount'
    BY <1>1, <1>4 DEF SenderInv, SenderCount, WindowAccounting, InFlight,
                      peerVars, datagramVars
  <2> QED
    BY <2>1, <2>2 DEF SenderInv
<1> QED
  BY <1>3, <1>4 DEF FinishQueue

\* No capsule has a longer header than MAX_CAPSULE_HEADER_SIZE.
LEMMA HeaderBound ==
    ASSUME NEW capsule \in Capsule
    PROVE  CapsuleHeader(capsule) \in 3 .. MaxCapsuleHeader
<1>1. capsule.fragmented \in BOOLEAN
  BY DEF Capsule
<1> QED
  BY <1>1 DEF CapsuleHeader, IsReliable, IsSequenced, IsOrdered, MaxCapsuleHeader

\* A capsule packed into the datagram takes its slot of the window.
LEMMA PackCapsuleInv ==
    ASSUME NEW thread \in Threads, SenderInv, PackCapsule(thread)
    PROVE  SenderInv'
<1> DEFINE capsule == Head(toSendStack)
<1>1. SenderType /\ SenderCount
  BY DEF SenderInv
<1>2. /\ capsule \in Sized
      /\ Tail(toSendStack) \in Seq(Sized)
      /\ Len(Tail(toSendStack)) <= Capacity
  BY <1>1, CapacityAssumption DEF PackCapsule, SenderType
<1>3. /\ capsule \in Capsule
      /\ capsule.size \in Nat
      /\ capsule.size <= ChunkSize
  BY <1>2 DEF Sized, Capsule
<1>4. /\ UNCHANGED <<pc, mutex, unackedCache, channelVars, frameSetId, wire,
                     peerVars, frames, dropped>>
      /\ toSendStack' = Tail(toSendStack)
  BY DEF PackCapsule
<1>5. bufferCursor' \in FrameSetHeader .. OutgoingMtu
  <2>1. bufferCursor' = bufferCursor + CapsuleHeader(capsule) + capsule.size
    BY DEF PackCapsule
  <2>2. CapsuleHeader(capsule) \in 3 .. MaxCapsuleHeader
    BY <1>3, HeaderBound
  <2>3. /\ bufferCursor \in FrameSetHeader .. OutgoingMtu
        /\ OutgoingMtu \in Nat
    BY <1>1, MtuAssumption DEF SenderType
  <2>4. CASE ~ NeedsNewDatagram(capsule)
    BY <1>3, <2>1, <2>2, <2>3, <2>4
       DEF NeedsNewDatagram, FrameSetHeader, MaxCapsuleHeader
  <2>5. CASE bufferCursor <= FrameSetHeader
    BY <1>3, <2>1, <2>2, <2>3, <2>5
       DEF ChunkSize, MaxFrameSetHeader, FrameSetHeader, MaxCapsuleHeader
  <2> QED
    BY <2>4, <2>5 DEF PackCapsule
<1>6. buffer' \in SUBSET Written
  <2>1. buffer' = buffer \cup
          {[capsule |-> capsule, intact |-> BodyAlive(thread, capsule)]}
    BY DEF PackCapsule
  <2>2. BodyAlive(thread, capsule) \in BOOLEAN
    BY DEF BodyAlive
  <2>3. [capsule |-> capsule, intact |-> BodyAlive(thread, capsule)] \in Written
    BY <1>3, <2>2 DEF Written
  <2> QED
    BY <1>1, <2>1, <2>3 DEF SenderType
<1>7. /\ unackedStack \in Seq(Sized)
      /\ unackedCapsules \in Nat
      /\ unackedCapsules < WindowSize
      /\ unackedCapsules = Cardinality(InFlight) + Len(unackedStack) + nacked
      /\ Cardinality(InFlight) \in Nat
      /\ nacked \in Nat
  BY <1>1, FS_CardinalityType
     DEF SenderType, SenderCount, WindowAccounting, PackCapsule, WindowOpen
<1>8. InFlight' = InFlight /\ nacked' = nacked
  BY <1>4 DEF InFlight, peerVars
<1>9. CASE IsReliable(capsule.reliability)
  <2>1. /\ unackedStack' = Append(unackedStack, capsule)
        /\ unackedCapsules' = unackedCapsules + 1
    BY <1>9 DEF PackCapsule
  <2>2. /\ unackedStack' \in Seq(Sized)
        /\ Len(unackedStack') = Len(unackedStack) + 1
        /\ Len(unackedStack) \in Nat
    BY <1>2, <1>7, <2>1
  <2>3. /\ unackedCapsules' \in Nat
        /\ unackedCapsules' <= WindowSize
        /\ unackedCapsules'
             = Cardinality(InFlight') + Len(unackedStack') + nacked'
    BY <1>7, <1>8, <2>1, <2>2, WindowAssumption
  <2>4. SenderType'
    BY <1>1, <1>2, <1>4, <1>5, <1>6, <2>2, <2>3
       DEF SenderType, channelVars, peerVars
  <2>5. SenderCount'
    BY <1>1, <1>8, <2>3 DEF SenderCount, WindowAccounting
  <2> QED
    BY <2>4, <2>5 DEF SenderInv
<1>10. CASE ~ IsReliable(capsule.reliability)
  <2>1. unackedStack' = unackedStack /\ unackedCapsules' = unackedCapsules
    BY <1>10 DEF PackCapsule
  <2>2. SenderType'
    BY <1>1, <1>2, <1>4, <1>5, <1>6, <2>1 DEF SenderType, channelVars, peerVars
  <2>3. SenderCount'
    BY <1>1, <1>8, <2>1 DEF SenderCount, WindowAccounting
  <2> QED
    BY <2>2, <2>3 DEF SenderInv
<1> QED
  BY <1>9, <1>10

\* The steps that only read the packet.
LEMMA PacketStepInv ==
    ASSUME SenderInv,
           UNCHANGED <<toSendStack, unackedCapsules, unackedCache, channelVars,
                       datagramVars, acked, nacked, frames, dropped>>,
           nacks' \in Nat,
           packet' \in [left : Nat, low : Nat, high : Int],
           pc' \in [Threads -> {"idle", "handling", "sending", "draining",
                                "acking", "nacking"}],
           mutex' \in Threads \cup {Free}
    PROVE  SenderInv'
<1>1. SenderType'
  BY DEF SenderInv, SenderType, channelVars, datagramVars
<1>2. SenderCount'
  BY DEF SenderInv, SenderCount, WindowAccounting, InFlight, datagramVars
<1> QED
  BY <1>1, <1>2 DEF SenderInv

\* Beginning an ACK or NACK changes nothing the invariant is about.
LEMMA HandlePacketInv == SenderInv /\ (HandleAck \/ HandleNack) => SenderInv'
<1> SUFFICES ASSUME SenderInv, HandleAck \/ HandleNack PROVE SenderInv'
  OBVIOUS
<1>1. /\ UNCHANGED <<toSendStack, unackedCapsules, unackedCache, channelVars,
                     datagramVars, acked, nacked, frames, dropped>>
      /\ nacks' \in {nacks, nacks + 1}
  BY DEF HandleAck, HandleNack
<1>2. PICK rangeCount \in 0 .. MaxRanges :
        packet' = [NoRange EXCEPT !.left = rangeCount]
  BY DEF HandleAck, HandleNack
<1>3. packet' \in [left : Nat, low : Nat, high : Int] /\ nacks' \in Nat
  <2>1. packet' = [left |-> rangeCount, low |-> 1, high |-> 0]
    BY <1>2 DEF NoRange
  <2>2. rangeCount \in Nat
    BY BoundsAssumption
  <2>3. nacks \in Nat
    BY DEF SenderInv, SenderType
  <2> QED
    BY <1>1, <2>1, <2>2, <2>3
<1>4. /\ pc' \in [Threads -> {"idle", "handling", "sending", "draining",
                              "acking", "nacking"}]
      /\ mutex' \in Threads \cup {Free}
  BY DEF HandleAck, HandleNack, SenderInv, SenderType, Threads
<1> QED
  BY <1>1, <1>3, <1>4, PacketStepInv

\* Nor does reading one of its ranges.
LEMMA ReadRangeInv ==
    ASSUME NEW low \in 0 .. frameSetId, NEW high \in 0 .. frameSetId,
           SenderInv, ReadRange(low, high)
    PROVE  SenderInv'
<1>1. /\ UNCHANGED <<toSendStack, unackedCapsules, unackedCache, channelVars,
                     datagramVars, acked, nacked, frames, dropped>>
      /\ UNCHANGED <<nacks, pc, mutex>>
  BY DEF ReadRange
<1>2. packet' \in [left : Nat, low : Nat, high : Int]
  <2>1. /\ packet \in [left : Nat, low : Nat, high : Int]
        /\ frameSetId \in Nat
    BY DEF SenderInv, SenderType
  <2>2. /\ packet.left > 0
        /\ packet' = [left |-> packet.left - 1, low |-> low, high |-> high]
    BY DEF ReadRange
  <2> QED
    BY <2>1, <2>2
<1>3. /\ nacks' \in Nat
      /\ pc' \in [Threads -> {"idle", "handling", "sending", "draining",
                              "acking", "nacking"}]
      /\ mutex' \in Threads \cup {Free}
  BY <1>1 DEF SenderInv, SenderType
<1> QED
  BY <1>1, <1>2, <1>3, PacketStepInv

\* Nor does its end.
LEMMA EndPacketInv == SenderInv /\ EndPacket => SenderInv'
<1> SUFFICES ASSUME SenderInv, EndPacket PROVE SenderInv'
  OBVIOUS
<1>1. UNCHANGED <<toSendStack, unackedCapsules, unackedCache, channelVars,
                  datagramVars, acked, nacked, frames, dropped>>
  BY DEF EndPacket
<1>2. packet' \in [left : Nat, low : Nat, high : Int]
  <2>1. packet' = [left |-> 0, low |-> 1, high |-> 0]
    BY DEF EndPacket, NoRange
  <2> QED
    BY <2>1
<1>3. /\ nacks' \in Nat
      /\ pc' \in [Threads -> {"idle", "handling", "sending", "draining",
                              "acking", "nacking"}]
      /\ mutex' \in Threads \cup {Free}
  BY DEF EndPacket, SenderInv, SenderType
<1> QED
  BY <1>1, <1>2, <1>3, PacketStepInv

\* An acknowledged datagram gives back the slots it took.
LEMMA AckDatagramInv == SenderInv /\ AckDatagram => SenderInv'
<1> SUFFICES ASSUME SenderInv, AckDatagram PROVE SenderInv'
  OBVIOUS
<1> DEFINE id == packet.low
<1>1. /\ UNCHANGED <<pc, mutex, toSendStack, channelVars, datagramVars, nacks,
                     nacked, frames, dropped>>
      /\ packet' = [packet EXCEPT !.low = @ + 1]
  BY DEF AckDatagram
<1>2. packet' \in [left : Nat, low : Nat, high : Int]
  <2>1. packet \in [left : Nat, low : Nat, high : Int]
    BY DEF SenderInv, SenderType
  <2> QED
    BY <1>1, <2>1
<1>3. CASE id \notin DOMAIN unackedCache
  <2>1. UNCHANGED <<unackedCapsules, unackedCache, acked>>
    BY <1>3 DEF AckDatagram
  <2>2. /\ nacks' \in Nat
        /\ pc' \in [Threads -> {"idle", "handling", "sending", "draining",
                                "acking", "nacking"}]
        /\ mutex' \in Threads \cup {Free}
    BY <1>1 DEF SenderInv, SenderType
  <2> QED
    BY <1>1, <1>2, <2>1, <2>2, PacketStepInv
<1>4. CASE id \in DOMAIN unackedCache
  <2>1. /\ unackedCapsules' = unackedCapsules - Len(unackedCache[id])
        /\ unackedCache' = Without(unackedCache, id)
        /\ acked' = acked \cup Indices(unackedCache[id])
    BY <1>4 DEF AckDatagram, AckCredit, Forget, Without
  <2>2. /\ unackedCache[id] \in Seq(Sized)
        /\ unackedStack \in Seq(Sized)
        /\ nacked \in Nat
        /\ IsFiniteSet(InFlight)
        /\ unackedCapsules = Cardinality(InFlight) + Len(unackedStack) + nacked
        /\ unackedCapsules <= WindowSize
    BY <1>4 DEF SenderInv, SenderType, SenderCount, WindowAccounting
  <2>3. InFlight = Places(unackedCache) /\ InFlight' = Places(unackedCache')
    BY DEF InFlight, Places
  <2>4. /\ IsFiniteSet(InFlight')
        /\ Cardinality(InFlight') = Cardinality(InFlight) - Len(unackedCache[id])
    BY <1>4, <2>1, <2>2, <2>3, PlacesForgotten, Zenon
  <2>5. Len(unackedCache[id]) <= Cardinality(InFlight)
    BY <1>4, <2>2, <2>3, PlacesBound, Zenon
  <2>6. /\ Cardinality(InFlight) \in Nat
        /\ Len(unackedStack) \in Nat
        /\ Len(unackedCache[id]) \in Nat
    BY <2>2, FS_CardinalityType
  <2>7. unackedStack' = unackedStack /\ nacked' = nacked
    BY <1>1 DEF datagramVars
  <2>8. /\ unackedCapsules' \in Nat
        /\ unackedCapsules' <= WindowSize
        /\ unackedCapsules'
             = Cardinality(InFlight') + Len(unackedStack') + nacked'
    BY <2>1, <2>2, <2>4, <2>5, <2>6, <2>7, WindowAssumption
  <2>9. acked' \in SUBSET Nat
    BY <2>1, <2>2, IndicesNat DEF SenderInv, SenderType
  <2>10. /\ DOMAIN unackedCache' \subseteq 0 .. frameSetId' - 1
         /\ unackedCache' \in [DOMAIN unackedCache' -> Seq(Sized)]
    BY <1>1, <2>1 DEF SenderInv, SenderType, Without, datagramVars
  <2>11. SenderType'
    BY <1>1, <1>2, <2>8, <2>9, <2>10
       DEF SenderInv, SenderType, channelVars, datagramVars
  <2>12. SenderCount'
    BY <2>4, <2>8 DEF SenderCount, WindowAccounting
  <2> QED
    BY <2>11, <2>12 DEF SenderInv
<1> QED
  BY <1>3, <1>4

\* The capsules of a NACKed datagram leave the cache and keep their slots.
LEMMA NackDatagramInv == SenderInv /\ NackDatagram => SenderInv'
<1> SUFFICES ASSUME SenderInv, NackDatagram PROVE SenderInv'
  OBVIOUS
<1> DEFINE id == packet.high
<1>1. /\ UNCHANGED <<pc, mutex, unackedCapsules, channelVars, datagramVars, nacks,
                     acked, frames>>
      /\ packet' = [packet EXCEPT !.high = @ - 1]
  BY DEF NackDatagram
<1>2. packet' \in [left : Nat, low : Nat, high : Int]
  <2>1. packet \in [left : Nat, low : Nat, high : Int]
    BY DEF SenderInv, SenderType
  <2> QED
    BY <1>1, <2>1
<1>3. CASE id \notin DOMAIN unackedCache
  <2>1. UNCHANGED <<toSendStack, unackedCache, nacked, dropped>>
    BY <1>3 DEF NackDatagram
  <2>2. /\ nacks' \in Nat
        /\ pc' \in [Threads -> {"idle", "handling", "sending", "draining",
                                "acking", "nacking"}]
        /\ mutex' \in Threads \cup {Free}
    BY <1>1 DEF SenderInv, SenderType
  <2> QED
    BY <1>1, <1>2, <2>1, <2>2, PacketStepInv
<1>4. CASE id \in DOMAIN unackedCache
  <2>1. /\ toSendStack' = PushAllFront(toSendStack, unackedCache[id])
        /\ unackedCache' = Without(unackedCache, id)
        /\ nacked' = nacked + Len(unackedCache[id])
        /\ dropped' = dropped \cup
                        (Indices(unackedCache[id]) \ Indices(toSendStack'))
    BY <1>4 DEF NackDatagram, Requeued, Forget, Without
  <2>2. /\ unackedCache[id] \in Seq(Sized)
        /\ toSendStack \in Seq(Sized)
        /\ Len(toSendStack) <= Capacity
        /\ unackedStack \in Seq(Sized)
        /\ nacked \in Nat
        /\ IsFiniteSet(InFlight)
        /\ unackedCapsules = Cardinality(InFlight) + Len(unackedStack) + nacked
    BY <1>4 DEF SenderInv, SenderType, SenderCount, WindowAccounting
  <2>3. InFlight = Places(unackedCache) /\ InFlight' = Places(unackedCache')
    BY DEF InFlight, Places
  <2>4. /\ IsFiniteSet(InFlight')
        /\ Cardinality(InFlight') = Cardinality(InFlight) - Len(unackedCache[id])
    BY <1>4, <2>1, <2>2, <2>3, PlacesForgotten, Zenon
  <2>5. /\ Cardinality(InFlight) \in Nat
        /\ Len(unackedStack) \in Nat
        /\ Len(unackedCache[id]) \in Nat
    BY <2>2, FS_CardinalityType
  <2>6. unackedStack' = unackedStack /\ unackedCapsules' = unackedCapsules
    BY <1>1 DEF datagramVars
  <2>7. /\ nacked' \in Nat
        /\ unackedCapsules'
             = Cardinality(InFlight') + Len(unackedStack') + nacked'
    BY <2>1, <2>2, <2>4, <2>5, <2>6
  <2>8. /\ toSendStack' \in Seq(Sized)
        /\ Len(toSendStack') <= Capacity
    BY <2>1, <2>2, PushAllFrontShape
  <2>9. dropped' \in SUBSET Nat
    BY <2>1, <2>2, IndicesNat DEF SenderInv, SenderType
  <2>10. /\ DOMAIN unackedCache' \subseteq 0 .. frameSetId' - 1
         /\ unackedCache' \in [DOMAIN unackedCache' -> Seq(Sized)]
    BY <1>1, <2>1 DEF SenderInv, SenderType, Without, datagramVars
  <2>11. SenderType'
    BY <1>1, <1>2, <2>7, <2>8, <2>9, <2>10
       DEF SenderInv, SenderType, channelVars, datagramVars
  <2>12. SenderCount'
    BY <2>4, <2>6, <2>7 DEF SenderInv, SenderCount, WindowAccounting
  <2> QED
    BY <2>11, <2>12 DEF SenderInv
<1> QED
  BY <1>3, <1>4

\* A step that changes nothing keeps it.
LEMMA StutterInv == SenderInv /\ UNCHANGED vars => SenderInv'
<1> SUFFICES ASSUME SenderInv, UNCHANGED vars PROVE SenderInv'
  OBVIOUS
<1>1. /\ UNCHANGED <<pc, mutex, toSendStack, unackedCapsules, unackedCache>>
      /\ UNCHANGED <<reliableIndex, orderIndex, sequenceIndex, nextFragmentId>>
      /\ UNCHANGED <<unackedStack, bufferCursor, frameSetId, buffer, wire>>
      /\ UNCHANGED <<packet, nacks, acked, nacked, frames, dropped>>
  BY DEF vars, channelVars, datagramVars, peerVars
<1>2. SenderType'
  BY <1>1 DEF SenderInv, SenderType
<1>3. InFlight' = InFlight
  BY <1>1 DEF InFlight
<1>4. SenderCount'
  BY <1>1, <1>3 DEF SenderInv, SenderCount, WindowAccounting
<1> QED
  BY <1>2, <1>4 DEF SenderInv

\* Every step keeps the invariant.
LEMMA StepInv == SenderInv /\ [Next]_vars => SenderInv'
<1> SUFFICES ASSUME SenderInv, [Next]_vars PROVE SenderInv'
  OBVIOUS
<1>1. CASE ReceiveFrame
  BY <1>1, ReceiveFrameInv
<1>2. CASE FinishFrame
  BY <1>2, FinishFrameInv
<1>3. ASSUME NEW thread \in Threads, Sending(thread) PROVE SenderInv'
  BY <1>3, SendFrameInv, RollDatagramInv, PackCapsuleInv, FinishQueueInv
     DEF Sending
<1>4. CASE HandleAck \/ HandleNack
  BY <1>4, HandlePacketInv
<1>5. ASSUME NEW low \in 0 .. frameSetId, NEW high \in 0 .. frameSetId,
             ReadRange(low, high)
      PROVE  SenderInv'
  BY <1>5, ReadRangeInv
<1>6. CASE AckDatagram
  BY <1>6, AckDatagramInv
<1>7. CASE NackDatagram
  BY <1>7, NackDatagramInv
<1>8. CASE EndPacket
  BY <1>8, EndPacketInv
<1>9. CASE UNCHANGED vars
  BY <1>9, StutterInv
<1> QED
  BY <1>1, <1>2, <1>3, <1>4, <1>5, <1>6, <1>7, <1>8, <1>9 DEF Next

\* The invariant holds in every state.
LEMMA SenderInvariant == Spec => []SenderInv
  BY InitInv, StepInv, PTL DEF Spec

-----------------------------------------------------------------------------
(* The theorems.                                                           *)

\* Every field keeps its type; in particular the queue never exceeds its
\* capacity and the window counter, a size_t, never falls below zero.
THEOREM SenderTypeCorrect == Spec => []TypeOK
<1>1. SenderInv => TypeOK
  <2> SUFFICES ASSUME SenderInv PROVE TypeOK
    OBVIOUS
  <2>1. Seq(Sized) \subseteq Seq(Capsule)
    BY DEF Sized
  <2>2. bufferCursor \in Nat
    BY MtuAssumption DEF SenderInv, SenderType, FrameSetHeader
  <2> QED
    BY <2>1, <2>2 DEF SenderInv, SenderType, TypeOK
<1> QED
  BY <1>1, SenderInvariant, PTL

\* The window counter is exactly what waits for an ACK, what the datagram being
\* built holds, and what NACKs ever took back.
THEOREM WindowAccounted == Spec => []WindowAccounting
<1>1. SenderInv => WindowAccounting
  BY DEF SenderInv, SenderCount
<1> QED
  BY <1>1, SenderInvariant, PTL

\* The window is respected, and no ACK underflows the counter.
THEOREM WindowAlwaysRespected == Spec => []WindowRespected
<1>1. SenderInv => WindowRespected
  <2> SUFFICES ASSUME SenderInv PROVE WindowRespected
    OBVIOUS
  <2>1. /\ unackedCapsules <= WindowSize
        /\ unackedCapsules = Cardinality(InFlight) + Len(unackedStack) + nacked
        /\ IsFiniteSet(InFlight)
        /\ unackedStack \in Seq(Sized)
        /\ nacked \in Nat
    BY DEF SenderInv, SenderType, SenderCount, WindowAccounting
  <2>2. Cardinality(InFlight) \in Nat /\ Len(unackedStack) \in Nat
    BY <2>1, FS_CardinalityType
  <2>3. ASSUME NEW id \in DOMAIN unackedCache
        PROVE  Len(unackedCache[id]) <= unackedCapsules
    <3>1. unackedCache[id] \in Seq(Sized)
      BY DEF SenderInv, SenderType
    <3>2. InFlight = Places(unackedCache)
      BY DEF InFlight, Places
    <3>3. Len(unackedCache[id]) <= Cardinality(InFlight)
      BY <2>1, <3>1, <3>2, PlacesBound, Zenon
    <3>4. Len(unackedCache[id]) \in Nat
      BY <3>1
    <3> QED
      BY <2>1, <2>2, <3>3, <3>4
  <2>4. Cardinality(InFlight) + Len(unackedStack) <= WindowSize
    BY <2>1, <2>2, WindowAssumption
  <2> QED
    BY <2>1, <2>3, <2>4 DEF WindowRespected
<1> QED
  BY <1>1, SenderInvariant, PTL

\* No datagram is ever written past the mtu, for every mtu above the header
\* size and every size of frame.
THEOREM DatagramsFit == Spec => []DatagramFits
<1>1. SenderInv => DatagramFits
  BY MtuAssumption DEF SenderInv, SenderType, DatagramFits, FrameSetHeader
<1> QED
  BY <1>1, SenderInvariant, PTL

\* After a window's worth of NACKed capsules nothing leaves the queue.
THEOREM StallsForGood == Spec => StallsAfterAWindowOfNacks
<1>1. SenderInv /\ [Next]_vars
        => [nacked >= WindowSize => Len(toSendStack') >= Len(toSendStack)]_vars
  <2> SUFFICES ASSUME SenderInv, Next, nacked >= WindowSize
               PROVE  Len(toSendStack') >= Len(toSendStack)
    OBVIOUS
  <2>1. /\ toSendStack \in Seq(Sized)
        /\ Len(toSendStack) \in Nat
        /\ Len(toSendStack) <= Capacity
    BY DEF SenderInv, SenderType
  <2>2. ~ WindowOpen
    <3>1. /\ unackedCapsules = Cardinality(InFlight) + Len(unackedStack) + nacked
          /\ nacked \in Nat
          /\ Cardinality(InFlight) \in Nat
          /\ Len(unackedStack) \in Nat
      BY FS_CardinalityType
         DEF SenderInv, SenderType, SenderCount, WindowAccounting
    <3> QED
      BY <3>1, WindowAssumption DEF WindowOpen
  <2>3. ASSUME NEW thread \in Threads, NEW frame \in Frames,
               SendFrame(thread, frame)
        PROVE  Len(toSendStack') >= Len(toSendStack)
    <3>1. Capsules(frame) \in Seq(Sized)
      BY CapsulesShape DEF SenderInv, SenderType
    <3> QED
      BY <2>1, <2>3, <3>1, PushAllBackShape DEF SendFrame
  <2>4. CASE NackDatagram
    <3>1. CASE packet.high \in DOMAIN unackedCache
      <4>1. /\ toSendStack' = PushAllFront(toSendStack, unackedCache[packet.high])
            /\ unackedCache[packet.high] \in Seq(Sized)
        BY <2>4, <3>1 DEF NackDatagram, Requeued, SenderInv, SenderType
      <4> QED
        BY <2>1, <4>1, PushAllFrontShape
    <3>2. CASE packet.high \notin DOMAIN unackedCache
      BY <2>1, <2>4, <3>2 DEF NackDatagram
    <3> QED
      BY <3>1, <3>2
  <2>5. ASSUME NEW thread \in Threads, PackCapsule(thread) PROVE FALSE
    BY <2>2, <2>5 DEF PackCapsule
  <2>6. ASSUME toSendStack' = toSendStack
        PROVE  Len(toSendStack') >= Len(toSendStack)
    BY <2>1, <2>6
  <2>7. ASSUME NEW thread \in Threads, RollDatagram(thread) \/ FinishQueue(thread)
        PROVE  toSendStack' = toSendStack
    BY <2>7 DEF RollDatagram, FinishQueue
  <2>8. ASSUME NEW low \in 0 .. frameSetId, NEW high \in 0 .. frameSetId,
               ReadRange(low, high)
        PROVE  toSendStack' = toSendStack
    BY <2>8 DEF ReadRange
  <2>9. ASSUME \/ ReceiveFrame \/ FinishFrame \/ HandleAck \/ HandleNack
               \/ AckDatagram \/ EndPacket
        PROVE  toSendStack' = toSendStack
    BY <2>9 DEF ReceiveFrame, FinishFrame, HandleAck, HandleNack, AckDatagram,
                EndPacket
  <2> QED
    BY <2>3, <2>4, <2>5, <2>6, <2>7, <2>8, <2>9 DEF Next, Sending
<1> QED
  BY <1>1, SenderInvariant, PTL DEF Spec, StallsAfterAWindowOfNacks

-----------------------------------------------------------------------------
(* The cache and the wire.                                                 *)

\* The frame set id counts the datagrams sent, so that an id of the cache names
\* the datagram sent under it.
CacheInv ==
    /\ Len(wire) = frameSetId
    /\ CacheMatchesWire

\* Sending the datagram moves the stack into the cache and the bytes onto the
\* wire, under the same id.
LEMMA FlushCache ==
    ASSUME SenderType, CacheInv, CreateCurrentConnectionBuffer
    PROVE  CacheInv'
<1>1. /\ wire \in Seq(SUBSET Written)
      /\ buffer \in SUBSET Written
      /\ Len(wire) = frameSetId
      /\ frameSetId \in Nat
      /\ DOMAIN unackedCache \subseteq 0 .. frameSetId - 1
  BY DEF SenderType, CacheInv
<1>2. /\ wire' = Append(wire, buffer)
      /\ unackedStack' = <<>>
      /\ buffer' = {}
      /\ frameSetId' = frameSetId + 1
      /\ unackedCache' = With(unackedCache, frameSetId, unackedStack)
  BY DEF CreateCurrentConnectionBuffer, StackAfterMove, Remember, With
<1>3. Len(wire') = frameSetId'
  BY <1>1, <1>2
<1>4. ASSUME NEW id \in DOMAIN unackedCache'
      PROVE  Range(unackedCache'[id]) = ReliableOf(wire'[id + 1])
  <2>1. CASE id = frameSetId
    <3>1. unackedCache'[id] = unackedStack
      BY <1>2, <2>1 DEF With
    <3>2. wire'[id + 1] = buffer
      BY <1>1, <1>2, <2>1
    <3> QED
      BY <3>1, <3>2 DEF CacheInv, CacheMatchesWire
  <2>2. CASE id # frameSetId
    <3>1. id \in DOMAIN unackedCache /\ unackedCache'[id] = unackedCache[id]
      BY <1>2, <2>2 DEF With
    <3>2. wire'[id + 1] = wire[id + 1]
      BY <1>1, <1>2, <3>1
    <3> QED
      BY <3>1, <3>2 DEF CacheInv, CacheMatchesWire
  <2> QED
    BY <2>1, <2>2
<1>5. Range(unackedStack') = ReliableOf(buffer')
  BY <1>2 DEF Range, ReliableOf
<1> QED
  BY <1>3, <1>4, <1>5 DEF CacheInv, CacheMatchesWire

\* A capsule is pushed on the stack if and only if it is written as reliable.
LEMMA PackCache ==
    ASSUME NEW thread \in Threads, SenderType, CacheInv, PackCapsule(thread)
    PROVE  CacheInv'
<1> DEFINE capsule == Head(toSendStack)
           entry == [capsule |-> capsule, intact |-> BodyAlive(thread, capsule)]
<1>1. /\ UNCHANGED <<unackedCache, frameSetId, wire>>
      /\ buffer' = buffer \cup {entry}
  BY DEF PackCapsule
<1>2. /\ Range(unackedStack) = ReliableOf(buffer)
      /\ unackedStack \in Seq(Sized)
  BY DEF CacheInv, CacheMatchesWire, SenderType
<1>3. entry.capsule = capsule
  OBVIOUS
<1> HIDE DEF entry
<1>4. CASE IsReliable(capsule.reliability)
  <2>1. unackedStack' = Append(unackedStack, capsule)
    BY <1>4 DEF PackCapsule
  <2>2. Range(unackedStack') = Range(unackedStack) \cup {capsule}
    BY <1>2, <2>1 DEF Range
  <2>3. ReliableOf(buffer') = ReliableOf(buffer) \cup {capsule}
    BY <1>1, <1>3, <1>4 DEF ReliableOf
  <2> QED
    BY <1>1, <1>2, <2>2, <2>3 DEF CacheInv, CacheMatchesWire
<1>5. CASE ~ IsReliable(capsule.reliability)
  <2>1. unackedStack' = unackedStack
    BY <1>5 DEF PackCapsule
  <2>2. ReliableOf(buffer') = ReliableOf(buffer)
    BY <1>1, <1>3, <1>5 DEF ReliableOf
  <2> QED
    BY <1>1, <1>2, <2>1, <2>2 DEF CacheInv, CacheMatchesWire
<1> QED
  BY <1>4, <1>5

\* An ACK or a NACK only takes an id out.
LEMMA ForgetCache ==
    ASSUME CacheInv, NEW id, unackedCache' = Forget(id), UNCHANGED datagramVars
    PROVE  CacheInv'
<1>1. UNCHANGED <<unackedStack, buffer, wire, frameSetId>>
  BY DEF datagramVars
<1>2. ASSUME NEW other \in DOMAIN unackedCache'
      PROVE  /\ other \in DOMAIN unackedCache
             /\ unackedCache'[other] = unackedCache[other]
  BY DEF Forget
<1> QED
  BY <1>1, <1>2 DEF CacheInv, CacheMatchesWire

\* Steps that leave the cache, the buffer and the wire keep the invariant.
LEMMA SameCache ==
    ASSUME CacheInv, UNCHANGED <<unackedCache, datagramVars>>
    PROVE  CacheInv'
  BY DEF CacheInv, CacheMatchesWire, datagramVars

\* Every step of the sender keeps it.
LEMMA StepCache == SenderInv /\ CacheInv /\ [Next]_vars => CacheInv'
<1> SUFFICES ASSUME SenderInv, CacheInv, [Next]_vars PROVE CacheInv'
  OBVIOUS
<1>1. SenderType
  BY DEF SenderInv
<1>2. ASSUME NEW thread \in Threads, Sending(thread) PROVE CacheInv'
  <2>1. ASSUME NEW frame \in Frames, SendFrame(thread, frame) PROVE CacheInv'
    BY <2>1, SameCache DEF SendFrame
  <2>2. CASE RollDatagram(thread)
    BY <1>1, <2>2, FlushCache DEF RollDatagram
  <2>3. CASE PackCapsule(thread)
    BY <1>1, <2>3, PackCache
  <2>4. CASE FinishQueue(thread)
    BY <1>1, <2>4, FlushCache, SameCache DEF FinishQueue
  <2> QED
    BY <1>2, <2>1, <2>2, <2>3, <2>4 DEF Sending
<1>3. CASE AckDatagram
  BY <1>3, ForgetCache, SameCache DEF AckDatagram
<1>4. CASE NackDatagram
  BY <1>4, ForgetCache, SameCache DEF NackDatagram
<1>5. ASSUME NEW low \in 0 .. frameSetId, NEW high \in 0 .. frameSetId,
             ReadRange(low, high)
      PROVE  CacheInv'
  BY <1>5, SameCache DEF ReadRange
<1>6. CASE ReceiveFrame \/ FinishFrame \/ HandleAck \/ HandleNack \/ EndPacket
  BY <1>6, SameCache DEF ReceiveFrame, FinishFrame, HandleAck, HandleNack,
                         EndPacket
<1>7. CASE UNCHANGED vars
  BY <1>7, SameCache DEF vars
<1> QED
  BY <1>2, <1>3, <1>4, <1>5, <1>6, <1>7 DEF Next

\* The cache matches the wire, and the frame set id counts the datagrams sent.
LEMMA CacheInvariant == Spec => []CacheInv
<1>1. Init => CacheInv
  BY DEF Init, CacheInv, CacheMatchesWire, ReliableOf, Range
<1> QED
  BY <1>1, StepCache, SenderInvariant, PTL DEF Spec

\* What a NACK would have retransmitted is what the datagram with that id held,
\* for every window, mtu and order of sends, ACKs and NACKs.
THEOREM CacheAlwaysMatchesWire == Spec => []CacheMatchesWire
<1>1. CacheInv => CacheMatchesWire
  BY DEF CacheInv
<1> QED
  BY <1>1, CacheInvariant, PTL
-----------------------------------------------------------------------------
(* Where each capsule is.                                                  *)

\* No capsule is twice in the sequence.
Distinct(capsules) ==
    \A i, j \in DOMAIN capsules :
       capsules[i].reliableIndex = capsules[j].reliableIndex => i = j

\* Joining two queues joins their indices, and repeats none they do not share.
LEMMA IndicesOfConcat ==
    ASSUME NEW a \in Seq(Sized), NEW b \in Seq(Sized)
    PROVE  /\ Indices(a \o b) = Indices(a) \cup Indices(b)
           /\ Distinct(a) /\ Distinct(b) /\ Indices(a) \cap Indices(b) = {}
                => Distinct(a \o b)
<1>1. /\ DOMAIN (a \o b) = 1 .. Len(a) + Len(b)
      /\ DOMAIN a = 1 .. Len(a) /\ DOMAIN b = 1 .. Len(b)
      /\ Len(a) \in Nat /\ Len(b) \in Nat
  OBVIOUS
<1>2. /\ \A i \in 1 .. Len(a) : (a \o b)[i] = a[i]
      /\ \A i \in Len(a) + 1 .. Len(a) + Len(b) : (a \o b)[i] = b[i - Len(a)]
  OBVIOUS
<1>3. \A i \in 1 .. Len(b) : (a \o b)[i + Len(a)] = b[i]
  OBVIOUS
<1>4. Indices(a \o b) \subseteq Indices(a) \cup Indices(b)
  BY <1>1, <1>2 DEF Indices
<1>5. Indices(a) \subseteq Indices(a \o b)
  BY <1>1, <1>2 DEF Indices
<1>6. Indices(b) \subseteq Indices(a \o b)
  <2> SUFFICES ASSUME NEW i \in 1 .. Len(b)
               PROVE  b[i].reliableIndex \in Indices(a \o b)
    BY <1>1 DEF Indices
  <2>1. i + Len(a) \in DOMAIN (a \o b)
    BY <1>1
  <2> QED
    BY <1>3, <2>1 DEF Indices
<1>7. ASSUME Distinct(a), Distinct(b), Indices(a) \cap Indices(b) = {},
             NEW i \in DOMAIN (a \o b), NEW j \in DOMAIN (a \o b),
             (a \o b)[i].reliableIndex = (a \o b)[j].reliableIndex
      PROVE  i = j
  <2>1. CASE i <= Len(a) /\ j <= Len(a)
    BY <1>1, <1>2, <1>7, <2>1 DEF Distinct
  <2>2. CASE i > Len(a) /\ j > Len(a)
    <3>1. /\ i - Len(a) \in DOMAIN b /\ j - Len(a) \in DOMAIN b
          /\ b[i - Len(a)].reliableIndex = b[j - Len(a)].reliableIndex
      BY <1>1, <1>2, <1>7, <2>2
    <3> QED
      BY <1>1, <1>7, <3>1 DEF Distinct
  <2>3. CASE i <= Len(a) /\ j > Len(a)
    <3>1. a[i].reliableIndex \in Indices(a) /\ b[j - Len(a)].reliableIndex \in Indices(b)
      BY <1>1, <2>3 DEF Indices
    <3> QED
      BY <1>1, <1>2, <1>7, <2>3, <3>1
  <2>4. CASE i > Len(a) /\ j <= Len(a)
    <3>1. a[j].reliableIndex \in Indices(a) /\ b[i - Len(a)].reliableIndex \in Indices(b)
      BY <1>1, <2>4 DEF Indices
    <3> QED
      BY <1>1, <1>2, <1>7, <2>4, <3>1
  <2> QED
    BY <1>1, <2>1, <2>2, <2>3, <2>4
<1>8. Distinct(a) /\ Distinct(b) /\ Indices(a) \cap Indices(b) = {}
        => Distinct(a \o b)
  BY <1>7 DEF Distinct
<1> QED
  BY <1>4, <1>5, <1>6, <1>8

\* A part of a queue without repetitions has none.
LEMMA IndicesOfPart ==
    ASSUME NEW s \in Seq(Sized), NEW m \in 1 .. Len(s) + 1, NEW n \in 0 .. Len(s)
    PROVE  /\ SubSeq(s, m, n) \in Seq(Sized)
           /\ Indices(SubSeq(s, m, n)) = {s[i].reliableIndex : i \in m .. n}
           /\ Indices(SubSeq(s, m, n)) \subseteq Indices(s)
           /\ Distinct(s) => Distinct(SubSeq(s, m, n))
<1> DEFINE part == SubSeq(s, m, n)
<1>1. /\ part \in Seq(Sized)
      /\ DOMAIN part = 1 .. n - m + 1
      /\ \A i \in 1 .. n - m + 1 : part[i] = s[m + i - 1]
      /\ DOMAIN s = 1 .. Len(s)
  OBVIOUS
<1> HIDE DEF part
<1>2. Indices(part) \subseteq {s[i].reliableIndex : i \in m .. n}
  BY <1>1 DEF Indices
<1>3. ASSUME NEW i \in m .. n PROVE s[i].reliableIndex \in Indices(part)
  <2>1. i - m + 1 \in DOMAIN part /\ part[i - m + 1] = s[i]
    BY <1>1
  <2> QED
    BY <2>1 DEF Indices
<1>4. {s[i].reliableIndex : i \in m .. n} \subseteq Indices(s)
  BY <1>1 DEF Indices
<1>5. ASSUME Distinct(s), NEW i \in DOMAIN part, NEW j \in DOMAIN part,
             part[i].reliableIndex = part[j].reliableIndex
      PROVE  i = j
  <2>1. /\ i \in 1 .. n - m + 1 /\ j \in 1 .. n - m + 1
        /\ part[i] = s[m + i - 1] /\ part[j] = s[m + j - 1]
    BY <1>1
  <2>3. /\ m + i - 1 \in DOMAIN s /\ m + j - 1 \in DOMAIN s
        /\ s[m + i - 1].reliableIndex = s[m + j - 1].reliableIndex
    BY <1>1, <1>5, <2>1
  <2>2. m + i - 1 = m + j - 1
    BY <1>5, <2>3 DEF Distinct
  <2> QED
    BY <2>1, <2>2
<1>6. Distinct(s) => Distinct(part)
  BY <1>5 DEF Distinct
<1> QED
  BY <1>1, <1>2, <1>3, <1>4, <1>6 DEF part

\* Taking the head takes its index, and no other.
LEMMA IndicesOfTail ==
    ASSUME NEW s \in Seq(Sized), s # <<>>, Distinct(s)
    PROVE  /\ Head(s).reliableIndex \in Indices(s)
           /\ Indices(Tail(s)) = Indices(s) \ {Head(s).reliableIndex}
           /\ Distinct(Tail(s))
<1>1. /\ Len(s) \in Nat \ {0} /\ DOMAIN s = 1 .. Len(s)
      /\ Head(s) = s[1]
      /\ Tail(s) = SubSeq(s, 2, Len(s))
  OBVIOUS
<1>2. /\ Indices(Tail(s)) = {s[i].reliableIndex : i \in 2 .. Len(s)}
      /\ Distinct(Tail(s))
  <2>1. 2 \in 1 .. Len(s) + 1 /\ Len(s) \in 0 .. Len(s)
    BY <1>1
  <2>2. /\ Indices(SubSeq(s, 2, Len(s))) = {s[i].reliableIndex : i \in 2 .. Len(s)}
        /\ Distinct(SubSeq(s, 2, Len(s)))
    BY <2>1, IndicesOfPart, Zenon
  <2> QED
    BY <1>1, <2>2
<1>3. \A i \in 2 .. Len(s) : s[i].reliableIndex # s[1].reliableIndex
  BY <1>1 DEF Distinct
<1>4. 1 .. Len(s) = {1} \cup 2 .. Len(s)
  BY <1>1
<1>5. Indices(s) = {s[1].reliableIndex} \cup {s[i].reliableIndex : i \in 2 .. Len(s)}
  BY <1>1, <1>4, Zenon DEF Indices
<1> QED
  BY <1>1, <1>2, <1>3, <1>5

\* A capsule with a new index adds that index.
LEMMA IndicesOfAppend ==
    ASSUME NEW s \in Seq(Sized), NEW capsule \in Sized
    PROVE  /\ Indices(Append(s, capsule)) = Indices(s) \cup {capsule.reliableIndex}
           /\ Distinct(s) /\ capsule.reliableIndex \notin Indices(s)
                => Distinct(Append(s, capsule))
<1>1. Append(s, capsule) = s \o <<capsule>> /\ <<capsule>> \in Seq(Sized)
  OBVIOUS
<1>2. Indices(<<capsule>>) = {capsule.reliableIndex} /\ Distinct(<<capsule>>)
  BY DEF Indices, Distinct
<1>3. /\ Indices(s \o <<capsule>>) = Indices(s) \cup Indices(<<capsule>>)
      /\ Distinct(s) /\ Distinct(<<capsule>>)
           /\ Indices(s) \cap Indices(<<capsule>>) = {}
           => Distinct(s \o <<capsule>>)
  BY <1>1, IndicesOfConcat, Zenon
<1> QED
  BY <1>1, <1>2, <1>3, Zenon

\* As many indices as capsules.
LEMMA IndicesCounted ==
    ASSUME NEW s \in Seq(Sized), Distinct(s)
    PROVE  /\ IsFiniteSet(Indices(s))
           /\ Cardinality(Indices(s)) = Len(s)
<1> DEFINE f == [i \in 1 .. Len(s) |-> s[i].reliableIndex]
<1>1. Len(s) \in Nat /\ DOMAIN s = 1 .. Len(s)
  OBVIOUS
<1>2. f \in Bijection(1 .. Len(s), Indices(s))
  <2>1. \A i \in 1 .. Len(s) : f[i] \in Indices(s)
    BY <1>1, Zenon DEF Indices
  <2>2. f \in [1 .. Len(s) -> Indices(s)]
    BY <2>1
  <2>3. \A i, j \in 1 .. Len(s) : f[i] = f[j] => i = j
    BY <1>1 DEF Distinct
  <2>4. \A x \in Indices(s) : \E i \in 1 .. Len(s) : f[i] = x
    BY <1>1 DEF Indices
  <2> HIDE DEF f
  <2> QED
    BY <2>2, <2>3, <2>4, Zenon DEF Bijection, Injection, Surjection, IsInjective
<1>3. ExistsBijection(1 .. Len(s), Indices(s))
  BY <1>2 DEF ExistsBijection
<1> QED
  BY <1>1, <1>3, FS_Interval, FS_Bijection

\* What the bulk pushes keep of the items: the first ones, the last ones.
LEMMA PushAllBackKeeps ==
    ASSUME NEW queue, NEW items \in Seq(Sized), Len(queue) \in 0 .. Capacity
    PROVE  \E k \in 0 .. Len(items) :
             PushAllBack(queue, items) = queue \o SubSeq(items, 1, k)
<1> DEFINE k == IF Len(items) <= Room(queue) THEN Len(items) ELSE Room(queue)
<1>1. k \in 0 .. Len(items)
  BY CapacityAssumption DEF Room
<1>2. PushAllBack(queue, items) = queue \o SubSeq(items, 1, k)
  BY Zenon DEF PushAllBack
<1> QED
  BY <1>1, <1>2

\* What a full queue does not take of a push is the front of what is pushed.
LEMMA PushAllFrontKeeps ==
    ASSUME NEW queue, NEW items \in Seq(Sized), Len(queue) \in 0 .. Capacity
    PROVE  \E m \in 1 .. Len(items) + 1 :
             PushAllFront(queue, items) = SubSeq(items, m, Len(items)) \o queue
<1> DEFINE m == IF Len(items) <= Room(queue)
                THEN 1 ELSE Len(items) - Room(queue) + 1
<1>1. m \in 1 .. Len(items) + 1
  BY CapacityAssumption DEF Room
<1>2. PushAllFront(queue, items) = SubSeq(items, m, Len(items)) \o queue
  BY Zenon DEF PushAllFront
<1> QED
  BY <1>1, <1>2

\* The six sets share out the first n indices.
Parted(n, queued, building, flying, done, sent, gone) ==
    /\ queued \cup building \cup flying \cup done \cup sent \cup gone = 0 .. n - 1
    /\ queued \cap (building \cup flying \cup done \cup sent \cup gone) = {}
    /\ building \cap (flying \cup done \cup sent \cup gone) = {}
    /\ flying \cap (done \cup sent \cup gone) = {}
    /\ done \cap (sent \cup gone) = {}
    /\ sent \cap gone = {}

\* Place, as a function of the sets.
PlaceMap(n, queued, building, flying, done, sent) ==
    [i \in 0 .. n - 1 |->
        CASE i \in queued   -> "queued"
          [] i \in building -> "building"
          [] i \in done     -> "acked"
          [] i \in flying   -> "inFlight"
          [] i \in sent     -> "sent"
          [] OTHER          -> "dropped"]

\* What a map says of an index by the six sets.
Tells(map, i, queued, building, flying, done, sent, gone) ==
    /\ i \in queued   => map[i] = "queued"
    /\ i \in building => map[i] = "building"
    /\ i \in flying   => map[i] = "inFlight"
    /\ i \in done     => map[i] = "acked"
    /\ i \in sent     => map[i] = "sent"
    /\ i \in gone     => map[i] = "dropped"
    /\ i \in queued \cup building \cup flying \cup done \cup sent \cup gone

\* In a partition, the map of places says of each set which it is.
LEMMA PlaceValue ==
    ASSUME NEW n, NEW q, NEW b, NEW f, NEW a, NEW u, NEW d,
           Parted(n, q, b, f, a, u, d), NEW i \in 0 .. n - 1
    PROVE  Tells(PlaceMap(n, q, b, f, a, u), i, q, b, f, a, u, d)
<1>1. \/ i \in q \/ i \in b \/ i \in f \/ i \in a \/ i \in u \/ i \in d
  BY DEF Parted
<1>2. PlaceMap(n, q, b, f, a, u)[i] =
        CASE i \in q -> "queued"
          [] i \in b -> "building"
          [] i \in a -> "acked"
          [] i \in f -> "inFlight"
          [] i \in u -> "sent"
          [] OTHER   -> "dropped"
  BY DEF PlaceMap
<1>3. CASE i \in q
  BY <1>2, <1>3 DEF Parted, Tells
<1>4. CASE i \in b
  BY <1>2, <1>4 DEF Parted, Tells
<1>5. CASE i \in f
  BY <1>2, <1>5 DEF Parted, Tells
<1>6. CASE i \in a
  BY <1>2, <1>6 DEF Parted, Tells
<1>7. CASE i \in u
  BY <1>2, <1>7 DEF Parted, Tells
<1>8. CASE i \in d
  BY <1>2, <1>8 DEF Parted, Tells
<1> QED
  BY <1>1, <1>3, <1>4, <1>5, <1>6, <1>7, <1>8 DEF Tells

\* The five ways capsules move, on the sets and on the map.
LEMMA MoveBuilding ==
    ASSUME NEW n, NEW q, NEW b, NEW f, NEW a, NEW u, NEW d,
           Parted(n, q, b, f, a, u, d)
    PROVE  /\ Parted(n, q, {}, f \cup b, a, u, d)
           /\ PlaceMap(n, q, {}, f \cup b, a, u) =
                [i \in 0 .. n - 1 |->
                   IF PlaceMap(n, q, b, f, a, u)[i] = "building" THEN "inFlight"
                   ELSE PlaceMap(n, q, b, f, a, u)[i]]
<1> DEFINE old == PlaceMap(n, q, b, f, a, u)
           new == PlaceMap(n, q, {}, f \cup b, a, u)
<1>1. Parted(n, q, {}, f \cup b, a, u, d)
  BY DEF Parted
<1>2. ASSUME NEW i \in 0 .. n - 1
      PROVE  new[i] = IF old[i] = "building" THEN "inFlight" ELSE old[i]
  <2>1. Tells(old, i, q, b, f, a, u, d)
    BY PlaceValue, Zenon
  <2>2. Tells(new, i, q, {}, f \cup b, a, u, d)
    BY <1>1, PlaceValue, Zenon
  <2> HIDE DEF old, new
  <2> QED
    BY <2>1, <2>2 DEF Tells
<1>3. new = [i \in 0 .. n - 1 |-> new[i]]
  BY DEF PlaceMap
<1> HIDE DEF old, new
<1>4. new = [i \in 0 .. n - 1 |->
               IF old[i] = "building" THEN "inFlight" ELSE old[i]]
  BY <1>2, <1>3
<1> QED
  BY <1>1, <1>4 DEF old, new

Moved(n, map, c, place) ==
    [i \in 0 .. n - 1 |-> IF i \in c THEN place ELSE map[i]]

\* The head enters the datagram being built.
LEMMA MoveToBuilding ==
    ASSUME NEW n, NEW q, NEW b, NEW f, NEW a, NEW u, NEW d, NEW h \in q,
           Parted(n, q, b, f, a, u, d)
    PROVE  Moved(n, PlaceMap(n, q, b, f, a, u), {h}, "building") =
             PlaceMap(n, q \ {h}, b \cup {h}, f, a, u)
<1> DEFINE old == PlaceMap(n, q, b, f, a, u)
           new == PlaceMap(n, q \ {h}, b \cup {h}, f, a, u)
<1>1. /\ h \in 0 .. n - 1
      /\ Parted(n, q \ {h}, b \cup {h}, f, a, u, d)
  BY DEF Parted
<1>2. ASSUME NEW i \in 0 .. n - 1
      PROVE  new[i] = IF i = h THEN "building" ELSE old[i]
  <2>1. Tells(old, i, q, b, f, a, u, d)
    BY PlaceValue, Zenon
  <2>2. Tells(new, i, q \ {h}, b \cup {h}, f, a, u, d)
    BY <1>1, PlaceValue, Zenon
  <2> HIDE DEF old, new
  <2> QED
    BY <2>1, <2>2 DEF Tells
<1>3. new = [i \in 0 .. n - 1 |-> new[i]]
  BY DEF PlaceMap
<1> HIDE DEF old, new
<1>4. new = Moved(n, old, {h}, "building")
  BY <1>1, <1>2, <1>3 DEF Moved
<1> QED
  BY <1>1, <1>4 DEF old, new

\* The head is sent unreliably.
LEMMA MoveToSent ==
    ASSUME NEW n, NEW q, NEW b, NEW f, NEW a, NEW u, NEW d, NEW h \in q,
           Parted(n, q, b, f, a, u, d)
    PROVE  Moved(n, PlaceMap(n, q, b, f, a, u), {h}, "sent") =
             PlaceMap(n, q \ {h}, b, f, a, u \cup {h})
<1> DEFINE old == PlaceMap(n, q, b, f, a, u)
           new == PlaceMap(n, q \ {h}, b, f, a, u \cup {h})
<1>1. /\ h \in 0 .. n - 1
      /\ Parted(n, q \ {h}, b, f, a, u \cup {h}, d)
  BY DEF Parted
<1>2. ASSUME NEW i \in 0 .. n - 1
      PROVE  new[i] = IF i = h THEN "sent" ELSE old[i]
  <2>1. Tells(old, i, q, b, f, a, u, d)
    BY PlaceValue, Zenon
  <2>2. Tells(new, i, q \ {h}, b, f, a, u \cup {h}, d)
    BY <1>1, PlaceValue, Zenon
  <2> HIDE DEF old, new
  <2> QED
    BY <2>1, <2>2 DEF Tells
<1>3. new = [i \in 0 .. n - 1 |-> new[i]]
  BY DEF PlaceMap
<1> HIDE DEF old, new
<1>4. new = Moved(n, old, {h}, "sent")
  BY <1>1, <1>2, <1>3 DEF Moved
<1> QED
  BY <1>1, <1>4 DEF old, new

\* m new indices, the first k of them queued and the others refused.
LEMMA MoveNewParted ==
    ASSUME NEW n \in Nat, NEW q, NEW b, NEW f, NEW a, NEW u, NEW d,
           Parted(n, q, b, f, a, u, d), NEW m \in Nat, NEW k \in 0 .. m
    PROVE  Parted(n + m, q \cup n .. n + k - 1, b, f, a, u,
                  d \cup n + k .. n + m - 1)
<1> DEFINE more == q \cup n .. n + k - 1
           rest == d \cup n + k .. n + m - 1
<1>1. 0 .. n + m - 1 = 0 .. n - 1 \cup n .. n + k - 1 \cup n + k .. n + m - 1
  OBVIOUS
<1>2. /\ 0 .. n - 1 \cap n .. n + k - 1 = {}
      /\ 0 .. n - 1 \cap n + k .. n + m - 1 = {}
      /\ n .. n + k - 1 \cap n + k .. n + m - 1 = {}
  OBVIOUS
<1> DEFINE all == 0 .. n - 1
           first == n .. n + k - 1
           final == n + k .. n + m - 1
<1>3. /\ all \cap first = {} /\ all \cap final = {} /\ first \cap final = {}
      /\ 0 .. n + m - 1 = all \cup first \cup final
      /\ more = q \cup first /\ rest = d \cup final
  BY <1>1, <1>2
<1>4. /\ q \cup b \cup f \cup a \cup u \cup d = all
      /\ q \cap (b \cup f \cup a \cup u \cup d) = {}
      /\ b \cap (f \cup a \cup u \cup d) = {}
      /\ f \cap (a \cup u \cup d) = {}
      /\ a \cap (u \cup d) = {}
      /\ u \cap d = {}
  BY DEF Parted
<1> HIDE DEF all, first, final, more, rest
<1>5. more \cup b \cup f \cup a \cup u \cup rest = all \cup first \cup final
  BY <1>3, <1>4
<1>6. /\ more \cap (b \cup f \cup a \cup u \cup rest) = {}
      /\ b \cap (f \cup a \cup u \cup rest) = {}
      /\ f \cap (a \cup u \cup rest) = {}
      /\ a \cap (u \cup rest) = {}
      /\ u \cap rest = {}
  BY <1>3, <1>4
<1> QED
  BY <1>3, <1>5, <1>6 DEF Parted, more, rest

Grown(n, m, k, old, new) ==
    /\ \A i \in 0 .. n - 1 : new[i] = old[i]
    /\ \A i \in n .. n + m - 1 : new[i] = IF i < n + k THEN "queued" ELSE "dropped"

\* The fragments of a frame are queued, and those a full queue refuses dropped.
LEMMA MoveNew ==
    ASSUME NEW n \in Nat, NEW q, NEW b, NEW f, NEW a, NEW u, NEW d,
           Parted(n, q, b, f, a, u, d), NEW m \in Nat, NEW k \in 0 .. m
    PROVE  Grown(n, m, k, PlaceMap(n, q, b, f, a, u),
                 PlaceMap(n + m, q \cup n .. n + k - 1, b, f, a, u))
<1> DEFINE more == q \cup n .. n + k - 1
           rest == d \cup n + k .. n + m - 1
           old == PlaceMap(n, q, b, f, a, u)
           new == PlaceMap(n + m, more, b, f, a, u)
<1>1. Parted(n + m, more, b, f, a, u, rest)
  BY MoveNewParted
<1>2. ASSUME NEW i \in 0 .. n + m - 1
      PROVE  Tells(new, i, more, b, f, a, u, rest)
  <2> HIDE DEF more, rest
  <2> QED
    BY <1>1, PlaceValue
<1>3. ASSUME NEW i \in 0 .. n - 1 PROVE new[i] = old[i]
  <2>1. Tells(old, i, q, b, f, a, u, d)
    BY PlaceValue, Zenon
  <2>2. i \in 0 .. n + m - 1 /\ (i \in q => i \in more) /\ (i \in d => i \in rest)
    OBVIOUS
  <2> HIDE DEF old, new, more, rest
  <2> QED
    BY <1>2, <2>1, <2>2 DEF Tells
<1>4. ASSUME NEW i \in n .. n + m - 1
      PROVE  new[i] = IF i < n + k THEN "queued" ELSE "dropped"
  <2>1. /\ i \in 0 .. n + m - 1
        /\ i < n + k => i \in more
        /\ ~ (i < n + k) => i \in rest
    OBVIOUS
  <2> HIDE DEF new, more, rest
  <2> QED
    BY <1>2, <2>1 DEF Tells
<1> QED
  BY <1>3, <1>4, Zenon DEF Grown

\* An ACK settles a set of capsules in flight.
LEMMA MoveAcked ==
    ASSUME NEW n, NEW q, NEW b, NEW f, NEW a, NEW u, NEW d,
           Parted(n, q, b, f, a, u, d), NEW c \in SUBSET f
    PROVE  Moved(n, PlaceMap(n, q, b, f, a, u), c, "acked") =
             PlaceMap(n, q, b, f \ c, a \cup c, u)
<1> DEFINE old == PlaceMap(n, q, b, f, a, u)
           new == PlaceMap(n, q, b, f \ c, a \cup c, u)
<1>1. Parted(n, q, b, f \ c, a \cup c, u, d)
  BY DEF Parted
<1>2. ASSUME NEW i \in 0 .. n - 1
      PROVE  new[i] = IF i \in c THEN "acked" ELSE old[i]
  <2>1. Tells(old, i, q, b, f, a, u, d)
    BY PlaceValue, Zenon
  <2>2. Tells(new, i, q, b, f \ c, a \cup c, u, d)
    BY <1>1, PlaceValue, Zenon
  <2>3. CASE i \in c
    BY <2>2, <2>3 DEF Tells
  <2>4. CASE i \notin c
    <3> HIDE DEF old, new
    <3> QED
      BY <2>1, <2>2, <2>4 DEF Tells
  <2> QED
    BY <2>3, <2>4
<1>3. new = [i \in 0 .. n - 1 |-> new[i]]
  BY DEF PlaceMap
<1> HIDE DEF old, new
<1>4. new = Moved(n, old, c, "acked")
  BY <1>2, <1>3 DEF Moved
<1> QED
  BY <1>4 DEF old, new

\* Of the capsules c that come back, e are refused.
LEMMA MoveNacked ==
    ASSUME NEW n, NEW q, NEW b, NEW f, NEW a, NEW u, NEW d,
           Parted(n, q, b, f, a, u, d), NEW c \in SUBSET f, NEW e \in SUBSET c
    PROVE  Moved(n, Moved(n, PlaceMap(n, q, b, f, a, u), c, "queued"), e, "dropped") =
             PlaceMap(n, q \cup (c \ e), b, f \ c, a, u)
<1> DEFINE old == PlaceMap(n, q, b, f, a, u)
           new == PlaceMap(n, q \cup (c \ e), b, f \ c, a, u)
<1>1. Parted(n, q \cup (c \ e), b, f \ c, a, u, d \cup e)
  BY DEF Parted
<1>2. ASSUME NEW i \in 0 .. n - 1
      PROVE  new[i] = IF i \in e THEN "dropped"
                      ELSE IF i \in c THEN "queued" ELSE old[i]
  <2>1. Tells(old, i, q, b, f, a, u, d)
    BY PlaceValue, Zenon
  <2>2. Tells(new, i, q \cup (c \ e), b, f \ c, a, u, d \cup e)
    BY <1>1, PlaceValue, Zenon
  <2> HIDE DEF old, new
  <2>3. CASE i \in e
    BY <2>2, <2>3 DEF Tells
  <2>4. CASE i \notin e /\ i \in c
    BY <2>2, <2>4 DEF Tells
  <2>5. CASE i \notin e /\ i \notin c
    BY <2>1, <2>2, <2>5 DEF Tells
  <2> QED
    BY <2>3, <2>4, <2>5
<1>3. new = [i \in 0 .. n - 1 |-> new[i]]
  BY DEF PlaceMap
<1> HIDE DEF old, new
<1>4. new = Moved(n, Moved(n, old, c, "queued"), e, "dropped")
  BY <1>2, <1>3 DEF Moved
<1> QED
  BY <1>4 DEF old, new

\* The cache holds no capsule twice, within a datagram or in two.
FlyingOnce ==
    /\ \A id \in DOMAIN unackedCache : Distinct(unackedCache[id])
    /\ \A id, other \in DOMAIN unackedCache :
         id # other => Indices(unackedCache[id]) \cap Indices(unackedCache[other]) = {}

\* ExactlyOnePlace without counting: the sets share out the indices, and no
\* sequence repeats one.
PlaceInv ==
    /\ Parted(reliableIndex, Indices(toSendStack), Indices(unackedStack), Flying,
              acked, UnreliableSent, dropped)
    /\ Distinct(toSendStack)
    /\ Distinct(unackedStack)
    /\ FlyingOnce

\* The refinement mapping is the map of the sender's sets.
LEMMA PlaceIsMap ==
    /\ Place = PlaceMap(reliableIndex, Indices(toSendStack), Indices(unackedStack),
                        Flying, acked, UnreliableSent)
    /\ Place' = PlaceMap(reliableIndex', Indices(toSendStack)',
                         Indices(unackedStack)', Flying', acked', UnreliableSent')
    /\ DOMAIN Place = 0 .. reliableIndex - 1
    /\ DOMAIN Place' = 0 .. reliableIndex' - 1
  BY DEF Place, PlaceMap

\* The datagram being built goes into the cache whole.
LEMMA FlushPlaces ==
    ASSUME SenderType, PlaceInv, CreateCurrentConnectionBuffer,
           UNCHANGED <<toSendStack, acked, dropped, reliableIndex>>
    PROVE  PlaceInv' /\ Lifecycle!Send
<1>1. /\ unackedCache' = With(unackedCache, frameSetId, unackedStack)
      /\ unackedStack' = <<>>
      /\ wire' = Append(wire, buffer)
      /\ buffer' = {}
      /\ wire \in Seq(SUBSET Written)
      /\ frameSetId \notin DOMAIN unackedCache
  BY DEF CreateCurrentConnectionBuffer, StackAfterMove, Remember, With, SenderType
<1>2. Indices(unackedStack)' = {} /\ Distinct(unackedStack)'
  BY <1>1 DEF Indices, Distinct
<1>3. /\ DOMAIN unackedCache' = DOMAIN unackedCache \cup {frameSetId}
      /\ unackedCache'[frameSetId] = unackedStack
      /\ \A id \in DOMAIN unackedCache : unackedCache'[id] = unackedCache[id]
  BY <1>1 DEF With
<1>4. Flying' = Flying \cup Indices(unackedStack)
  <2>1. \A id \in DOMAIN unackedCache :
          Indices(unackedCache'[id]) = Indices(unackedCache[id])
    BY <1>3
  <2>2. Indices(unackedCache'[frameSetId]) = Indices(unackedStack)
    BY <1>3
  <2>3. Flying' = UNION {Indices(unackedCache'[id]) : id \in DOMAIN unackedCache'}
    BY DEF Flying, Indices
  <2> QED
    BY <1>3, <2>1, <2>2, <2>3 DEF Flying
<1>5. UnreliableSent' = UnreliableSent
  <2>1. Range(wire') = Range(wire) \cup {buffer}
    BY <1>1 DEF Range
  <2>2. (UNION Range(wire')) \cup buffer' = (UNION Range(wire)) \cup buffer
    <3>1. UNION (Range(wire) \cup {buffer}) = (UNION Range(wire)) \cup buffer
      OBVIOUS
    <3> QED
      BY <1>1, <2>1, <3>1
  <2> QED
    BY <2>2, Zenon DEF UnreliableSent
<1>6. FlyingOnce'
  <2>1. Indices(unackedStack) \cap Flying = {} /\ Distinct(unackedStack)
    BY DEF PlaceInv, Parted
  <2>2. ASSUME NEW id \in DOMAIN unackedCache'
        PROVE  Distinct(unackedCache'[id])
    BY <1>3, <2>1 DEF PlaceInv, FlyingOnce
  <2>3. ASSUME NEW id \in DOMAIN unackedCache', NEW other \in DOMAIN unackedCache',
               id # other
        PROVE  Indices(unackedCache'[id]) \cap Indices(unackedCache'[other]) = {}
    <3>1. \A known \in DOMAIN unackedCache : Indices(unackedCache[known]) \subseteq Flying
      BY DEF Flying
    <3>2. CASE id = frameSetId
      BY <1>3, <2>1, <2>3, <3>1, <3>2
    <3>3. CASE other = frameSetId
      BY <1>3, <2>1, <2>3, <3>1, <3>3
    <3>4. CASE id # frameSetId /\ other # frameSetId
      BY <1>3, <2>3, <3>4 DEF PlaceInv, FlyingOnce
    <3> QED
      BY <3>2, <3>3, <3>4
  <2> QED
    BY <2>2, <2>3 DEF FlyingOnce, Distinct, Indices
<1>7. Indices(toSendStack)' = Indices(toSendStack) /\ Distinct(toSendStack)'
  BY DEF Indices, Distinct, PlaceInv
<1>8. /\ Parted(reliableIndex, Indices(toSendStack), {},
                Flying \cup Indices(unackedStack), acked, UnreliableSent, dropped)
      /\ PlaceMap(reliableIndex, Indices(toSendStack), {},
                  Flying \cup Indices(unackedStack), acked, UnreliableSent) =
           [i \in 0 .. reliableIndex - 1 |->
              IF Place[i] = "building" THEN "inFlight" ELSE Place[i]]
  <2>1. Parted(reliableIndex, Indices(toSendStack), Indices(unackedStack), Flying,
               acked, UnreliableSent, dropped)
    BY DEF PlaceInv
  <2>2. Place = PlaceMap(reliableIndex, Indices(toSendStack), Indices(unackedStack),
                         Flying, acked, UnreliableSent)
    BY PlaceIsMap
  <2> QED
    BY <2>1, <2>2, MoveBuilding
<1>9. PlaceInv'
  BY <1>2, <1>4, <1>5, <1>6, <1>7, <1>8 DEF PlaceInv
<1>10. Place' = [i \in DOMAIN Place |->
                   IF Place[i] = "building" THEN "inFlight" ELSE Place[i]]
  BY <1>2, <1>4, <1>5, <1>7, <1>8, PlaceIsMap
<1> QED
  BY <1>9, <1>10 DEF Lifecycle!Send, Lifecycle!Made

\* Nothing moves.
LEMMA SamePlaces ==
    ASSUME PlaceInv,
           UNCHANGED <<toSendStack, unackedStack, unackedCache, wire, buffer, acked,
                       dropped, reliableIndex>>
    PROVE  PlaceInv' /\ Place' = Place
<1>1. /\ Indices(toSendStack)' = Indices(toSendStack)
      /\ Indices(unackedStack)' = Indices(unackedStack)
      /\ Flying' = Flying
      /\ UnreliableSent' = UnreliableSent
  BY DEF Indices, Flying, UnreliableSent
<1>2. Distinct(toSendStack)' /\ Distinct(unackedStack)' /\ FlyingOnce'
  BY DEF PlaceInv, Distinct, FlyingOnce, Indices
<1>3. PlaceInv'
  BY <1>1, <1>2 DEF PlaceInv
<1>4. Place' = Place
  BY <1>1, PlaceIsMap
<1> QED
  BY <1>3, <1>4

\* The front capsule goes to the datagram being built; an unreliable one is done.
LEMMA PackPlaces ==
    ASSUME NEW thread \in Threads, SenderType, PlaceInv, PackCapsule(thread)
    PROVE  PlaceInv' /\ Lifecycle!Next
<1> DEFINE capsule == Head(toSendStack)
           h == capsule.reliableIndex
           entry == [capsule |-> capsule, intact |-> BodyAlive(thread, capsule)]
           waiting == Indices(toSendStack)
           stacked == Indices(unackedStack)
<1>1. /\ UNCHANGED <<unackedCache, wire, acked, dropped, reliableIndex>>
      /\ toSendStack # <<>>
      /\ toSendStack' = Tail(toSendStack)
      /\ buffer' = buffer \cup {entry}
  BY DEF PackCapsule, channelVars, peerVars
<1>2. /\ toSendStack \in Seq(Sized) /\ Distinct(toSendStack)
      /\ unackedStack \in Seq(Sized) /\ Distinct(unackedStack)
      /\ capsule \in Sized
  BY <1>1 DEF SenderType, PlaceInv
<1>3. /\ h \in waiting
      /\ Indices(toSendStack') = waiting \ {h}
      /\ Distinct(toSendStack')
  BY <1>1, <1>2, IndicesOfTail
<1>4. /\ Flying' = Flying
      /\ FlyingOnce'
  <2>1. FlyingOnce /\ unackedCache' = unackedCache
    BY <1>1 DEF PlaceInv
  <2> QED
    BY <2>1 DEF Flying, FlyingOnce, Indices, Distinct
<1>5. Parted(reliableIndex, waiting, stacked, Flying, acked, UnreliableSent, dropped)
  BY DEF PlaceInv
<1>6. entry.capsule = capsule
  OBVIOUS
<1>7. (UNION Range(wire')) \cup buffer' = ((UNION Range(wire)) \cup buffer) \cup {entry}
  <2> HIDE DEF entry
  <2> QED
    BY <1>1
<1>8. /\ h \in 0 .. reliableIndex - 1
      /\ Parted(reliableIndex, waiting \ {h}, stacked \cup {h}, Flying, acked,
                UnreliableSent, dropped)
      /\ Parted(reliableIndex, waiting \ {h}, stacked, Flying, acked,
                UnreliableSent \cup {h}, dropped)
      /\ PlaceMap(reliableIndex, waiting \ {h}, stacked \cup {h}, Flying, acked,
                  UnreliableSent) =
             Moved(reliableIndex, Place, {h}, "building")
      /\ PlaceMap(reliableIndex, waiting \ {h}, stacked, Flying, acked,
                  UnreliableSent \cup {h}) =
             Moved(reliableIndex, Place, {h}, "sent")
  <2>1. Place = PlaceMap(reliableIndex, waiting, stacked, Flying, acked,
                         UnreliableSent)
    BY PlaceIsMap
  <2> HIDE DEF h, waiting, stacked
  <2>2. h \in waiting
    BY <1>3
  <2>3. Moved(reliableIndex, Place, {h}, "building") =
          PlaceMap(reliableIndex, waiting \ {h}, stacked \cup {h}, Flying, acked,
                   UnreliableSent)
    BY <1>5, <2>1, <2>2, MoveToBuilding
  <2>4. Moved(reliableIndex, Place, {h}, "sent") =
          PlaceMap(reliableIndex, waiting \ {h}, stacked, Flying, acked,
                   UnreliableSent \cup {h})
    BY <1>5, <2>1, <2>2, MoveToSent
  <2>5. /\ h \in 0 .. reliableIndex - 1
        /\ Parted(reliableIndex, waiting \ {h}, stacked \cup {h}, Flying, acked,
                  UnreliableSent, dropped)
        /\ Parted(reliableIndex, waiting \ {h}, stacked, Flying, acked,
                  UnreliableSent \cup {h}, dropped)
    BY <1>5, <2>2 DEF Parted
  <2> QED
    BY <2>3, <2>4, <2>5
<1>9. h \in Lifecycle!In("queued")
  <2>1. Place[h] = "queued"
    <3>1. Place = PlaceMap(reliableIndex, waiting, stacked, Flying, acked,
                           UnreliableSent)
      BY PlaceIsMap
    <3> HIDE DEF h, waiting, stacked
    <3>2. Tells(Place, h, waiting, stacked, Flying, acked, UnreliableSent, dropped)
      BY <1>5, <1>8, <3>1, PlaceValue
    <3> QED
      BY <1>3, <3>2 DEF Tells
  <2> QED
    BY <1>8, <2>1, PlaceIsMap DEF Lifecycle!In, Lifecycle!Made
<1>10. \A p : Moved(reliableIndex, Place, {h}, p) = [Place EXCEPT ![h] = p]
  <2>1. Place = [i \in 0 .. reliableIndex - 1 |-> Place[i]]
    BY DEF Place
  <2> QED
    BY <2>1 DEF Moved
<1>11. CASE IsReliable(capsule.reliability)
  <2>1. unackedStack' = Append(unackedStack, capsule)
    BY <1>11 DEF PackCapsule
  <2>2. h \notin stacked
    BY <1>3, <1>5 DEF Parted
  <2>3. Indices(unackedStack') = stacked \cup {h} /\ Distinct(unackedStack')
    BY <1>2, <2>1, <2>2, IndicesOfAppend
  <2>4. UnreliableSent' = UnreliableSent
    BY <1>6, <1>7, <1>11 DEF UnreliableSent
  <2>5. PlaceInv'
    BY <1>1, <1>3, <1>4, <1>8, <2>3, <2>4 DEF PlaceInv, Indices, Distinct
  <2>6. Place' = Moved(reliableIndex, Place, {h}, "building")
    BY <1>1, <1>3, <1>4, <1>8, <2>3, <2>4, PlaceIsMap DEF Indices
  <2> QED
    BY <1>9, <1>10, <2>5, <2>6 DEF Lifecycle!Next, Lifecycle!Pack
<1>12. CASE ~ IsReliable(capsule.reliability)
  <2>1. unackedStack' = unackedStack
    BY <1>12 DEF PackCapsule
  <2>2. UnreliableSent' = UnreliableSent \cup {h}
    BY <1>6, <1>7, <1>12 DEF UnreliableSent
  <2>3. Indices(unackedStack') = stacked /\ Distinct(unackedStack')
    BY <1>2, <2>1
  <2>4. PlaceInv'
    BY <1>1, <1>3, <1>4, <1>8, <2>2, <2>3 DEF PlaceInv, Indices, Distinct
  <2>5. Place' = Moved(reliableIndex, Place, {h}, "sent")
    BY <1>1, <1>3, <1>4, <1>8, <2>2, <2>3, PlaceIsMap DEF Indices
  <2> QED
    BY <1>9, <1>10, <2>4, <2>5 DEF Lifecycle!Next, Lifecycle!Pack
<1> QED
  BY <1>11, <1>12

\* What flies is in flight in the lifecycle.
LEMMA InFlightPlaces ==
    ASSUME Parted(reliableIndex, Indices(toSendStack), Indices(unackedStack), Flying,
                  acked, UnreliableSent, dropped)
    PROVE  \A c \in SUBSET Flying : c \in SUBSET Lifecycle!In("inFlight")
<1> SUFFICES ASSUME NEW i \in Flying PROVE i \in Lifecycle!In("inFlight")
  OBVIOUS
<1>1. i \in 0 .. reliableIndex - 1
  BY DEF Parted
<1>2. Place = PlaceMap(reliableIndex, Indices(toSendStack), Indices(unackedStack),
                       Flying, acked, UnreliableSent)
  BY PlaceIsMap
<1>3. Tells(Place, i, Indices(toSendStack), Indices(unackedStack), Flying, acked,
            UnreliableSent, dropped)
  BY <1>1, <1>2, PlaceValue
<1> QED
  BY <1>1, <1>3, PlaceIsMap DEF Tells, Lifecycle!In, Lifecycle!Made

\* A datagram's capsules leave the cache.
LEMMA ForgetPlaces ==
    ASSUME FlyingOnce, NEW id \in DOMAIN unackedCache, unackedCache' = Forget(id)
    PROVE  /\ Indices(unackedCache[id]) \subseteq Flying
           /\ Flying' = Flying \ Indices(unackedCache[id])
           /\ FlyingOnce'
<1>1. /\ DOMAIN unackedCache' = DOMAIN unackedCache \ {id}
      /\ \A other \in DOMAIN unackedCache' : unackedCache'[other] = unackedCache[other]
  BY DEF Forget
<1>2. Indices(unackedCache[id]) \subseteq Flying
  BY DEF Flying
<1>3. Flying' = UNION {Indices(unackedCache[other]) : other \in DOMAIN unackedCache'}
  <2>1. Flying' = UNION {Indices(unackedCache'[other]) : other \in DOMAIN unackedCache'}
    BY DEF Flying, Indices
  <2>2. \A other \in DOMAIN unackedCache' :
          Indices(unackedCache'[other]) = Indices(unackedCache[other])
    BY <1>1
  <2> QED
    BY <2>1, <2>2
<1>4. \A other \in DOMAIN unackedCache \ {id} :
        Indices(unackedCache[other]) \cap Indices(unackedCache[id]) = {}
  BY DEF FlyingOnce
<1>5. Flying' = Flying \ Indices(unackedCache[id])
  <2>1. ASSUME NEW x \in Flying' PROVE x \in Flying \ Indices(unackedCache[id])
    <3>1. PICK other \in DOMAIN unackedCache \ {id} : x \in Indices(unackedCache[other])
      BY <1>1, <1>3, <2>1
    <3>2. x \in Flying
      BY <3>1 DEF Flying
    <3> QED
      BY <1>4, <3>1, <3>2
  <2>2. ASSUME NEW x \in Flying \ Indices(unackedCache[id]) PROVE x \in Flying'
    <3>1. PICK other \in DOMAIN unackedCache : x \in Indices(unackedCache[other])
      BY <2>2 DEF Flying
    <3>2. other \in DOMAIN unackedCache'
      BY <1>1, <2>2, <3>1
    <3> QED
      BY <1>3, <3>1, <3>2
  <2> QED
    BY <2>1, <2>2
<1>6. FlyingOnce'
  <2>1. ASSUME NEW one \in DOMAIN unackedCache' PROVE Distinct(unackedCache'[one])
    BY <1>1 DEF FlyingOnce
  <2>2. ASSUME NEW one \in DOMAIN unackedCache', NEW other \in DOMAIN unackedCache',
               one # other
        PROVE  Indices(unackedCache'[one]) \cap Indices(unackedCache'[other]) = {}
    BY <1>1, <2>2 DEF FlyingOnce
  <2> QED
    BY <2>1, <2>2 DEF FlyingOnce, Distinct, Indices
<1> QED
  BY <1>2, <1>5, <1>6

\* A datagram is acknowledged: its capsules are at their end.
LEMMA AckPlaces ==
    ASSUME SenderType, PlaceInv, AckDatagram, packet.low \in DOMAIN unackedCache
    PROVE  PlaceInv' /\ Lifecycle!Next
<1> DEFINE id == packet.low
           c == Indices(unackedCache[id])
<1>1. /\ UNCHANGED <<toSendStack, unackedStack, wire, buffer, reliableIndex, dropped>>
      /\ unackedCache' = Forget(id)
      /\ acked' = acked \cup c
  BY DEF AckDatagram, channelVars, datagramVars
<1>2. /\ c \in SUBSET Flying
      /\ Flying' = Flying \ c
      /\ FlyingOnce'
  BY <1>1, ForgetPlaces DEF PlaceInv
<1>3. /\ Indices(toSendStack)' = Indices(toSendStack) /\ Distinct(toSendStack)'
      /\ Indices(unackedStack)' = Indices(unackedStack) /\ Distinct(unackedStack)'
      /\ UnreliableSent' = UnreliableSent
  BY <1>1 DEF Indices, Distinct, UnreliableSent, PlaceInv
<1>4. Parted(reliableIndex, Indices(toSendStack), Indices(unackedStack), Flying,
             acked, UnreliableSent, dropped)
  BY DEF PlaceInv
<1> HIDE DEF c
<1>5. Parted(reliableIndex, Indices(toSendStack), Indices(unackedStack), Flying \ c,
             acked \cup c, UnreliableSent, dropped)
  BY <1>2, <1>4 DEF Parted
<1>6. PlaceInv'
  BY <1>1, <1>2, <1>3, <1>5 DEF PlaceInv
<1>7. Moved(reliableIndex, Place, c, "acked") =
        PlaceMap(reliableIndex, Indices(toSendStack), Indices(unackedStack),
                 Flying \ c, acked \cup c, UnreliableSent)
  <2>1. Place = PlaceMap(reliableIndex, Indices(toSendStack), Indices(unackedStack),
                         Flying, acked, UnreliableSent)
    BY PlaceIsMap
  <2>2. c \in SUBSET Flying
    BY <1>2
  <2> QED
    BY <1>4, <2>1, <2>2, MoveAcked
<1>8. Place' = [i \in DOMAIN Place |-> IF i \in c THEN "acked" ELSE Place[i]]
  BY <1>1, <1>2, <1>3, <1>7, PlaceIsMap DEF Moved
<1>9. c \in SUBSET Lifecycle!In("inFlight")
  BY <1>2, <1>4, InFlightPlaces
<1> QED
  BY <1>6, <1>8, <1>9
     DEF Lifecycle!Next, Lifecycle!Acknowledge, Lifecycle!Made

\* A datagram is taken back: its capsules are queued again, but for the refused.
LEMMA NackPlaces ==
    ASSUME SenderType, PlaceInv, NackDatagram, packet.high \in DOMAIN unackedCache
    PROVE  PlaceInv' /\ Lifecycle!Next
<1> DEFINE id == packet.high
           capsules == unackedCache[id]
           c == Indices(capsules)
           e == c \ Indices(toSendStack')
<1>1. /\ UNCHANGED <<unackedStack, wire, buffer, reliableIndex, acked>>
      /\ unackedCache' = Forget(id)
      /\ toSendStack' = PushAllFront(toSendStack, capsules)
      /\ dropped' = dropped \cup e
  BY DEF NackDatagram, Requeued, channelVars, datagramVars
<1>2. /\ c \in SUBSET Flying
      /\ Flying' = Flying \ c
      /\ FlyingOnce'
  BY <1>1, ForgetPlaces DEF PlaceInv
<1>3. /\ Indices(unackedStack)' = Indices(unackedStack) /\ Distinct(unackedStack)'
      /\ UnreliableSent' = UnreliableSent
  BY <1>1 DEF Indices, Distinct, UnreliableSent, PlaceInv
<1>4. Parted(reliableIndex, Indices(toSendStack), Indices(unackedStack), Flying,
             acked, UnreliableSent, dropped)
  BY DEF PlaceInv
<1>5. /\ capsules \in Seq(Sized) /\ Distinct(capsules)
      /\ toSendStack \in Seq(Sized) /\ Distinct(toSendStack)
      /\ Len(toSendStack) \in 0 .. Capacity
  BY DEF SenderType, PlaceInv, FlyingOnce
<1>6. /\ Indices(toSendStack') = Indices(toSendStack) \cup (c \ e)
      /\ Distinct(toSendStack')
  <2> HIDE DEF capsules
  <2>1. PICK m \in 1 .. Len(capsules) + 1 :
          toSendStack' = SubSeq(capsules, m, Len(capsules)) \o toSendStack
    BY <1>1, <1>5, PushAllFrontKeeps
  <2> DEFINE kept == SubSeq(capsules, m, Len(capsules))
  <2>2. Len(capsules) \in 0 .. Len(capsules)
    BY <1>5
  <2>3. /\ kept \in Seq(Sized)
        /\ Indices(kept) \subseteq c
        /\ Distinct(kept)
    BY <1>5, <2>2, IndicesOfPart
  <2> HIDE DEF kept
  <2>4. Indices(kept) \cap Indices(toSendStack) = {}
    BY <1>2, <1>4, <2>3 DEF Parted
  <2>5. /\ Indices(kept \o toSendStack) = Indices(kept) \cup Indices(toSendStack)
        /\ Distinct(kept \o toSendStack)
    BY <1>5, <2>3, <2>4, IndicesOfConcat
  <2>6. toSendStack' = kept \o toSendStack
    BY <2>1 DEF kept
  <2>7. c \cap Indices(toSendStack) = {}
    BY <1>2, <1>4 DEF Parted
  <2> QED
    BY <2>3, <2>5, <2>6, <2>7
<1> HIDE DEF c, e
<1>7. e \in SUBSET c
  BY DEF e
<1>8. Parted(reliableIndex, Indices(toSendStack) \cup (c \ e), Indices(unackedStack),
             Flying \ c, acked, UnreliableSent, dropped \cup e)
  BY <1>2, <1>4, <1>7 DEF Parted
<1>9. Indices(toSendStack)' = Indices(toSendStack') /\ Distinct(toSendStack)'
  BY <1>6 DEF Indices, Distinct
<1>10. PlaceInv'
  BY <1>1, <1>2, <1>3, <1>6, <1>8, <1>9 DEF PlaceInv
<1>11. Moved(reliableIndex, Moved(reliableIndex, Place, c, "queued"), e, "dropped") =
         PlaceMap(reliableIndex, Indices(toSendStack) \cup (c \ e),
                  Indices(unackedStack), Flying \ c, acked, UnreliableSent)
  <2>1. Place = PlaceMap(reliableIndex, Indices(toSendStack), Indices(unackedStack),
                         Flying, acked, UnreliableSent)
    BY PlaceIsMap
  <2>2. c \in SUBSET Flying
    BY <1>2
  <2> QED
    BY <1>4, <1>7, <2>1, <2>2, MoveNacked
<1>12. Place' = [i \in DOMAIN Place |-> IF i \in e THEN "dropped"
                                        ELSE IF i \in c THEN "queued"
                                        ELSE Place[i]]
  <2>1. Place' = Moved(reliableIndex, Moved(reliableIndex, Place, c, "queued"), e,
                       "dropped")
    BY <1>1, <1>2, <1>3, <1>6, <1>9, <1>11, PlaceIsMap
  <2>2. DOMAIN Place = 0 .. reliableIndex - 1
    BY PlaceIsMap
  <2> QED
    BY <2>1, <2>2 DEF Moved
<1>13. c \in SUBSET Lifecycle!In("inFlight")
  BY <1>2, <1>4, InFlightPlaces
<1> QED
  BY <1>7, <1>10, <1>12, <1>13
     DEF Lifecycle!Next, Lifecycle!TakeBack, Lifecycle!Made

\* A frame's capsules are numbered on from the last one.
LEMMA CapsulesNumbered ==
    ASSUME NEW frame \in Frames, SenderType, NEW k \in 0 .. CapsuleCount(frame)
    PROVE  /\ Distinct(Capsules(frame))
           /\ Len(Capsules(frame)) = CapsuleCount(frame)
           /\ SubSeq(Capsules(frame), 1, k) \in Seq(Sized)
           /\ Distinct(SubSeq(Capsules(frame), 1, k))
           /\ Indices(SubSeq(Capsules(frame), 1, k)) =
                reliableIndex .. reliableIndex + k - 1
           /\ Indices(Capsules(frame)) =
                reliableIndex .. reliableIndex + CapsuleCount(frame) - 1
<1> DEFINE s == Capsules(frame)
           n == CapsuleCount(frame)
<1>1. n \in Nat /\ s \in Seq(Sized) /\ reliableIndex \in Nat
  BY CapsulesShape DEF SenderType
<1>2. /\ DOMAIN s = 1 .. n
      /\ \A i \in 1 .. n : s[i].reliableIndex = reliableIndex + i - 1
  BY DEF Capsules
<1> HIDE DEF s, n
<1>3. Len(s) = n
  BY <1>1, <1>2
<1>4. Distinct(s)
  BY <1>1, <1>2 DEF Distinct
<1>5. ASSUME NEW m \in 0 .. n
      PROVE  {s[i].reliableIndex : i \in 1 .. m} = reliableIndex .. reliableIndex + m - 1
  <2>1. \A i \in 1 .. m : s[i].reliableIndex \in reliableIndex .. reliableIndex + m - 1
    BY <1>1, <1>2
  <2>2. ASSUME NEW x \in reliableIndex .. reliableIndex + m - 1
        PROVE  \E i \in 1 .. m : s[i].reliableIndex = x
    <3>1. /\ x - reliableIndex + 1 \in 1 .. m
          /\ s[x - reliableIndex + 1].reliableIndex = x
      BY <1>1, <1>2
    <3> QED
      BY <3>1
  <2> QED
    BY <2>1, <2>2
<1>6. 1 \in 1 .. Len(s) + 1 /\ k \in 0 .. Len(s)
  BY <1>1, <1>3 DEF n
<1>7. /\ SubSeq(s, 1, k) \in Seq(Sized)
      /\ Indices(SubSeq(s, 1, k)) = {s[i].reliableIndex : i \in 1 .. k}
      /\ Distinct(SubSeq(s, 1, k))
  BY <1>1, <1>4, <1>6, IndicesOfPart
<1>8. Indices(s) = {s[i].reliableIndex : i \in 1 .. n}
  BY <1>2 DEF Indices
<1>9. n \in 0 .. n /\ k \in 0 .. n
  BY <1>1, <1>3, <1>6
<1> QED
  BY <1>3, <1>4, <1>5, <1>7, <1>8, <1>9 DEF s, n

\* A frame is queued as far as there is room, first capsules first.
LEMMA SendPlaces ==
    ASSUME NEW thread \in Threads, NEW frame \in Frames, SenderType, PlaceInv,
           SendFrame(thread, frame)
    PROVE  PlaceInv' /\ Lifecycle!Queue
<1> DEFINE r == reliableIndex
           n == CapsuleCount(frame)
           waiting == Indices(toSendStack)
           stacked == Indices(unackedStack)
<1>1. /\ UNCHANGED <<unackedStack, unackedCache, wire, buffer, acked>>
      /\ toSendStack' = PushAllBack(toSendStack, Capsules(frame))
      /\ dropped' = dropped \cup (Indices(Capsules(frame)) \ Indices(toSendStack'))
      /\ reliableIndex' = r + n
  BY DEF SendFrame, datagramVars, peerVars
<1>2. /\ Flying' = Flying /\ FlyingOnce'
      /\ Indices(unackedStack)' = stacked /\ Distinct(unackedStack)'
      /\ UnreliableSent' = UnreliableSent
  <2>1. FlyingOnce /\ Distinct(unackedStack)
    BY DEF PlaceInv
  <2>2. Flying' = Flying /\ FlyingOnce'
    BY <1>1, <2>1 DEF Flying, FlyingOnce, Indices, Distinct
  <2>3. Indices(unackedStack)' = stacked /\ Distinct(unackedStack)'
    BY <1>1, <2>1 DEF Indices, Distinct
  <2>4. UnreliableSent' = UnreliableSent
    BY <1>1 DEF UnreliableSent
  <2> QED
    BY <2>2, <2>3, <2>4
<1>3. Parted(r, waiting, stacked, Flying, acked, UnreliableSent, dropped)
  BY DEF PlaceInv
<1>4. /\ r \in Nat /\ n \in Nat
      /\ Capsules(frame) \in Seq(Sized)
      /\ toSendStack \in Seq(Sized) /\ Distinct(toSendStack)
      /\ Len(toSendStack) \in 0 .. Capacity
  BY CapsulesShape DEF SenderType, PlaceInv
<1>5. 0 \in 0 .. n
  BY <1>4
<1>6. Len(Capsules(frame)) = n /\ Indices(Capsules(frame)) = r .. r + n - 1
  BY <1>5, CapsulesNumbered, Zenon
<1>7. PICK k \in 0 .. n :
        toSendStack' = toSendStack \o SubSeq(Capsules(frame), 1, k)
  <2>1. \E k \in 0 .. Len(Capsules(frame)) :
          PushAllBack(toSendStack, Capsules(frame)) =
            toSendStack \o SubSeq(Capsules(frame), 1, k)
    BY <1>4, PushAllBackKeeps
  <2> QED
    BY <1>1, <1>6, <2>1
<1>8. /\ SubSeq(Capsules(frame), 1, k) \in Seq(Sized)
      /\ Distinct(SubSeq(Capsules(frame), 1, k))
      /\ Indices(SubSeq(Capsules(frame), 1, k)) = r .. r + k - 1
  BY CapsulesNumbered, Zenon
<1>9. waiting \subseteq 0 .. r - 1
  BY <1>3 DEF Parted
<1>10. waiting \cap (r .. r + k - 1) = {}
  BY <1>4, <1>9
<1>11. /\ Indices(toSendStack') = waiting \cup r .. r + k - 1
       /\ Distinct(toSendStack')
  <2>1. /\ Indices(toSendStack \o SubSeq(Capsules(frame), 1, k)) =
             waiting \cup Indices(SubSeq(Capsules(frame), 1, k))
        /\ Distinct(toSendStack \o SubSeq(Capsules(frame), 1, k))
    BY <1>4, <1>8, <1>10, IndicesOfConcat
  <2> QED
    BY <1>7, <1>8, <2>1
<1>12. dropped' = dropped \cup r + k .. r + n - 1
  <2>1. (r .. r + n - 1) \ (waiting \cup r .. r + k - 1) = r + k .. r + n - 1
    BY <1>4, <1>9
  <2> QED
    BY <1>1, <1>6, <1>11, <2>1
<1> HIDE DEF r, n, waiting, stacked
<1>13. Parted(r + n, waiting \cup r .. r + k - 1, stacked, Flying, acked,
              UnreliableSent, dropped \cup r + k .. r + n - 1)
  BY <1>3, <1>4, MoveNewParted
<1>14. /\ Indices(toSendStack)' = waiting \cup r .. r + k - 1
       /\ Distinct(toSendStack)'
  BY <1>11 DEF Indices, Distinct
<1>15. PlaceInv'
  BY <1>1, <1>2, <1>12, <1>13, <1>14 DEF PlaceInv
<1>16. /\ Place = PlaceMap(r, waiting, stacked, Flying, acked, UnreliableSent)
       /\ Place' = PlaceMap(r + n, waiting \cup r .. r + k - 1, stacked, Flying,
                            acked, UnreliableSent)
       /\ DOMAIN Place = 0 .. r - 1
       /\ DOMAIN Place' = 0 .. r + n - 1
  <2>1. Place = PlaceMap(r, waiting, stacked, Flying, acked, UnreliableSent)
    BY PlaceIsMap DEF r, waiting, stacked
  <2>2. Place' = PlaceMap(reliableIndex', Indices(toSendStack)',
                          Indices(unackedStack)', Flying', acked', UnreliableSent')
    BY PlaceIsMap
  <2>3. DOMAIN Place = 0 .. r - 1 /\ DOMAIN Place' = 0 .. reliableIndex' - 1
    BY PlaceIsMap DEF r
  <2>4. /\ reliableIndex' = r + n /\ Flying' = Flying /\ acked' = acked
        /\ UnreliableSent' = UnreliableSent
        /\ Indices(toSendStack)' = waiting \cup r .. r + k - 1
        /\ Indices(unackedStack)' = stacked
    BY <1>1, <1>2, <1>14
  <2>5. Place' = PlaceMap(r + n, waiting \cup r .. r + k - 1, stacked, Flying,
                          acked, UnreliableSent)
    BY <2>2, <2>4, Zenon
  <2>6. DOMAIN Place' = 0 .. r + n - 1
    BY <1>4, <2>3, <2>4
  <2> QED
    BY <2>1, <2>3, <2>5, <2>6
<1>17. /\ \A i \in 0 .. r - 1 : Place'[i] = Place[i]
       /\ \A i \in r .. r + n - 1 :
            Place'[i] = IF i < r + k THEN "queued" ELSE "dropped"
  <2>1. Grown(r, n, k, PlaceMap(r, waiting, stacked, Flying, acked, UnreliableSent),
              PlaceMap(r + n, waiting \cup r .. r + k - 1, stacked, Flying, acked,
                       UnreliableSent))
    BY <1>3, <1>4, MoveNew
  <2> QED
    BY <1>16, <2>1, Zenon DEF Grown
<1>18. ASSUME NEW i \in DOMAIN Place' \ DOMAIN Place
       PROVE  /\ Place'[i] \in {"queued", "dropped"}
              /\ \A j \in DOMAIN Place' :
                   /\ j \in DOMAIN Place => j < i
                   /\ Place'[i] = "dropped" /\ j > i => Place'[j] = "dropped"
  <2>1. i \in r .. r + n - 1
    BY <1>4, <1>16
  <2>2. \A j \in DOMAIN Place : j < i
    BY <1>4, <1>16, <2>1
  <2>3. ASSUME NEW j \in DOMAIN Place', Place'[i] = "dropped", j > i
        PROVE  Place'[j] = "dropped"
    <3>1. j \in r .. r + n - 1
      BY <1>4, <1>16, <2>1, <2>3
    <3>2. ~ (i < r + k)
      BY <1>17, <2>1, <2>3
    <3>3. ~ (j < r + k)
      BY <1>4, <2>1, <2>3, <3>1, <3>2
    <3> QED
      BY <1>17, <3>1, <3>3
  <2> QED
    BY <1>17, <2>1, <2>2, <2>3
<1>19. /\ DOMAIN Place \subseteq DOMAIN Place'
       /\ \A i \in DOMAIN Place : Place'[i] = Place[i]
  <2>1. 0 .. r - 1 \subseteq 0 .. r + n - 1
    BY <1>4
  <2> QED
    BY <1>16, <1>17, <2>1, Zenon
<1> QED
  BY <1>15, <1>18, <1>19 DEF Lifecycle!Queue, Lifecycle!Made

\* Each step keeps the capsules' places apart and is a step of the lifecycle.
LEMMA PlaceStep ==
    SenderInv /\ PlaceInv /\ [Next]_vars => PlaceInv' /\ [Lifecycle!Next]_Place
<1> SUFFICES ASSUME SenderInv, PlaceInv, [Next]_vars
             PROVE  PlaceInv' /\ (Lifecycle!Next \/ Place' = Place)
  OBVIOUS
<1>1. SenderType
  BY DEF SenderInv
<1>2. ASSUME NEW thread \in Threads, Sending(thread)
      PROVE  PlaceInv' /\ (Lifecycle!Next \/ Place' = Place)
  <2>1. ASSUME NEW frame \in Frames, SendFrame(thread, frame)
        PROVE  PlaceInv' /\ Lifecycle!Next
    BY <1>1, <2>1, SendPlaces DEF Lifecycle!Next
  <2>2. CASE RollDatagram(thread)
    BY <1>1, <2>2, FlushPlaces DEF RollDatagram, Lifecycle!Next, channelVars, peerVars
  <2>3. CASE PackCapsule(thread)
    BY <1>1, <2>3, PackPlaces
  <2>4. CASE FinishQueue(thread)
    <3>1. UNCHANGED <<toSendStack, acked, dropped, reliableIndex>>
      BY <2>4 DEF FinishQueue, channelVars, peerVars
    <3>2. CASE CreateCurrentConnectionBuffer
      BY <1>1, <3>1, <3>2, FlushPlaces DEF Lifecycle!Next
    <3>3. CASE UNCHANGED <<unackedCache, datagramVars>>
      BY <3>1, <3>3, SamePlaces DEF datagramVars
    <3> QED
      BY <2>4, <3>2, <3>3 DEF FinishQueue
  <2> QED
    BY <1>2, <2>1, <2>2, <2>3, <2>4 DEF Sending
<1>3. CASE AckDatagram
  <2>1. CASE packet.low \in DOMAIN unackedCache
    BY <1>1, <1>3, <2>1, AckPlaces
  <2>2. CASE packet.low \notin DOMAIN unackedCache
    BY <1>3, <2>2, SamePlaces DEF AckDatagram, channelVars, datagramVars
  <2> QED
    BY <2>1, <2>2
<1>4. CASE NackDatagram
  <2>1. CASE packet.high \in DOMAIN unackedCache
    BY <1>1, <1>4, <2>1, NackPlaces
  <2>2. CASE packet.high \notin DOMAIN unackedCache
    BY <1>4, <2>2, SamePlaces DEF NackDatagram, channelVars, datagramVars
  <2> QED
    BY <2>1, <2>2
<1>5. ASSUME NEW low \in 0 .. frameSetId, NEW high \in 0 .. frameSetId,
             ReadRange(low, high)
      PROVE  PlaceInv' /\ Place' = Place
  BY <1>5, SamePlaces DEF ReadRange, channelVars, datagramVars
<1>6. CASE ReceiveFrame \/ FinishFrame \/ HandleAck \/ HandleNack \/ EndPacket
  BY <1>6, SamePlaces DEF ReceiveFrame, FinishFrame, HandleAck, HandleNack,
                          EndPacket, channelVars, datagramVars, peerVars
<1>7. CASE UNCHANGED vars
  BY <1>7, SamePlaces DEF vars, channelVars, datagramVars, peerVars
<1> QED
  BY <1>2, <1>3, <1>4, <1>5, <1>6, <1>7 DEF Next

\* The first states map to the lifecycle's first state.
LEMMA PlaceInit == Init => PlaceInv /\ Lifecycle!Init
<1> SUFFICES ASSUME Init PROVE PlaceInv /\ Lifecycle!Init
  OBVIOUS
<1>1. /\ Indices(toSendStack) = {} /\ Indices(unackedStack) = {} /\ Flying = {}
      /\ acked = {} /\ dropped = {} /\ reliableIndex = 0
  BY DEF Init, Indices, Flying
<1>2. UnreliableSent = {}
  BY DEF Init, UnreliableSent, Range
<1>3. 0 .. 0 - 1 = {}
  OBVIOUS
<1>4. PlaceInv
  BY <1>1, <1>2, <1>3 DEF PlaceInv, Parted, Distinct, FlyingOnce, Init
<1>5. Place = [i \in {} |-> "queued"]
  BY <1>1, <1>3 DEF Place
<1> QED
  BY <1>4, <1>5 DEF Lifecycle!Init

\* The sets partition the indices, in every reachable state.
LEMMA PlaceInvariant == Spec => []PlaceInv
<1>1. Init => PlaceInv
  BY PlaceInit
<1>2. SenderInv /\ PlaceInv /\ [Next]_vars => PlaceInv'
  BY PlaceStep
<1> QED
  BY <1>1, <1>2, SenderInvariant, PTL DEF Spec

\* The sending half implements the capsule's lifecycle: no ACK or NACK, repeated,
\* late or for an id never sent, moves a capsule in a way the lifecycle forbids.
THEOREM LifecycleImplemented == Spec => ImplementsLifecycle
<1>1. Init => PlaceInv /\ Lifecycle!Init
  BY PlaceInit
<1>2. SenderInv /\ PlaceInv /\ [Next]_vars => PlaceInv' /\ [Lifecycle!Next]_Place
  BY PlaceStep
<1> QED
  BY <1>1, <1>2, SenderInvariant, PTL DEF Spec, ImplementsLifecycle, Lifecycle!Spec

\* Disjoint sets are counted one by one.
LEMMA DisjointSum ==
    ASSUME NEW one, NEW other, IsFiniteSet(one), IsFiniteSet(other),
           one \cap other = {}
    PROVE  /\ IsFiniteSet(one \cup other)
           /\ Cardinality(one \cup other) = Cardinality(one) + Cardinality(other)
<1>1. Cardinality(one) \in Nat /\ Cardinality(other) \in Nat
  BY FS_CardinalityType
<1>2. Cardinality(one \cap other) = 0
  BY FS_EmptySet, Zenon
<1>3. /\ IsFiniteSet(one \cup other)
      /\ Cardinality(one \cup other) =
           Cardinality(one) + Cardinality(other) - Cardinality(one \cap other)
  BY FS_Union, Zenon
<1> QED
  BY <1>1, <1>2, <1>3

\* The capsules in flight are as many as their places in the cache.
LEMMA FlyingCounted ==
    ASSUME SenderInv, FlyingOnce
    PROVE  IsFiniteSet(Flying) /\ Cardinality(Flying) = Cardinality(InFlight)
<1> DEFINE index(at) == unackedCache[at[1]][at[2]].reliableIndex
           f == [at \in InFlight |-> index(at)]
<1>1. /\ \A at \in InFlight : /\ at = <<at[1], at[2]>>
                              /\ at[1] \in DOMAIN unackedCache
                              /\ at[2] \in DOMAIN unackedCache[at[1]]
      /\ \A id \in DOMAIN unackedCache : \A i \in DOMAIN unackedCache[id] :
           <<id, i>> \in InFlight
  BY DEF InFlight
<1>2. \A at \in InFlight : f[at] \in Indices(unackedCache[at[1]])
  BY <1>1 DEF Indices
<1>3. f \in [InFlight -> Flying]
  BY <1>1, <1>2 DEF Flying
<1>4. ASSUME NEW at \in InFlight, NEW to \in InFlight, f[at] = f[to] PROVE at = to
  <2>1. at[1] = to[1]
    BY <1>1, <1>2, <1>4 DEF FlyingOnce
  <2>2. at[2] = to[2]
    BY <1>1, <1>4, <2>1 DEF FlyingOnce, Distinct
  <2> QED
    BY <1>1, <2>1, <2>2
<1>5. ASSUME NEW x \in Flying PROVE \E at \in InFlight : f[at] = x
  <2>1. PICK id \in DOMAIN unackedCache : x \in Indices(unackedCache[id])
    BY DEF Flying
  <2>2. PICK i \in DOMAIN unackedCache[id] : x = unackedCache[id][i].reliableIndex
    BY <2>1 DEF Indices
  <2>3. <<id, i>> \in InFlight /\ f[<<id, i>>] = x
    BY <1>1, <2>2
  <2> QED
    BY <2>3
<1> HIDE DEF f
<1>6. f \in Bijection(InFlight, Flying)
  BY <1>3, <1>4, <1>5, Zenon DEF Bijection, Injection, Surjection, IsInjective
<1>7. ExistsBijection(InFlight, Flying)
  BY <1>6 DEF ExistsBijection
<1> QED
  BY <1>7, FS_Bijection DEF SenderInv, SenderCount

\* No order of sends, ACKs and NACKs loses a capsule or doubles one, for every
\* queue, window and mtu.
THEOREM AlwaysExactlyOnePlace == Spec => []ExactlyOnePlace
<1>1. SenderInv /\ PlaceInv => ExactlyOnePlace
  <2> SUFFICES ASSUME SenderInv, PlaceInv PROVE ExactlyOnePlace
    OBVIOUS
  <2> DEFINE waiting == Indices(toSendStack)
             stacked == Indices(unackedStack)
  <2>1. Parted(reliableIndex, waiting, stacked, Flying, acked, UnreliableSent, dropped)
    BY DEF PlaceInv
  <2>2. /\ toSendStack \in Seq(Sized) /\ unackedStack \in Seq(Sized)
        /\ reliableIndex \in Nat
        /\ Distinct(toSendStack) /\ Distinct(unackedStack) /\ FlyingOnce
    BY DEF SenderInv, SenderType, PlaceInv
  <2>3. /\ IsFiniteSet(waiting) /\ Cardinality(waiting) = Len(toSendStack)
        /\ IsFiniteSet(stacked) /\ Cardinality(stacked) = Len(unackedStack)
    BY <2>2, IndicesCounted
  <2>4. IsFiniteSet(Flying) /\ Cardinality(Flying) = Cardinality(InFlight)
    BY <2>2, FlyingCounted
  <2>5. /\ IsFiniteSet(0 .. reliableIndex - 1)
        /\ Cardinality(0 .. reliableIndex - 1) = reliableIndex
    BY <2>2, FS_Interval
  <2> HIDE DEF waiting, stacked
  <2>6. /\ acked \in SUBSET (0 .. reliableIndex - 1)
        /\ UnreliableSent \in SUBSET (0 .. reliableIndex - 1)
        /\ dropped \in SUBSET (0 .. reliableIndex - 1)
    BY <2>1 DEF Parted
  <2>7. IsFiniteSet(acked) /\ IsFiniteSet(UnreliableSent) /\ IsFiniteSet(dropped)
    BY <2>5, <2>6, FS_Subset
  <2> DEFINE two == waiting \cup stacked
             three == two \cup Flying
             four == three \cup acked
             five == four \cup UnreliableSent
             six == five \cup dropped
  <2>8. /\ waiting \cap stacked = {} /\ two \cap Flying = {} /\ three \cap acked = {}
        /\ four \cap UnreliableSent = {} /\ five \cap dropped = {}
        /\ six = 0 .. reliableIndex - 1
    BY <2>1 DEF Parted
  <2>9. /\ IsFiniteSet(two)
        /\ Cardinality(two) = Cardinality(waiting) + Cardinality(stacked)
    BY <2>3, <2>8, DisjointSum
  <2> HIDE DEF two
  <2>10. /\ IsFiniteSet(three)
         /\ Cardinality(three) = Cardinality(two) + Cardinality(Flying)
    BY <2>4, <2>8, <2>9, DisjointSum
  <2> HIDE DEF three
  <2>11. /\ IsFiniteSet(four)
         /\ Cardinality(four) = Cardinality(three) + Cardinality(acked)
    BY <2>7, <2>8, <2>10, DisjointSum
  <2> HIDE DEF four
  <2>12. /\ IsFiniteSet(five)
         /\ Cardinality(five) = Cardinality(four) + Cardinality(UnreliableSent)
    BY <2>7, <2>8, <2>11, DisjointSum
  <2> HIDE DEF five
  <2>13. Cardinality(six) = Cardinality(five) + Cardinality(dropped)
    BY <2>7, <2>8, <2>12, DisjointSum
  <2> HIDE DEF six
  <2>14. Len(toSendStack) + Len(unackedStack) + Cardinality(InFlight)
            + Cardinality(acked) + Cardinality(UnreliableSent)
            + Cardinality(dropped) = reliableIndex
    BY <2>3, <2>4, <2>5, <2>8, <2>9, <2>10, <2>11, <2>12, <2>13
  <2>15. Indices(toSendStack) \cup Indices(unackedStack) \cup Flying \cup acked
            \cup UnreliableSent \cup dropped = 0 .. reliableIndex - 1
    BY <2>1 DEF Parted, waiting, stacked
  <2> QED
    BY <2>14, <2>15 DEF ExactlyOnePlace
<1> QED
  BY <1>1, SenderInvariant, PlaceInvariant, PTL

-----------------------------------------------------------------------------
(* The order of first transmissions.                                       *)

\* Only capsules that were made are on the wire.
OrderInv ==
    /\ FirstSendInOrder
    /\ EverSent \subseteq 0 .. reliableIndex - 1

\* Steps that send and queue nothing keep the order.
LEMMA SameOrder ==
    ASSUME OrderInv, UNCHANGED <<toSendStack, reliableIndex>>, EverSent' = EverSent
    PROVE  OrderInv'
  BY DEF OrderInv, FirstSendInOrder

\* What is in flight was sent.
LEMMA FlyingSent ==
    ASSUME SenderType, CacheInv
    PROVE  Flying \subseteq EverSent
<1> SUFFICES ASSUME NEW x \in Flying PROVE x \in EverSent
  OBVIOUS
<1>1. PICK id \in DOMAIN unackedCache : x \in Indices(unackedCache[id])
  BY DEF Flying
<1>2. PICK i \in DOMAIN unackedCache[id] : x = unackedCache[id][i].reliableIndex
  BY <1>1 DEF Indices
<1>3. unackedCache[id][i] \in ReliableOf(wire[id + 1])
  BY <1>2 DEF CacheInv, CacheMatchesWire, Range
<1>4. PICK entry \in wire[id + 1] : entry.capsule = unackedCache[id][i]
  BY <1>3 DEF ReliableOf
<1>5. id + 1 \in DOMAIN wire
  <2>1. /\ id \in 0 .. frameSetId - 1 /\ frameSetId \in Nat
        /\ wire \in Seq(SUBSET Written) /\ Len(wire) = frameSetId
    BY DEF SenderType, CacheInv
  <2> QED
    BY <2>1
<1>6. entry \in UNION Range(wire)
  BY <1>5 DEF Range
<1> QED
  BY <1>2, <1>4, <1>6 DEF EverSent

\* Sending the datagram at hand keeps the order.
LEMMA FlushOrder ==
    ASSUME SenderType, OrderInv, CreateCurrentConnectionBuffer,
           UNCHANGED <<toSendStack, reliableIndex>>
    PROVE  OrderInv'
<1>1. wire' = Append(wire, buffer) /\ buffer' = {} /\ wire \in Seq(SUBSET Written)
  BY DEF CreateCurrentConnectionBuffer, SenderType
<1>2. Range(wire') = Range(wire) \cup {buffer}
  BY <1>1 DEF Range
<1>3. UNION (Range(wire) \cup {buffer}) = (UNION Range(wire)) \cup buffer
  OBVIOUS
<1>4. (UNION Range(wire')) \cup buffer' = (UNION Range(wire)) \cup buffer
  BY <1>1, <1>2, <1>3
<1>5. EverSent' = EverSent
  BY <1>4, Zenon DEF EverSent
<1> QED
  BY <1>5, SameOrder

\* The front capsule is the next new one, or one that was sent before.
LEMMA PackOrder ==
    ASSUME NEW thread \in Threads, SenderType, PlaceInv, OrderInv, PackCapsule(thread)
    PROVE  OrderInv'
<1> DEFINE capsule == Head(toSendStack)
           h == capsule.reliableIndex
           entry == [capsule |-> capsule, intact |-> BodyAlive(thread, capsule)]
<1>1. /\ toSendStack # <<>> /\ toSendStack \in Seq(Sized)
      /\ toSendStack' = Tail(toSendStack)
      /\ UNCHANGED <<wire, reliableIndex>>
      /\ buffer' = buffer \cup {entry}
  BY DEF PackCapsule, SenderType, channelVars
<1>2. /\ Len(toSendStack) \in Nat \ {0}
      /\ DOMAIN toSendStack = 1 .. Len(toSendStack)
      /\ capsule = toSendStack[1]
      /\ DOMAIN toSendStack' = 1 .. Len(toSendStack) - 1
      /\ Len(toSendStack') = Len(toSendStack) - 1
      /\ \A i \in 1 .. Len(toSendStack) - 1 : toSendStack'[i] = toSendStack[i + 1]
  BY <1>1
<1>3. EverSent' = EverSent \cup {h}
  <2>1. entry.capsule = capsule
    OBVIOUS
  <2> HIDE DEF entry
  <2>2. (UNION Range(wire')) \cup buffer' = ((UNION Range(wire)) \cup buffer) \cup {entry}
    BY <1>1
  <2> QED
    BY <2>1, <2>2 DEF EverSent
<1>4. h \in 0 .. reliableIndex - 1
  <2>1. h \in Indices(toSendStack)
    BY <1>2 DEF Indices
  <2> QED
    BY <2>1 DEF PlaceInv, Parted
<1>5. \A i \in DOMAIN toSendStack : toSendStack[i].reliableIndex \in Nat
  BY <1>1 DEF Sized, Capsule
<1>6. EverSent \subseteq 0 .. reliableIndex - 1
  BY DEF OrderInv
<1> HIDE DEF h, capsule
<1>7. ASSUME NEW i \in DOMAIN toSendStack',
             toSendStack'[i].reliableIndex \notin EverSent'
      PROVE  /\ \A j \in i + 1 .. Len(toSendStack') :
                  /\ toSendStack'[j].reliableIndex \notin EverSent'
                  /\ toSendStack'[j].reliableIndex > toSendStack'[i].reliableIndex
             /\ \A sent \in EverSent' : sent < toSendStack'[i].reliableIndex
  <2>1. /\ i + 1 \in DOMAIN toSendStack
        /\ toSendStack'[i] = toSendStack[i + 1]
        /\ toSendStack[i + 1].reliableIndex \notin EverSent
    BY <1>2, <1>3, <1>7
  <2>2. /\ \A j \in (i + 1) + 1 .. Len(toSendStack) :
             /\ toSendStack[j].reliableIndex \notin EverSent
             /\ toSendStack[j].reliableIndex > toSendStack[i + 1].reliableIndex
        /\ \A sent \in EverSent : sent < toSendStack[i + 1].reliableIndex
    BY <2>1 DEF OrderInv, FirstSendInOrder
  <2>3. h < toSendStack[i + 1].reliableIndex
    <3>1. CASE h \in EverSent
      BY <2>2, <3>1
    <3>2. CASE h \notin EverSent
      <4>1. 1 \in DOMAIN toSendStack /\ toSendStack[1].reliableIndex \notin EverSent
        BY <1>2, <3>2 DEF h, capsule
      <4>2. \A j \in 1 + 1 .. Len(toSendStack) :
              toSendStack[j].reliableIndex > toSendStack[1].reliableIndex
        BY <4>1 DEF OrderInv, FirstSendInOrder
      <4>3. i + 1 \in 1 + 1 .. Len(toSendStack)
        BY <1>2, <2>1
      <4>4. toSendStack[i + 1].reliableIndex > toSendStack[1].reliableIndex
        BY <4>2, <4>3
      <4> QED
        BY <1>2, <1>4, <1>5, <2>1, <4>4 DEF h, capsule
    <3> QED
      BY <3>1, <3>2
  <2>4. ASSUME NEW j \in i + 1 .. Len(toSendStack')
        PROVE  /\ toSendStack'[j].reliableIndex \notin EverSent'
               /\ toSendStack'[j].reliableIndex > toSendStack'[i].reliableIndex
    <3>1. /\ j + 1 \in (i + 1) + 1 .. Len(toSendStack)
          /\ toSendStack'[j] = toSendStack[j + 1]
          /\ j + 1 \in DOMAIN toSendStack
      BY <1>2
    <3>2. /\ toSendStack[j + 1].reliableIndex \notin EverSent
          /\ toSendStack[j + 1].reliableIndex > toSendStack[i + 1].reliableIndex
      BY <2>2, <3>1
    <3>3. toSendStack[j + 1].reliableIndex # h
      BY <1>4, <1>5, <2>1, <2>3, <3>1, <3>2
    <3> QED
      BY <1>3, <2>1, <3>1, <3>2, <3>3
  <2>5. \A sent \in EverSent' : sent < toSendStack'[i].reliableIndex
    BY <1>3, <2>1, <2>2, <2>3
  <2> QED
    BY <2>4, <2>5
<1>8. EverSent' \subseteq 0 .. reliableIndex' - 1
  BY <1>1, <1>3, <1>4, <1>6
<1>9. FirstSendInOrder'
  BY <1>7, Zenon DEF FirstSendInOrder
<1> QED
  BY <1>8, <1>9 DEF OrderInv

\* What comes back to the front was sent.
LEMMA NackOrder ==
    ASSUME SenderType, CacheInv, OrderInv, NackDatagram,
           packet.high \in DOMAIN unackedCache
    PROVE  OrderInv'
<1> DEFINE capsules == unackedCache[packet.high]
<1>1. /\ toSendStack' = PushAllFront(toSendStack, capsules)
      /\ UNCHANGED <<wire, buffer, reliableIndex>>
      /\ capsules \in Seq(Sized) /\ toSendStack \in Seq(Sized)
      /\ Len(toSendStack) \in 0 .. Capacity
  BY DEF NackDatagram, Requeued, datagramVars, channelVars, SenderType
<1>2. Indices(capsules) \subseteq EverSent
  BY FlyingSent DEF Flying
<1> HIDE DEF capsules
<1>3. PICK m \in 1 .. Len(capsules) + 1 :
        toSendStack' = SubSeq(capsules, m, Len(capsules)) \o toSendStack
  BY <1>1, PushAllFrontKeeps
<1> DEFINE kept == SubSeq(capsules, m, Len(capsules))
<1>4. Len(capsules) \in 0 .. Len(capsules)
  BY <1>1
<1>5. kept \in Seq(Sized) /\ Indices(kept) \subseteq EverSent
  BY <1>1, <1>2, <1>4, IndicesOfPart
<1>6. toSendStack' = kept \o toSendStack
  BY <1>3
<1> HIDE DEF kept
<1>7. /\ Len(kept) \in Nat /\ Len(toSendStack) \in Nat
      /\ DOMAIN toSendStack = 1 .. Len(toSendStack)
      /\ DOMAIN toSendStack' = 1 .. Len(kept) + Len(toSendStack)
      /\ Len(toSendStack') = Len(kept) + Len(toSendStack)
      /\ \A i \in 1 .. Len(kept) : toSendStack'[i].reliableIndex \in EverSent
      /\ \A i \in Len(kept) + 1 .. Len(kept) + Len(toSendStack) :
           toSendStack'[i] = toSendStack[i - Len(kept)]
  <2>1. \A i \in 1 .. Len(kept) : kept[i].reliableIndex \in Indices(kept)
    BY <1>5 DEF Indices
  <2> QED
    BY <1>1, <1>5, <1>6, <2>1
<1>8. EverSent' = EverSent
  BY <1>1 DEF EverSent
<1>9. ASSUME NEW i \in DOMAIN toSendStack',
             toSendStack'[i].reliableIndex \notin EverSent
      PROVE  /\ \A j \in i + 1 .. Len(toSendStack') :
                  /\ toSendStack'[j].reliableIndex \notin EverSent
                  /\ toSendStack'[j].reliableIndex > toSendStack'[i].reliableIndex
             /\ \A sent \in EverSent : sent < toSendStack'[i].reliableIndex
  <2> DEFINE old == i - Len(kept)
  <2>1. /\ i \in Len(kept) + 1 .. Len(kept) + Len(toSendStack)
        /\ old \in DOMAIN toSendStack
        /\ toSendStack'[i] = toSendStack[old]
    BY <1>7, <1>9
  <2>2. /\ \A j \in old + 1 .. Len(toSendStack) :
             /\ toSendStack[j].reliableIndex \notin EverSent
             /\ toSendStack[j].reliableIndex > toSendStack[old].reliableIndex
        /\ \A sent \in EverSent : sent < toSendStack[old].reliableIndex
    BY <1>9, <2>1 DEF OrderInv, FirstSendInOrder
  <2>3. ASSUME NEW j \in i + 1 .. Len(toSendStack')
        PROVE  /\ j - Len(kept) \in old + 1 .. Len(toSendStack)
               /\ toSendStack'[j] = toSendStack[j - Len(kept)]
    BY <1>7, <2>1
  <2> HIDE DEF old
  <2> QED
    BY <2>1, <2>2, <2>3
<1>10. FirstSendInOrder'
  BY <1>8, <1>9, Zenon DEF FirstSendInOrder
<1> QED
  BY <1>1, <1>8, <1>10 DEF OrderInv

\* New capsules have higher numbers than all that were made before.
LEMMA SendOrder ==
    ASSUME NEW thread \in Threads, NEW frame \in Frames, SenderType, PlaceInv,
           OrderInv, SendFrame(thread, frame)
    PROVE  OrderInv'
<1> DEFINE r == reliableIndex
           n == CapsuleCount(frame)
           s == Capsules(frame)
<1>1. /\ toSendStack' = PushAllBack(toSendStack, s)
      /\ UNCHANGED <<wire, buffer>>
      /\ reliableIndex' = r + n
      /\ r \in Nat /\ n \in Nat
      /\ s \in Seq(Sized) /\ toSendStack \in Seq(Sized)
      /\ Len(toSendStack) \in 0 .. Capacity
  BY CapsulesShape DEF SendFrame, datagramVars, SenderType
<1>2. Len(s) = n /\ \A i \in 1 .. n : s[i].reliableIndex = r + i - 1
  BY <1>1 DEF Capsules
<1>3. EverSent' = EverSent /\ EverSent \subseteq 0 .. r - 1
  BY <1>1 DEF EverSent, OrderInv
<1>4. \A i \in DOMAIN toSendStack : toSendStack[i].reliableIndex \in 0 .. r - 1
  BY DEF PlaceInv, Parted, Indices
<1> HIDE DEF r, n, s
<1>5. PICK k \in 0 .. n : toSendStack' = toSendStack \o SubSeq(s, 1, k)
  <2>1. \E k \in 0 .. Len(s) :
          PushAllBack(toSendStack, s) = toSendStack \o SubSeq(s, 1, k)
    BY <1>1, PushAllBackKeeps
  <2> QED
    BY <1>1, <1>2, <2>1
<1> DEFINE len == Len(toSendStack)
<1>6. /\ len \in Nat /\ DOMAIN toSendStack = 1 .. len
      /\ DOMAIN toSendStack' = 1 .. len + k
      /\ Len(toSendStack') = len + k
      /\ \A i \in 1 .. len : toSendStack'[i] = toSendStack[i]
      /\ \A i \in len + 1 .. len + k :
           toSendStack'[i].reliableIndex = r + (i - len) - 1
  <2>1. /\ SubSeq(s, 1, k) \in Seq(Sized)
        /\ Len(SubSeq(s, 1, k)) = k
        /\ \A i \in 1 .. k : SubSeq(s, 1, k)[i] = s[i]
    BY <1>1, <1>2
  <2> DEFINE part == SubSeq(s, 1, k)
  <2>2. toSendStack' = toSendStack \o part
    BY <1>5
  <2>3. part \in Seq(Sized) /\ Len(part) = k /\ \A i \in 1 .. k : part[i] = s[i]
    BY <2>1
  <2> HIDE DEF part
  <2>4. /\ len \in Nat /\ DOMAIN toSendStack = 1 .. len
        /\ DOMAIN toSendStack' = 1 .. len + k
        /\ Len(toSendStack') = len + k
        /\ \A i \in 1 .. len : toSendStack'[i] = toSendStack[i]
        /\ \A i \in len + 1 .. len + k : toSendStack'[i] = part[i - len]
    <3>1. toSendStack \in Seq(Sized) /\ part \in Seq(Sized) /\ Len(part) = k
      BY <1>1, <2>3
    <3>2. /\ Len(toSendStack \o part) = Len(toSendStack) + Len(part)
          /\ DOMAIN (toSendStack \o part) = 1 .. Len(toSendStack) + Len(part)
          /\ \A i \in 1 .. Len(toSendStack) : (toSendStack \o part)[i] = toSendStack[i]
          /\ \A i \in Len(toSendStack) + 1 .. Len(toSendStack) + Len(part) :
               (toSendStack \o part)[i] = part[i - Len(toSendStack)]
          /\ DOMAIN toSendStack = 1 .. Len(toSendStack)
          /\ Len(toSendStack) \in Nat
      BY <3>1
    <3> QED
      BY <2>2, <3>1, <3>2
  <2>5. ASSUME NEW i \in len + 1 .. len + k
        PROVE  toSendStack'[i].reliableIndex = r + (i - len) - 1
    <3>1. i - len \in 1 .. k /\ i - len \in 1 .. n
      BY <1>1, <2>4
    <3> QED
      BY <1>2, <2>3, <2>4, <3>1
  <2> QED
    BY <2>4, <2>5
<1> HIDE DEF len
<1>7. ASSUME NEW i \in DOMAIN toSendStack',
             toSendStack'[i].reliableIndex \notin EverSent
      PROVE  /\ \A j \in i + 1 .. Len(toSendStack') :
                  /\ toSendStack'[j].reliableIndex \notin EverSent
                  /\ toSendStack'[j].reliableIndex > toSendStack'[i].reliableIndex
             /\ \A sent \in EverSent : sent < toSendStack'[i].reliableIndex
  <2>1. CASE i <= len
    <3>1. /\ i \in DOMAIN toSendStack /\ toSendStack'[i] = toSendStack[i]
          /\ toSendStack[i].reliableIndex \notin EverSent
          /\ toSendStack[i].reliableIndex \in 0 .. r - 1
      BY <1>4, <1>6, <1>7, <2>1
    <3>2. /\ \A j \in i + 1 .. len :
               /\ toSendStack[j].reliableIndex \notin EverSent
               /\ toSendStack[j].reliableIndex > toSendStack[i].reliableIndex
          /\ \A sent \in EverSent : sent < toSendStack[i].reliableIndex
      BY <3>1 DEF OrderInv, FirstSendInOrder, len
    <3>3. ASSUME NEW j \in i + 1 .. Len(toSendStack')
          PROVE  /\ toSendStack'[j].reliableIndex \notin EverSent
                 /\ toSendStack'[j].reliableIndex > toSendStack'[i].reliableIndex
      <4>1. CASE j <= len
        <5>1. j \in i + 1 .. len /\ toSendStack'[j] = toSendStack[j]
          BY <1>6, <4>1
        <5> QED
          BY <3>1, <3>2, <5>1
      <4>2. CASE j > len
        <5>1. /\ toSendStack'[j].reliableIndex = r + (j - len) - 1
              /\ r + (j - len) - 1 >= r
          BY <1>1, <1>6, <4>2
        <5>2. r + (j - len) - 1 \notin 0 .. r - 1
          BY <1>1, <5>1
        <5> QED
          BY <1>1, <1>3, <1>6, <3>1, <5>1, <5>2
      <4> QED
        BY <1>6, <4>1, <4>2
    <3> QED
      BY <3>1, <3>2, <3>3
  <2>2. CASE i > len
    <3>1. toSendStack'[i].reliableIndex = r + (i - len) - 1 /\ r + (i - len) - 1 >= r
      BY <1>1, <1>6, <2>2
    <3>2. \A sent \in EverSent : sent < toSendStack'[i].reliableIndex
      BY <1>1, <1>3, <1>6, <3>1
    <3>3. ASSUME NEW j \in i + 1 .. Len(toSendStack')
          PROVE  /\ toSendStack'[j].reliableIndex \notin EverSent
                 /\ toSendStack'[j].reliableIndex > toSendStack'[i].reliableIndex
      <4>1. /\ toSendStack'[j].reliableIndex = r + (j - len) - 1
            /\ r + (j - len) - 1 > r + (i - len) - 1
            /\ r + (j - len) - 1 >= r
        BY <1>1, <1>6, <2>2
      <4>2. r + (j - len) - 1 \notin 0 .. r - 1
        BY <1>1, <4>1
      <4> QED
        BY <1>3, <3>1, <4>1, <4>2
    <3> QED
      BY <3>2, <3>3
  <2> QED
    BY <1>6, <2>1, <2>2
<1>8. FirstSendInOrder'
  BY <1>3, <1>7, Zenon DEF FirstSendInOrder
<1>9. EverSent' \subseteq 0 .. reliableIndex' - 1
  BY <1>1, <1>3
<1> QED
  BY <1>8, <1>9 DEF OrderInv

\* Both threads' frames leave for the first time in the order of their numbers,
\* and what a NACK took back leaves before them.
THEOREM FirstSendsOrdered == Spec => []FirstSendInOrder
<1>1. Init => OrderInv
  BY DEF Init, OrderInv, FirstSendInOrder, EverSent, Range
<1>2. SenderInv /\ CacheInv /\ PlaceInv /\ OrderInv /\ [Next]_vars => OrderInv'
  <2> SUFFICES ASSUME SenderInv, CacheInv, PlaceInv, OrderInv, [Next]_vars
               PROVE  OrderInv'
    OBVIOUS
  <2>1. SenderType
    BY DEF SenderInv
  <2>2. ASSUME UNCHANGED <<toSendStack, reliableIndex, wire, buffer>> PROVE OrderInv'
    BY <2>2, SameOrder DEF EverSent
  <2>3. ASSUME NEW thread \in Threads, Sending(thread) PROVE OrderInv'
    <3>1. ASSUME NEW frame \in Frames, SendFrame(thread, frame) PROVE OrderInv'
      BY <2>1, <3>1, SendOrder
    <3>2. CASE RollDatagram(thread)
      BY <2>1, <3>2, FlushOrder DEF RollDatagram, channelVars
    <3>3. CASE PackCapsule(thread)
      BY <2>1, <3>3, PackOrder
    <3>4. CASE FinishQueue(thread)
      <4>1. UNCHANGED <<toSendStack, reliableIndex>>
        BY <3>4 DEF FinishQueue, channelVars
      <4>2. CASE CreateCurrentConnectionBuffer
        BY <2>1, <4>1, <4>2, FlushOrder
      <4>3. CASE UNCHANGED <<unackedCache, datagramVars>>
        BY <2>2, <4>1, <4>3 DEF datagramVars
      <4> QED
        BY <3>4, <4>2, <4>3 DEF FinishQueue
    <3> QED
      BY <2>3, <3>1, <3>2, <3>3, <3>4 DEF Sending
  <2>4. CASE NackDatagram
    <3>1. CASE packet.high \in DOMAIN unackedCache
      BY <2>1, <2>4, <3>1, NackOrder
    <3>2. CASE packet.high \notin DOMAIN unackedCache
      BY <2>2, <2>4, <3>2 DEF NackDatagram, channelVars, datagramVars
    <3> QED
      BY <3>1, <3>2
  <2>5. ASSUME NEW low \in 0 .. frameSetId, NEW high \in 0 .. frameSetId,
               ReadRange(low, high)
        PROVE  OrderInv'
    BY <2>2, <2>5 DEF ReadRange, channelVars, datagramVars
  <2>6. CASE ReceiveFrame \/ FinishFrame \/ HandleAck \/ HandleNack
               \/ AckDatagram \/ EndPacket
    BY <2>2, <2>6 DEF ReceiveFrame, FinishFrame, HandleAck, HandleNack, AckDatagram,
                      EndPacket, channelVars, datagramVars
  <2>7. CASE UNCHANGED vars
    BY <2>2, <2>7 DEF vars, channelVars, datagramVars
  <2> QED
    BY <2>3, <2>4, <2>5, <2>6, <2>7 DEF Next
<1>3. OrderInv => FirstSendInOrder
  BY DEF OrderInv
<1> QED
  BY <1>1, <1>2, <1>3, SenderInvariant, CacheInvariant, PlaceInvariant, PTL DEF Spec
-----------------------------------------------------------------------------
(* The sender and its peer, with a network that loses between them.        *)

Answering == pc["network"] \in {"acking", "nacking"}

\* The reliable indices in the datagram sent under an id.
Got(id) == {capsule.reliableIndex : capsule \in ReliableOf(wire[id + 1])}

\* What is on its way was sent; an ACK, on its way or in hand, is of one frame set
\* that arrived.
LossInv ==
    /\ network \subseteq 0 .. Len(wire) - 1
    /\ last \in -1 .. Len(wire) - 1
    /\ \A a \in answers :
         /\ a.range[1] \in 0 .. Len(wire) - 1 /\ a.range[2] \in 0 .. Len(wire) - 1
         /\ a.type = "ACK" => a.range[1] = a.range[2] /\ Got(a.range[1]) \subseteq arrived
    /\ Answering => answer[1] \in 0 .. Len(wire) - 1 /\ answer[2] \in 0 .. Len(wire) - 1
    /\ pc["network"] = "acking" =>
         /\ answer[1] = answer[2] /\ Got(answer[1]) \subseteq arrived
         /\ RangeEmpty \/ (packet.low = answer[1] /\ packet.high = answer[1])
    /\ AckedArrived

\* The wire only grows, and what was sent under an id stays.
LEMMA WireGrows ==
    ASSUME SenderType, wire' = wire \/ wire' = Append(wire, buffer)
    PROVE  /\ Len(wire) \in Nat /\ Len(wire') \in Nat /\ Len(wire) <= Len(wire')
           /\ \A id \in 0 .. Len(wire) - 1 : Got(id)' = Got(id)
<1>1. wire \in Seq(SUBSET Written) /\ buffer \in SUBSET Written
  BY DEF SenderType
<1>2. CASE wire' = wire
  BY <1>1, <1>2 DEF Got
<1>3. CASE wire' = Append(wire, buffer)
  <2>1. /\ Len(wire) \in Nat /\ Len(wire') = Len(wire) + 1
        /\ \A id \in 0 .. Len(wire) - 1 : wire'[id + 1] = wire[id + 1]
    BY <1>1, <1>3
  <2> QED
    BY <2>1 DEF Got
<1> QED
  BY <1>2, <1>3

\* What sending changes: the wire may grow, the handling of an answer goes on.
LEMMA SendSteps ==
    ASSUME SenderType, Send
    PROVE  /\ wire' = wire \/ wire' = Append(wire, buffer)
           /\ pc'["network"] \in {"acking", "nacking"} => pc'["network"] = pc["network"]
           /\ network' = network \cup (Len(wire) .. Len(wire') - 1)
           /\ UNCHANGED <<packet, acked, last, arrived, answers, answer>>
<1>1. /\ network' = network \cup (Len(wire) .. Len(wire') - 1)
      /\ UNCHANGED <<last, arrived, answers, answer>>
  BY DEF Send, peer
<1> DEFINE Goal == /\ wire' = wire \/ wire' = Append(wire, buffer)
                   /\ pc'["network"] \in {"acking", "nacking"} =>
                        pc'["network"] = pc["network"]
                   /\ UNCHANGED <<packet, acked>>
<1>2. ASSUME ReceiveFrame \/ FinishFrame PROVE Goal
  BY <1>2 DEF ReceiveFrame, FinishFrame, SenderType, Threads, datagramVars, peerVars
<1>3. ASSUME NEW thread \in Threads, Sending(thread)
      PROVE  Goal
  <2>1. ASSUME NEW frame \in Frames, SendFrame(thread, frame) PROVE Goal
    BY <2>1 DEF SendFrame, SenderType, Threads, datagramVars, peerVars
  <2>2. CASE RollDatagram(thread)
    BY <2>2 DEF RollDatagram, CreateCurrentConnectionBuffer, peerVars
  <2>3. CASE PackCapsule(thread)
    BY <2>3 DEF PackCapsule, peerVars
  <2>4. CASE FinishQueue(thread)
    <3>1. /\ wire' = wire \/ wire' = Append(wire, buffer)
          /\ UNCHANGED <<packet, acked>>
      BY <2>4 DEF FinishQueue, CreateCurrentConnectionBuffer, datagramVars, peerVars
    <3>2. pc' = [pc EXCEPT ![thread] =
                   IF pc[thread] = "sending" THEN CallerState[thread] ELSE "idle"]
      BY <2>4 DEF FinishQueue
    <3>3. CallerState[thread] \in {"handling", "idle"}
      BY DEF CallerState, Threads
    <3>4. pc'["network"] = pc["network"] \/ pc'["network"] \in {"handling", "idle"}
      BY <3>2, <3>3 DEF SenderType, Threads
    <3> QED
      BY <3>1, <3>4
  <2> QED
    BY <1>3, <2>1, <2>2, <2>3, <2>4 DEF Sending
<1>4. Goal
  <2> HIDE DEF Goal
  <2> QED
    BY <1>2, <1>3 DEF Send
<1> QED
  BY <1>1, <1>4

\* Every step of the connection is a step of the sender, or none: the ranges it reads
\* are of frame sets that were sent.
LEMMA ConnectionIsNext ==
    ASSUME SenderType, CacheInv, LossInv, [ConnectionNext]_allVars
    PROVE  [Next]_vars
<1>1. CASE Send
  BY <1>1 DEF Send, Next
<1>2. CASE \E a \in answers : HandleAnswer(a)
  BY <1>2 DEF HandleAnswer, Next
<1>3. CASE ReadAnswer
  <2>1. CASE ReadRange(answer[1], answer[2])
    <3>1. Answering
      BY <2>1 DEF ReadRange, Answering
    <3>2. Len(wire) = frameSetId /\ frameSetId \in Nat
      BY DEF CacheInv, SenderType
    <3>3. answer[1] \in 0 .. frameSetId /\ answer[2] \in 0 .. frameSetId
      BY <3>1, <3>2 DEF LossInv
    <3> QED
      BY <2>1, <3>3 DEF Next
  <2> QED
    BY <1>3, <2>1 DEF ReadAnswer, Next
<1>4. CASE (\E id \in network : Deliver(id)) \/ Lose \/ UNCHANGED allVars
  BY <1>4 DEF Deliver, Lose, allVars
<1> QED
  BY <1>1, <1>2, <1>3, <1>4 DEF ConnectionNext

\* An ACK takes what was in the frame set it is of, and that arrived.
LEMMA AckArrived ==
    ASSUME SenderType, CacheInv, LossInv, AckDatagram
    PROVE  acked' \subseteq arrived
<1>1. CASE packet.low \notin DOMAIN unackedCache
  BY <1>1 DEF AckDatagram, LossInv, AckedArrived
<1>2. CASE packet.low \in DOMAIN unackedCache
  <2>1. acked' = acked \cup Indices(unackedCache[packet.low])
    BY <1>2 DEF AckDatagram
  <2>2. packet.low = answer[1] /\ Got(answer[1]) \subseteq arrived
    BY DEF AckDatagram, LossInv
  <2>3. Range(unackedCache[packet.low]) = ReliableOf(wire[packet.low + 1])
    BY <1>2 DEF CacheInv, CacheMatchesWire
  <2>4. Indices(unackedCache[packet.low]) = Got(packet.low)
    BY <2>3 DEF Indices, Got, Range
  <2> QED
    BY <2>1, <2>2, <2>4 DEF LossInv, AckedArrived
<1> QED
  BY <1>1, <1>2

\* A frame set that arrives is answered: by an ACK of it, and a NACK of ids below it.
LEMMA AnswersShape ==
    ASSUME SenderType, LossInv, NEW id \in network, NEW a \in Answers(id)
    PROVE  /\ a.range[1] \in 0 .. Len(wire) - 1 /\ a.range[2] \in 0 .. Len(wire) - 1
           /\ a.type = "ACK" => a.range[1] = id /\ a.range[2] = id
<1>1. /\ id \in 0 .. Len(wire) - 1 /\ last \in -1 .. Len(wire) - 1 /\ Len(wire) \in Nat
  BY DEF LossInv, SenderType
<1>2. CASE a = Ack(id)
  BY <1>1, <1>2 DEF Ack
<1>3. CASE \E low \in {l \in {last + 1} : l < id} : a = Nack(low, id - 1)
  <2>1. a = Nack(last + 1, id - 1) /\ last + 1 < id
    BY <1>3
  <2>2. a.range[1] = last + 1 /\ a.range[2] = id - 1 /\ a.type = "NACK"
    BY <2>1 DEF Nack
  <2> QED
    BY <1>1, <2>1, <2>2
<1> QED
  BY <1>2, <1>3 DEF Answers

\* Every step of the connection keeps the invariant.
LEMMA StepLoss ==
    SenderType /\ CacheInv /\ LossInv /\ [ConnectionNext]_allVars => LossInv'
<1> SUFFICES ASSUME SenderType, CacheInv, LossInv, [ConnectionNext]_allVars
             PROVE  LossInv'
  OBVIOUS
<1>1. CASE Send
  <2>1. /\ wire' = wire \/ wire' = Append(wire, buffer)
        /\ pc'["network"] \in {"acking", "nacking"} => pc'["network"] = pc["network"]
        /\ network' = network \cup (Len(wire) .. Len(wire') - 1)
        /\ UNCHANGED <<packet, acked, last, arrived, answers, answer>>
    BY <1>1, SendSteps
  <2>2. /\ Len(wire) \in Nat /\ Len(wire') \in Nat /\ Len(wire) <= Len(wire')
        /\ \A id \in 0 .. Len(wire) - 1 : Got(id)' = Got(id)
    BY <2>1, WireGrows
  <2>3. 0 .. Len(wire) - 1 \subseteq 0 .. Len(wire') - 1
    BY <2>2
  <2>4. network' \subseteq 0 .. Len(wire') - 1 /\ last' \in -1 .. Len(wire') - 1
    <3>1. network \subseteq 0 .. Len(wire) - 1 /\ last \in -1 .. Len(wire) - 1
      BY DEF LossInv
    <3>2. Len(wire) .. Len(wire') - 1 \subseteq 0 .. Len(wire') - 1
      BY <2>2
    <3>3. last \in -1 .. Len(wire') - 1
      BY <2>2, <3>1
    <3> QED
      BY <2>1, <2>3, <3>1, <3>2, <3>3
  <2>5. \A a \in answers' :
          /\ a.range[1] \in 0 .. Len(wire') - 1 /\ a.range[2] \in 0 .. Len(wire') - 1
          /\ a.type = "ACK" =>
               a.range[1] = a.range[2] /\ Got(a.range[1])' \subseteq arrived'
    BY <2>1, <2>2, <2>3 DEF LossInv
  <2>6. Answering' =>
          answer'[1] \in 0 .. Len(wire') - 1 /\ answer'[2] \in 0 .. Len(wire') - 1
    BY <2>1, <2>3 DEF LossInv, Answering
  <2>7. pc'["network"] = "acking" =>
          /\ answer'[1] = answer'[2] /\ Got(answer[1])' \subseteq arrived'
          /\ RangeEmpty' \/ (packet'.low = answer'[1] /\ packet'.high = answer'[1])
    BY <2>1, <2>2 DEF LossInv, Answering, RangeEmpty
  <2>8. AckedArrived'
    BY <2>1 DEF LossInv, AckedArrived
  <2> QED
    BY <2>1, <2>4, <2>5, <2>6, <2>7, <2>8 DEF LossInv, Got
<1>2. ASSUME NEW a \in answers, HandleAnswer(a) PROVE LossInv'
  <2>1. /\ answers' \subseteq answers /\ answer' = a.range
        /\ UNCHANGED <<network, last, arrived>>
    BY <1>2 DEF HandleAnswer, peer
  <2>2. UNCHANGED <<wire, acked>>
    BY <1>2 DEF HandleAnswer, HandleAck, HandleNack, datagramVars
  <2>3. pc'["network"] = "acking" => a.type = "ACK"
    BY <1>2 DEF HandleAnswer, HandleAck, HandleNack, SenderType, Threads
  <2>4. RangeEmpty'
    BY <1>2 DEF HandleAnswer, HandleAck, HandleNack, NoRange, RangeEmpty
  <2> QED
    BY <2>1, <2>2, <2>3, <2>4 DEF LossInv, Got, Answering, AckedArrived
<1>3. CASE ReadAnswer
  <2>1. UNCHANGED <<network, last, arrived, answers, answer>>
    BY <1>3 DEF ReadAnswer, peer
  <2>2. /\ UNCHANGED wire
        /\ pc' = pc \/ pc'["network"] = "idle"
    BY <1>3 DEF ReadAnswer, ReadRange, AckDatagram, NackDatagram, EndPacket, datagramVars,
                SenderType, Threads
  <2>3. acked' \subseteq arrived
    BY <1>3, AckArrived DEF ReadAnswer, ReadRange, NackDatagram, EndPacket, LossInv,
                            AckedArrived
  <2>4. pc'["network"] = "acking" =>
          RangeEmpty' \/ (packet'.low = answer[1] /\ packet'.high = answer[1])
    <3>1. CASE ReadRange(answer[1], answer[2])
      BY <2>2, <3>1 DEF ReadRange, LossInv
    <3>2. CASE AckDatagram
      <4>1. /\ packet \in [left : Nat, low : Nat, high : Int]
            /\ packet.low = packet.high
            /\ packet' = [packet EXCEPT !.low = @ + 1]
        BY <3>2 DEF AckDatagram, SenderType, LossInv
      <4> QED
        BY <4>1 DEF RangeEmpty
    <3>3. CASE NackDatagram \/ EndPacket
      BY <3>3 DEF NackDatagram, EndPacket, SenderType, Threads
    <3> QED
      BY <1>3, <3>1, <3>2, <3>3 DEF ReadAnswer
  <2> QED
    BY <2>1, <2>2, <2>3, <2>4 DEF LossInv, Got, Answering, AckedArrived
<1>4. ASSUME NEW id \in network, Deliver(id) PROVE LossInv'
  <2>1. /\ network' = network \ {id} /\ last' = id
        /\ arrived' = arrived \cup Got(id)
        /\ answers' = answers \cup Answers(id)
        /\ UNCHANGED <<wire, pc, packet, acked, answer>>
    BY <1>4 DEF Deliver, Got, vars, datagramVars, peerVars
  <2>2. id \in 0 .. Len(wire) - 1 /\ Len(wire) \in Nat
    BY DEF LossInv, SenderType
  <2>3. last' \in -1 .. Len(wire) - 1
    BY <2>1, <2>2
  <2>4. \A a \in answers' :
          /\ a.range[1] \in 0 .. Len(wire) - 1 /\ a.range[2] \in 0 .. Len(wire) - 1
          /\ a.type = "ACK" => a.range[1] = a.range[2] /\ Got(a.range[1]) \subseteq arrived'
    BY <2>1, AnswersShape DEF LossInv
  <2> QED
    BY <2>1, <2>3, <2>4 DEF LossInv, Got, Answering, RangeEmpty, AckedArrived
<1>5. CASE Lose
  <2>1. /\ network' \subseteq network /\ answers' \subseteq answers
        /\ UNCHANGED <<wire, pc, packet, acked, answer, last, arrived>>
    BY <1>5 DEF Lose, vars, datagramVars, peerVars, peer
  <2> QED
    BY <2>1 DEF LossInv, Got, Answering, RangeEmpty, AckedArrived
<1>6. CASE UNCHANGED allVars
  <2>1. UNCHANGED <<wire, pc, packet, acked, answer, last, arrived, network, answers>>
    BY <1>6 DEF allVars, vars, datagramVars, peerVars, peer
  <2> QED
    BY <2>1 DEF LossInv, Got, Answering, RangeEmpty, AckedArrived
<1> QED
  BY <1>1, <1>2, <1>3, <1>4, <1>5, <1>6 DEF ConnectionNext

\* What holds of the sender alone, and what is between it and the peer, together.
LEMMA LossInvariant == ConnectionSpec => [](SenderInv /\ CacheInv /\ LossInv)
<1>1. ConnectionInit => SenderInv /\ CacheInv /\ LossInv
  <2> SUFFICES ASSUME ConnectionInit PROVE SenderInv /\ CacheInv /\ LossInv
    OBVIOUS
  <2>1. SenderInv
    BY InitInv DEF ConnectionInit
  <2>2. CacheInv
    BY DEF ConnectionInit, Init, CacheInv, CacheMatchesWire, ReliableOf, Range
  <2>3. pc["network"] = "idle" /\ wire = <<>> /\ Len(wire) = 0
    BY DEF ConnectionInit, Init, Threads
  <2>4. LossInv
    BY <2>3 DEF ConnectionInit, Init, LossInv, Answering, AckedArrived
  <2> QED
    BY <2>1, <2>2, <2>4
<1>2. SenderInv /\ CacheInv /\ LossInv /\ [ConnectionNext]_allVars
        => (SenderInv /\ CacheInv /\ LossInv)'
  <2> SUFFICES ASSUME SenderInv, CacheInv, LossInv, [ConnectionNext]_allVars
               PROVE  SenderInv' /\ CacheInv' /\ LossInv'
    OBVIOUS
  <2>1. SenderType
    BY DEF SenderInv
  <2>2. [Next]_vars
    BY <2>1, ConnectionIsNext
  <2> QED
    BY <2>1, <2>2, StepInv, StepCache, StepLoss
<1> QED
  BY <1>1, <1>2, PTL DEF ConnectionSpec

\* With a peer that answers what it saw and a network that loses and reorders, the
\* sender does what RaknetSender says: all that is proved of it holds there too.
THEOREM ConnectionIsSender == ConnectionSpec => Spec
<1>1. ConnectionInit => Init
  BY DEF ConnectionInit
<1>2. SenderInv /\ CacheInv /\ LossInv /\ [ConnectionNext]_allVars => [Next]_vars
  BY ConnectionIsNext DEF SenderInv
<1> QED
  BY <1>1, <1>2, LossInvariant, PTL DEF ConnectionSpec, Spec

\* In every behaviour the sender forgets a capsule only once the peer has it, however
\* frame sets and answers are lost and overtake each other.
THEOREM AckedAlwaysArrived == ConnectionSpec => []AckedArrived
<1>1. LossInv => AckedArrived
  BY DEF LossInv
<1> QED
  BY <1>1, LossInvariant, PTL
=============================================================================

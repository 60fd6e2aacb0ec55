------------------------ MODULE RaknetReceiver_proofs ------------------------
(***************************************************************************)
(* For every message set, word size, id limit and order of arrival: no     *)
(* lost datagram goes unreported, no ACK runs ahead of the handling, and   *)
(* what is handed on is whole and complete.                                *)
(***************************************************************************)
EXTENDS RaknetReceiver, FiniteSetTheorems, TLAPS

\* The ids are in their ranges, and the last id is one received.
TrackOK ==
    /\ missing \in SUBSET Nat
    /\ received \in SUBSET (0 .. IdLimit)
    /\ \/ received = {} /\ lastDatagramId = WordModulus - 1
       \/ lastDatagramId \in received

TrackInv == TrackOK /\ GapsReported

-----------------------------------------------------------------------------
\* Differences of ids as 32-bit words.
LEMMA ModDifference ==
    ASSUME NEW W \in Nat \ {0}, NEW a \in 0 .. W - 1
    PROVE  a % W = a
  OBVIOUS

\* What is below zero by less than a word wraps around once.
LEMMA ModNegative ==
    ASSUME NEW W \in Nat \ {0}, NEW a \in 1 - W .. - 1
    PROVE  a % W = a + W
  OBVIOUS

\* A whole word wraps around to zero.
LEMMA ModWhole == ASSUME NEW W \in Nat \ {0} PROVE W % W = 0
  OBVIOUS

\* A frame set id above all the others reports everything it skips.
LEMMA GapCovers ==
    ASSUME TrackOK, NEW id \in 0 .. IdLimit,
           \A other \in received : other < id,
           NEW skipped \in 0 .. id - 1
    PROVE  \/ skipped \in Gap(id)
           \/ \E other \in received : skipped <= other
<1> USE IdAssumption
<1>1. WordModulus \in Nat \ {0} /\ IdLimit \in Nat /\ IdLimit + 1 < WordModulus
  OBVIOUS
<1>2. CASE received = {} /\ lastDatagramId = WordModulus - 1
  <2>1. id - lastDatagramId = id + 1 - WordModulus
    BY <1>1, <1>2
  <2>2. id + 1 - WordModulus \in 1 - WordModulus .. - 1
    BY <1>1
  <2>3. (id + 1 - WordModulus) % WordModulus = id + 1 - WordModulus + WordModulus
    BY <1>1, <2>2, ModNegative, Zenon
  <2>4. (id - lastDatagramId) % WordModulus > 1
    <3>1. id + 1 - WordModulus + WordModulus > 1
      BY <1>1
    <3> QED
      BY <2>1, <2>3, <3>1, Zenon
  <2>5. (lastDatagramId + 1) % WordModulus = 0
    <3>1. lastDatagramId + 1 = WordModulus
      BY <1>1, <1>2
    <3> QED
      BY <1>1, <3>1, ModWhole, Zenon
  <2>6. skipped >= 0
    OBVIOUS
  <2> QED
    BY <2>4, <2>5, <2>6, Zenon DEF Gap
<1>3. CASE lastDatagramId \in received
  <2>1. lastDatagramId \in 0 .. IdLimit /\ lastDatagramId < id
    BY <1>3 DEF TrackOK
  <2>2. CASE skipped <= lastDatagramId
    BY <1>3, <2>2
  <2>3. CASE skipped > lastDatagramId
    <3>1. id - lastDatagramId \in 0 .. WordModulus - 1
      BY <1>1, <2>1
    <3>2. (id - lastDatagramId) % WordModulus = id - lastDatagramId
      BY <1>1, <3>1, ModDifference, Zenon
    <3>3. lastDatagramId + 1 \in 0 .. WordModulus - 1
      BY <1>1, <2>1
    <3>4. (lastDatagramId + 1) % WordModulus = lastDatagramId + 1
      BY <1>1, <3>3, ModDifference, Zenon
    <3>5. id - lastDatagramId > 1 /\ skipped >= lastDatagramId + 1
      BY <2>1, <2>3
    <3> QED
      BY <3>2, <3>4, <3>5, Zenon DEF Gap
  <2> QED
    BY <2>1, <2>2, <2>3
<1> QED
  BY <1>2, <1>3 DEF TrackOK

\* Nothing is missing before the first frame set.
LEMMA InitTrack == Init => TrackInv
  BY DEF Init, TrackInv, TrackOK, GapsReported

\* A frame set's id reports what lies between it and the last one.
LEMMA BeginTrack ==
    ASSUME TrackInv, NEW id \in Nat, BeginFrameSet(id)
    PROVE  TrackInv'
<1>1. /\ missing' = (missing \ {id}) \cup Gap(id)
      /\ received' = received \cup {id}
      /\ lastDatagramId' = id
      /\ nacked' = nacked
      /\ id \in 0 .. IdLimit
  BY IdAssumption DEF BeginFrameSet, IdAccepted
<1>2. TrackOK'
  <2>1. Gap(id) \subseteq Nat
    BY <1>1 DEF Gap
  <2> QED
    BY <1>1, <2>1 DEF TrackInv, TrackOK
<1>3. ASSUME NEW highest \in received', NEW below \in 0 .. highest
      PROVE  below \in received' \cup missing' \cup nacked'
  <2>1. CASE \E other \in received : below <= other
    <3>1. PICK other \in received : below <= other
      BY <2>1
    <3>2. other \in Nat /\ below \in Nat
      BY <1>1, <3>1 DEF TrackInv, TrackOK
    <3>3. below \in received \cup missing \cup nacked
      BY <3>1, <3>2 DEF TrackInv, GapsReported
    <3> QED
      BY <1>1, <3>3
  <2>2. CASE ~ \E other \in received : below <= other
    <3>1. highest = id
      BY <1>1, <2>2 DEF TrackInv, TrackOK
    <3>2. CASE below = id
      BY <1>1, <3>2
    <3>3. CASE below # id
      <4>1. below \in 0 .. id - 1
        BY <1>1, <3>1, <3>3
      <4>2. \A other \in received : other < id
        BY <1>1, <2>2, <4>1 DEF TrackInv, TrackOK
      <4>3. below \in Gap(id)
        BY <1>1, <2>2, <4>1, <4>2, GapCovers DEF TrackInv
      <4> QED
        BY <1>1, <4>3
    <3> QED
      BY <3>2, <3>3
  <2> QED
    BY <2>1, <2>2
<1> QED
  BY <1>2, <1>3 DEF TrackInv, GapsReported

\* Every step keeps the gaps reported.
LEMMA StepTrack == TrackInv /\ [Next]_vars => TrackInv'
<1> SUFFICES ASSUME TrackInv, [Next]_vars PROVE TrackInv'
  OBVIOUS
<1>1. ASSUME NEW content \in Contents, PeerSends(content) PROVE TrackInv'
  BY <1>1 DEF PeerSends, trackVars, TrackInv, TrackOK, GapsReported
<1>2. ASSUME NEW id \in Nat, RefuseFrameSet(id) PROVE TrackInv'
  BY <1>2 DEF RefuseFrameSet, trackVars, TrackInv, TrackOK, GapsReported
<1>3. ASSUME NEW id \in Nat, BeginFrameSet(id) PROVE TrackInv'
  BY <1>3, BeginTrack
<1>4. CASE HandleCapsule
  BY <1>4 DEF HandleCapsule, trackVars, TrackInv, TrackOK, GapsReported
<1>5. CASE EndFrameSet
  BY <1>5 DEF EndFrameSet, TrackInv, TrackOK, GapsReported
<1>6. CASE UNCHANGED vars
  BY <1>6 DEF vars, trackVars, TrackInv, TrackOK, GapsReported
<1> QED
  BY <1>1, <1>2, <1>3, <1>4, <1>5, <1>6 DEF Next

\* Whatever the network loses, repeats or reorders, every frame set id below
\* the highest one received was received too or has been asked for.
THEOREM EveryGapReported == Spec => []GapsReported
<1>1. TrackInv => GapsReported
  BY DEF TrackInv
<1> QED
  BY <1>1, InitTrack, StepTrack, PTL DEF Spec

-----------------------------------------------------------------------------
(* ACKs follow the handling.                                               *)

\* The items of a sequence are its first one and those of the rest.
LEMMA HeadTailRange ==
    ASSUME NEW S, NEW seq \in Seq(S), seq # <<>>
    PROVE  /\ Tail(seq) \in Seq(S)
           /\ Range(seq) \subseteq {Head(seq)} \cup Range(Tail(seq))
<1>1. ASSUME NEW i \in DOMAIN seq, i # 1
      PROVE  seq[i] \in Range(Tail(seq))
  <2>1. i - 1 \in DOMAIN Tail(seq) /\ Tail(seq)[i - 1] = seq[i]
    BY <1>1
  <2> QED
    BY <2>1 DEF Range
<1>2. Range(seq) = {seq[i] : i \in DOMAIN seq} /\ Head(seq) = seq[1]
  BY DEF Range
<1> QED
  BY <1>1, <1>2

\* Between two frame sets nothing waits for its ACK; within one, the stack
\* holds its id alone, and each of its capsules is handled or still unread.
CurrentOK ==
    \/ current = Idle /\ ackStack = <<>>
    \/ \E id \in 0 .. Len(datagrams) - 1 :
         /\ current.id = id
         /\ current = [id |-> id, left |-> current.left]
         /\ ackStack = <<id>>
         /\ current.left \in Seq(Messages \X Nat)
         /\ Range(datagrams[id + 1]) \subseteq handled \cup Range(current.left)

AckInv ==
    /\ datagrams \in Seq(Seq(Messages \X Nat))
    /\ acked \in SUBSET (0 .. Len(datagrams) - 1)
    /\ CurrentOK
    /\ AckedWasHandled

\* Every step acknowledges only what was handled.
LEMMA StepAck == AckInv /\ [Next]_vars => AckInv'
<1> SUFFICES ASSUME AckInv, [Next]_vars PROVE AckInv'
  OBVIOUS
<1>1. ASSUME NEW content \in Contents, PeerSends(content) PROVE AckInv'
  <2>1. /\ datagrams \in Seq(Seq(Messages \X Nat))
        /\ content \in Seq(Messages \X Nat)
        /\ datagrams' = Append(datagrams, content)
        /\ UNCHANGED <<current, ackStack, acked, handled>>
    BY <1>1, ContentsAssumption DEF AckInv, PeerSends, trackVars, bodyVars
  <2>2. /\ datagrams' \in Seq(Seq(Messages \X Nat))
        /\ Len(datagrams') = Len(datagrams) + 1
        /\ Len(datagrams) \in Nat
        /\ \A id \in 0 .. Len(datagrams) - 1 : datagrams'[id + 1] = datagrams[id + 1]
    BY <2>1
  <2>3. CurrentOK'
    <3>1. CASE current = Idle /\ ackStack = <<>>
      BY <2>1, <3>1 DEF CurrentOK
    <3>2. CASE ~ (current = Idle /\ ackStack = <<>>)
      <4>1. PICK id \in 0 .. Len(datagrams) - 1 :
               /\ current.id = id
               /\ current = [id |-> id, left |-> current.left]
               /\ ackStack = <<id>>
               /\ current.left \in Seq(Messages \X Nat)
               /\ Range(datagrams[id + 1])
                    \subseteq handled \cup Range(current.left)
        BY <3>2, Zenon DEF AckInv, CurrentOK
      <4>2. id \in 0 .. Len(datagrams') - 1 /\ datagrams'[id + 1] = datagrams[id + 1]
        BY <2>2, <4>1
      <4> QED
        BY <2>1, <4>1, <4>2, Zenon DEF CurrentOK
    <3> QED
      BY <3>1, <3>2
  <2>4. AckedWasHandled'
    BY <2>1, <2>2 DEF AckInv, AckedWasHandled, Range
  <2> QED
    BY <2>1, <2>2, <2>3, <2>4 DEF AckInv
<1>2. ASSUME NEW id \in Nat, RefuseFrameSet(id) PROVE AckInv'
  BY <1>2 DEF RefuseFrameSet, trackVars, bodyVars, AckInv, CurrentOK,
              AckedWasHandled
<1>3. ASSUME NEW id \in Nat, BeginFrameSet(id) PROVE AckInv'
  <2>1. /\ current = Idle
        /\ id \in 0 .. Len(datagrams) - 1
        /\ ackStack' = Append(ackStack, id)
        /\ current' = [id |-> id, left |-> datagrams[id + 1]]
        /\ UNCHANGED <<datagrams, handled, acked>>
    BY <1>3 DEF BeginFrameSet, Arrives, networkVars, bodyVars
  <2>2. ackStack = <<>>
    <3>1. current.id = -1
      BY <2>1 DEF Idle
    <3>2. \A other \in 0 .. Len(datagrams) - 1 : current.id # other
      BY <3>1
    <3> QED
      BY <3>2, Zenon DEF AckInv, CurrentOK
  <2>3. datagrams[id + 1] \in Seq(Messages \X Nat)
    BY <2>1 DEF AckInv
  <2>4. CurrentOK'
    <3>1. ackStack' = <<id>>
      BY <2>1, <2>2
    <3>2. current'.left = datagrams[id + 1] /\ current'.id = id
      BY <2>1
    <3>3. Range(datagrams'[id + 1]) \subseteq handled' \cup Range(current'.left)
      BY <2>1, <3>2
    <3> QED
      BY <2>1, <2>3, <3>1, <3>2, <3>3 DEF CurrentOK
  <2> QED
    BY <2>1, <2>4 DEF AckInv, AckedWasHandled
<1>4. CASE HandleCapsule
  <2>1. /\ current.left # <<>>
        /\ handled' = handled \cup {Head(current.left)}
        /\ current' = [current EXCEPT !.left = Tail(@)]
        /\ UNCHANGED <<datagrams, acked, ackStack>>
    BY <1>4 DEF HandleCapsule, networkVars, trackVars
  <2>2. PICK id \in 0 .. Len(datagrams) - 1 :
           /\ current.id = id
           /\ current = [id |-> id, left |-> current.left]
           /\ ackStack = <<id>>
           /\ current.left \in Seq(Messages \X Nat)
           /\ Range(datagrams[id + 1]) \subseteq handled \cup Range(current.left)
    BY <2>1 DEF AckInv, CurrentOK, Idle
  <2>3. current' = [id |-> id, left |-> Tail(current.left)]
    BY <2>1, <2>2
  <2>4. /\ Tail(current.left) \in Seq(Messages \X Nat)
        /\ Range(current.left) \subseteq {Head(current.left)} \cup Range(Tail(current.left))
    BY <2>1, <2>2, HeadTailRange
  <2>5. CurrentOK'
    BY <2>1, <2>2, <2>3, <2>4 DEF CurrentOK
  <2>6. AckedWasHandled'
    BY <2>1 DEF AckInv, AckedWasHandled
  <2> QED
    BY <2>1, <2>5, <2>6 DEF AckInv
<1>5. CASE EndFrameSet
  <2>1. /\ current # Idle
        /\ current.left = <<>>
        /\ acked' = acked \cup Range(ackStack)
        /\ ackStack' = <<>>
        /\ current' = Idle
        /\ UNCHANGED <<datagrams, handled>>
    BY <1>5 DEF EndFrameSet, Handled, networkVars, bodyVars
  <2>2. PICK id \in 0 .. Len(datagrams) - 1 :
           /\ ackStack = <<id>>
           /\ Range(datagrams[id + 1]) \subseteq handled \cup Range(current.left)
    BY <2>1 DEF AckInv, CurrentOK
  <2>3. Range(ackStack) = {id} /\ Range(current.left) = {}
    BY <2>1, <2>2 DEF Range
  <2>4. CurrentOK'
    BY <2>1 DEF CurrentOK
  <2> QED
    BY <2>1, <2>2, <2>3, <2>4 DEF AckInv, AckedWasHandled
<1>6. CASE UNCHANGED vars
  BY <1>6 DEF vars, networkVars, trackVars, bodyVars, AckInv, CurrentOK,
              AckedWasHandled
<1> QED
  BY <1>1, <1>2, <1>3, <1>4, <1>5, <1>6 DEF Next

\* No frame set is acknowledged before the last of its capsules was handled.
THEOREM AcksFollowHandling == Spec => []AckedWasHandled
<1>1. Init => AckInv
  BY DEF Init, AckInv, CurrentOK, AckedWasHandled
<1>2. AckInv => AckedWasHandled
  BY DEF AckInv
<1> QED
  BY <1>1, <1>2, StepAck, PTL DEF Spec
-----------------------------------------------------------------------------
(* Type correctness.                                                       *)

\* The items of a sequence are those of its set.
LEMMA RangeOfSeq ==
    ASSUME NEW S, NEW seq \in Seq(S)
    PROVE  Range(seq) \subseteq S
  BY DEF Range

\* A frame set holds capsules.
LEMMA ContentOfCapsules == Contents \subseteq Seq(Capsules)
<1> SUFFICES ASSUME NEW content \in Contents PROVE content \in Seq(Capsules)
  OBVIOUS
<1>1. content \in Seq(Messages \X Nat)
  BY ContentsAssumption
<1>2. \A i \in 1 .. Len(content) : content[i] \in Capsules
  BY <1>1, ContentsAssumption DEF Capsules
<1> QED
  BY <1>1, <1>2

\* What a gap reports is within the limit of the ids.
LEMMA GapBelow ==
    ASSUME NEW id \in 0 .. IdLimit
    PROVE  Gap(id) \subseteq 0 .. IdLimit
  BY IdAssumption DEF Gap

\* The first state has the types.
LEMMA InitTypes == Init => TypeOK
  BY IdAssumption DEF Init, TypeOK, Idle

\* Beginning a frame set keeps the types.
LEMMA BeginTypes ==
    ASSUME TypeOK, NEW id \in 0 .. Len(datagrams) - 1, BeginFrameSet(id)
    PROVE  TypeOK'
<1>1. id \in 0 .. IdLimit /\ id \in 0 .. WordModulus - 1
  BY IdAssumption DEF BeginFrameSet, IdAccepted, TypeOK
<1>2. datagrams[id + 1] \in Seq(Capsules)
  <2>1. datagrams[id + 1] \in Contents
    BY DEF TypeOK
  <2> QED
    BY <2>1, ContentOfCapsules
<1>3. missing' \in SUBSET (0 .. IdLimit)
  BY <1>1, GapBelow DEF BeginFrameSet, TypeOK
<1> QED
  BY <1>1, <1>2, <1>3 DEF BeginFrameSet, TypeOK, networkVars, bodyVars

\* Handling a capsule keeps the types.
LEMMA HandleTypes ==
    ASSUME TypeOK, HandleCapsule
    PROVE  TypeOK'
<1> DEFINE capsule == Head(current.left)
<1>1. capsule \in Capsules /\ Tail(current.left) \in Seq(Capsules)
  BY DEF HandleCapsule, TypeOK
<1>2. capsule[2] \in Nat
  BY <1>1 DEF Capsules
<1>3. \A id : DOMAIN EntryOf(id) \subseteq Nat
  BY DEF EntryOf, TypeOK
<1>4. \A id : DOMAIN SetFragment(EntryOf(id), capsule) \subseteq Nat
  BY <1>2, <1>3 DEF SetFragment
<1>5. \A id \in DOMAIN rebuildTable' : DOMAIN rebuildTable'[id] \subseteq Nat
  <2>1. CASE Fragmented(capsule)
    <3> HIDE DEF capsule
    <3>1. HandleFragment(capsule)
      BY <2>1 DEF HandleCapsule, capsule
    <3> QED
      BY <1>4, <3>1 DEF HandleFragment, TypeOK
  <2>2. CASE ~ Fragmented(capsule)
    BY <2>2 DEF HandleCapsule, HandleUnfragmented, TypeOK
  <2> QED
    BY <2>1, <2>2
<1>6. current'.id = current.id /\ current'.left = Tail(current.left)
  BY DEF HandleCapsule, TypeOK
<1> QED
  BY <1>1, <1>5, <1>6 DEF HandleCapsule, TypeOK, networkVars, trackVars

\* Every step keeps the types.
LEMMA StepTypes == TypeOK /\ [Next]_vars => TypeOK'
<1> SUFFICES ASSUME TypeOK, [Next]_vars PROVE TypeOK'
  OBVIOUS
<1>1. ASSUME NEW content \in Contents, PeerSends(content) PROVE TypeOK'
  BY <1>1 DEF PeerSends, TypeOK, trackVars, bodyVars
<1>2. ASSUME NEW id \in 0 .. Len(datagrams) - 1, RefuseFrameSet(id) PROVE TypeOK'
  BY <1>2 DEF RefuseFrameSet, TypeOK, trackVars, bodyVars
<1>3. ASSUME NEW id \in 0 .. Len(datagrams) - 1, BeginFrameSet(id) PROVE TypeOK'
  BY <1>3, BeginTypes
<1>4. CASE HandleCapsule
  BY <1>4, HandleTypes
<1>5. CASE EndFrameSet
  <2>1. Range(ackStack) \subseteq 0 .. IdLimit
    <3>1. ackStack \in Seq(0 .. IdLimit)
      BY DEF TypeOK
    <3> QED
      BY <3>1, RangeOfSeq
  <2>2. acked' \in SUBSET (0 .. IdLimit)
    BY <1>5, <2>1 DEF EndFrameSet, TypeOK
  <2>3. nacked' \in SUBSET (0 .. IdLimit) /\ missing' \in SUBSET (0 .. IdLimit)
    BY <1>5 DEF EndFrameSet, TypeOK
  <2>4. current'.id \in -1 .. IdLimit /\ current'.left \in Seq(Capsules)
    BY <1>5, IdAssumption DEF EndFrameSet, Idle
  <2>5. ackStack' \in Seq(0 .. IdLimit)
    BY <1>5 DEF EndFrameSet
  <2>6. UNCHANGED <<networkVars, bodyVars, lastDatagramId, received>>
    BY <1>5 DEF EndFrameSet
  <2> QED
    BY <2>2, <2>3, <2>4, <2>5, <2>6 DEF TypeOK, networkVars, bodyVars
<1>6. CASE UNCHANGED vars
  BY <1>6 DEF vars, networkVars, trackVars, bodyVars, TypeOK
<1> QED
  BY <1>1, <1>2, <1>3, <1>4, <1>5, <1>6 DEF Next

\* Ids stay within their limit and words, capsules within their messages.
THEOREM ReceiverTypeCorrect == Spec => []TypeOK
  BY InitTypes, StepTypes, PTL DEF Spec
-----------------------------------------------------------------------------
(* What is handed on is whole.  The invariant: an entry of the rebuild table *)
(* holds parts of one message, at their places, and not all of them; and a   *)
(* capsule handled is in such an entry unless its message was handed on.     *)

PartOf(entry, m) ==
    /\ DOMAIN entry \subseteq 0 .. Parts[m] - 1
    /\ \A index \in DOMAIN entry : entry[index] = <<m, index>>

Unfinished(entry, m) == PartOf(entry, m) /\ Cardinality(DOMAIN entry) < Parts[m]

EntriesUnfinished ==
    \A id \in DOMAIN rebuildTable : \E m \in Messages :
       Parts[m] > 1 /\ FragmentId[m] = id /\ Unfinished(rebuildTable[id], m)

Kept(m, index) ==
    /\ Parts[m] > 1
    /\ FragmentId[m] \in DOMAIN rebuildTable
    /\ index \in DOMAIN rebuildTable[FragmentId[m]]

HandledKept ==
    \A capsule \in handled :
       Whole(capsule[1]) \in delivered \/ Kept(capsule[1], capsule[2])

AllWhole == \A frame \in delivered : \E m \in Messages : frame = Whole(m)

RebuildInv == EntriesUnfinished /\ handled \subseteq Capsules /\ HandledKept /\ AllWhole

\* A capsule is a part of its message.
LEMMA CapsuleParts ==
    ASSUME NEW capsule \in Capsules
    PROVE  /\ capsule[1] \in Messages
           /\ capsule[2] \in 0 .. Parts[capsule[1]] - 1
           /\ capsule = <<capsule[1], capsule[2]>>
           /\ Parts[capsule[1]] \in Nat \ {0}
  BY PartsAssumption DEF Capsules

\* A fragment put into an entry is one more part of the same message.
LEMMA AddedPart ==
    ASSUME NEW capsule \in Capsules, NEW entry, PartOf(entry, capsule[1])
    PROVE  /\ PartOf(SetFragment(entry, capsule), capsule[1])
           /\ DOMAIN SetFragment(entry, capsule) = DOMAIN entry \cup {capsule[2]}
  BY CapsuleParts DEF PartOf, SetFragment

\* A message's parts are finitely many, and as many as it says.
LEMMA PartCount ==
    ASSUME NEW n \in Nat \ {0}
    PROVE  IsFiniteSet(0 .. n - 1) /\ Cardinality(0 .. n - 1) = n
<1> DEFINE last == n - 1
<1>1. last \in Nat /\ last - 0 + 1 = n
  OBVIOUS
<1> HIDE DEF last
<1>2. IsFiniteSet(0 .. last) /\ Cardinality(0 .. last) = last - 0 + 1
  BY <1>1, FS_Interval
<1> QED
  BY <1>1, <1>2 DEF last

\* The parts that arrived have a number.
LEMMA SubsetOfInterval ==
    ASSUME NEW n \in Nat \ {0}, NEW S \in SUBSET (0 .. n - 1)
    PROVE  Cardinality(S) \in Nat
  BY PartCount, FS_Subset, FS_CardinalityType

\* Parts as many as the message has are all of them.
LEMMA EveryPart ==
    ASSUME NEW m \in Messages, NEW entry, PartOf(entry, m),
           Cardinality(DOMAIN entry) >= Parts[m]
    PROVE  DOMAIN entry = 0 .. Parts[m] - 1
<1>1. Parts[m] \in Nat \ {0}
  BY PartsAssumption
<1>2. DOMAIN entry \in SUBSET (0 .. Parts[m] - 1)
  BY DEF PartOf
<1>3. /\ Cardinality(DOMAIN entry) <= Parts[m]
      /\ Parts[m] = Cardinality(DOMAIN entry) => 0 .. Parts[m] - 1 = DOMAIN entry
  BY <1>1, <1>2, PartCount, FS_Subset
<1>4. Cardinality(DOMAIN entry) \in Nat
  BY <1>1, <1>2, SubsetOfInterval
<1>5. Parts[m] = Cardinality(DOMAIN entry)
  BY <1>1, <1>3, <1>4
<1> QED
  BY <1>3, <1>5

\* A capsule that is not split is its message.
LEMMA SingleIsWhole ==
    ASSUME NEW capsule \in Capsules, ~ Fragmented(capsule)
    PROVE  [index \in {0} |-> capsule] = Whole(capsule[1])
<1>1. Parts[capsule[1]] = 1 /\ capsule[2] = 0
  BY CapsuleParts DEF Fragmented
<1>2. 0 .. Parts[capsule[1]] - 1 = {0}
  BY <1>1
<1>3. capsule = <<capsule[1], 0>>
  BY <1>1, CapsuleParts
<1> QED
  BY <1>2, <1>3 DEF Whole

\* An entry with as many parts as the message has is the message.
LEMMA CompleteIsWhole ==
    ASSUME NEW capsule \in Capsules, NEW entry, PartOf(entry, capsule[1]),
           Complete(SetFragment(entry, capsule), capsule)
    PROVE  SetFragment(entry, capsule) = Whole(capsule[1])
<1> DEFINE whole == SetFragment(entry, capsule)
<1>1. PartOf(whole, capsule[1])
  BY AddedPart
<1>2. DOMAIN whole = 0 .. Parts[capsule[1]] - 1
  BY <1>1, EveryPart, CapsuleParts DEF Complete
<1>3. \A index \in DOMAIN whole : whole[index] = <<capsule[1], index>>
  BY <1>1 DEF PartOf
<1>4. whole = [index \in DOMAIN whole |-> whole[index]]
  BY DEF SetFragment
<1> QED
  BY <1>2, <1>3, <1>4 DEF Whole

\* The entry of a fragment's id is one of its own message.
LEMMA EntryOfMessage ==
    ASSUME RebuildInv, NEW capsule \in Capsules, Fragmented(capsule)
    PROVE  PartOf(EntryOf(FragmentId[capsule[1]]), capsule[1])
<1> DEFINE id == FragmentId[capsule[1]]
<1>1. CASE id \in DOMAIN rebuildTable
  <2>1. PICK m \in Messages :
          Parts[m] > 1 /\ FragmentId[m] = id /\ Unfinished(rebuildTable[id], m)
    BY <1>1 DEF RebuildInv, EntriesUnfinished
  <2>2. m = capsule[1]
    BY <2>1, CapsuleParts, FragmentIdAssumption DEF Fragmented
  <2> QED
    BY <1>1, <2>1, <2>2 DEF Unfinished, EntryOf
<1>2. CASE id \notin DOMAIN rebuildTable
  <2>1. EntryOf(id) = <<>>
    BY <1>2 DEF EntryOf
  <2> QED
    BY <2>1 DEF PartOf
<1> QED
  BY <1>1, <1>2

\* A fragment is kept, or completes a message and is handed on with it.
LEMMA FragmentRebuilds ==
    ASSUME RebuildInv, NEW capsule \in Capsules, Fragmented(capsule),
           HandleFragment(capsule), handled' = handled \cup {capsule}
    PROVE  RebuildInv'
<1> DEFINE m == capsule[1]
           id == FragmentId[m]
           entry == SetFragment(EntryOf(id), capsule)
<1>1. m \in Messages /\ Parts[m] \in Nat \ {0} /\ Parts[m] > 1
  BY CapsuleParts DEF Fragmented
<1>2. PartOf(EntryOf(id), m)
  BY EntryOfMessage
<1>3. PartOf(entry, m) /\ DOMAIN entry = DOMAIN EntryOf(id) \cup {capsule[2]}
  BY <1>2, AddedPart
<1>4. handled' \subseteq Capsules
  BY DEF RebuildInv
\* Only this message has fragments of this id.
<1>5. \A n \in Messages : Parts[n] > 1 /\ FragmentId[n] = id => n = m
  BY <1>1, FragmentIdAssumption
<1>6. CASE Complete(entry, capsule)
  <2>1. /\ rebuildTable' = [other \in DOMAIN rebuildTable \ {id} |->
                              rebuildTable[other]]
        /\ delivered' = delivered \cup {entry}
    BY <1>6 DEF HandleFragment
  <2>2. entry = Whole(m)
    BY <1>2, <1>6, CompleteIsWhole
  <2> HIDE DEF entry
  <2>3. EntriesUnfinished'
    BY <2>1 DEF RebuildInv, EntriesUnfinished, Unfinished, PartOf
  <2>4. HandledKept'
    <3> SUFFICES ASSUME NEW other \in handled'
                 PROVE  (Whole(other[1]) \in delivered \/ Kept(other[1], other[2]))'
      BY DEF HandledKept
    <3>1. CASE other = capsule
      BY <2>1, <2>2, <3>1
    <3>2. CASE other \in handled /\ Whole(other[1]) \in delivered
      BY <2>1, <3>2
    <3>3. CASE other \in handled /\ Kept(other[1], other[2])
      <4>1. other[1] \in Messages
        BY <3>3, CapsuleParts DEF RebuildInv
      <4>2. CASE FragmentId[other[1]] = id
        BY <1>5, <2>1, <2>2, <3>3, <4>1, <4>2 DEF Kept
      <4>3. CASE FragmentId[other[1]] # id
        BY <2>1, <3>3, <4>3 DEF Kept
      <4> QED
        BY <4>2, <4>3
    <3> QED
      BY <3>1, <3>2, <3>3 DEF RebuildInv, HandledKept
  <2>5. AllWhole'
    BY <1>1, <2>1, <2>2 DEF RebuildInv, AllWhole
  <2> QED
    BY <1>4, <2>3, <2>4, <2>5 DEF RebuildInv
<1>7. CASE ~ Complete(entry, capsule)
  <2>1. /\ rebuildTable' = [other \in DOMAIN rebuildTable \cup {id} |->
                              IF other = id THEN entry ELSE rebuildTable[other]]
        /\ delivered' = delivered
    BY <1>7 DEF HandleFragment
  <2>2. Unfinished(entry, m)
    <3>1. DOMAIN entry \subseteq 0 .. Parts[m] - 1
      BY <1>3 DEF PartOf
    <3>2. Cardinality(DOMAIN entry) \in Nat
      BY <1>1, <3>1, SubsetOfInterval
    <3> QED
      BY <1>1, <1>3, <1>7, <3>2 DEF Unfinished, Complete
  <2>3. id \in DOMAIN rebuildTable =>
          DOMAIN rebuildTable[id] \subseteq DOMAIN entry
    BY <1>3 DEF EntryOf
  <2>4. capsule[2] \in DOMAIN entry
    BY <1>3
  <2> HIDE DEF entry
  <2>5. EntriesUnfinished'
    <3> SUFFICES ASSUME NEW other \in DOMAIN rebuildTable'
                 PROVE  \E n \in Messages :
                           /\ Parts[n] > 1
                           /\ FragmentId[n] = other
                           /\ Unfinished(rebuildTable'[other], n)
      BY DEF EntriesUnfinished, Unfinished, PartOf
    <3>1. CASE other = id
      BY <1>1, <2>1, <2>2, <3>1
    <3>2. CASE other # id
      BY <2>1, <3>2 DEF RebuildInv, EntriesUnfinished
    <3> QED
      BY <3>1, <3>2
  <2>6. HandledKept'
    <3> SUFFICES ASSUME NEW other \in handled'
                 PROVE  (Whole(other[1]) \in delivered \/ Kept(other[1], other[2]))'
      BY DEF HandledKept
    <3>1. CASE other = capsule
      BY <1>1, <2>1, <2>4, <3>1 DEF Kept
    <3>2. CASE other \in handled /\ Whole(other[1]) \in delivered
      BY <2>1, <3>2
    <3>3. CASE other \in handled /\ Kept(other[1], other[2])
      BY <2>1, <2>3, <3>3 DEF Kept
    <3> QED
      BY <3>1, <3>2, <3>3 DEF RebuildInv, HandledKept
  <2>7. AllWhole'
    BY <2>1 DEF RebuildInv, AllWhole
  <2> QED
    BY <1>4, <2>5, <2>6, <2>7 DEF RebuildInv
<1> QED
  BY <1>6, <1>7

\* What is not split is handed on at once.
LEMMA UnfragmentedRebuilds ==
    ASSUME RebuildInv, NEW capsule \in Capsules, ~ Fragmented(capsule),
           HandleUnfragmented(capsule), handled' = handled \cup {capsule}
    PROVE  RebuildInv'
<1>1. delivered' = delivered \cup {Whole(capsule[1])} /\ rebuildTable' = rebuildTable
  BY SingleIsWhole DEF HandleUnfragmented
<1>2. capsule[1] \in Messages
  BY CapsuleParts
<1>3. EntriesUnfinished'
  BY <1>1 DEF RebuildInv, EntriesUnfinished, Unfinished, PartOf
<1>4. HandledKept'
  BY <1>1 DEF RebuildInv, HandledKept, Kept
<1>5. AllWhole'
  BY <1>1, <1>2 DEF RebuildInv, AllWhole
<1> QED
  BY <1>3, <1>4, <1>5 DEF RebuildInv

\* Every step keeps what was handled in the table or handed on.
LEMMA StepRebuild == TypeOK /\ RebuildInv /\ [Next]_vars => RebuildInv'
<1> SUFFICES ASSUME TypeOK, RebuildInv, [Next]_vars PROVE RebuildInv'
  OBVIOUS
<1>1. CASE UNCHANGED bodyVars
  BY <1>1 DEF bodyVars, RebuildInv, EntriesUnfinished, Unfinished, PartOf,
              HandledKept, Kept, AllWhole
<1>2. CASE HandleCapsule
  <2> DEFINE capsule == Head(current.left)
  <2>1. capsule \in Capsules
    BY <1>2 DEF HandleCapsule, TypeOK
  <2>2. handled' = handled \cup {capsule}
    BY <1>2 DEF HandleCapsule
  <2>3. IF Fragmented(capsule) THEN HandleFragment(capsule)
                               ELSE HandleUnfragmented(capsule)
    BY <1>2 DEF HandleCapsule
  <2> QED
    BY <2>1, <2>2, <2>3, FragmentRebuilds, UnfragmentedRebuilds
<1>3. HandleCapsule \/ UNCHANGED bodyVars
  BY DEF Next, PeerSends, RefuseFrameSet, BeginFrameSet, EndFrameSet, vars
<1> QED
  BY <1>1, <1>2, <1>3

\* All parts of a message not handed on would make its entry a whole one.
LEMMA NothingLeftBehind == RebuildInv => DeliveredWhole
<1> SUFFICES ASSUME RebuildInv, NEW m \in Messages, Whole(m) \notin delivered,
                    \A index \in 0 .. Parts[m] - 1 : <<m, index>> \in handled
             PROVE  FALSE
  BY DEF RebuildInv, AllWhole, DeliveredWhole
<1>1. Parts[m] \in Nat \ {0}
  BY PartsAssumption
<1>2. \A index \in 0 .. Parts[m] - 1 : Kept(m, index)
  BY DEF RebuildInv, HandledKept
<1>3. Kept(m, 0)
  BY <1>1, <1>2
<1> DEFINE entry == rebuildTable[FragmentId[m]]
<1>4. Unfinished(entry, m)
  BY <1>3, FragmentIdAssumption DEF Kept, RebuildInv, EntriesUnfinished
<1>5. DOMAIN entry = 0 .. Parts[m] - 1
  BY <1>2, <1>4 DEF Kept, Unfinished, PartOf
<1>6. Cardinality(DOMAIN entry) = Parts[m]
  BY <1>1, <1>5, PartCount
<1> QED
  BY <1>1, <1>4, <1>6 DEF Unfinished

\* Fragments are rebuilt into whole messages, and no complete one is forgotten.
THEOREM MessagesRebuilt == Spec => []DeliveredWhole
<1>1. Init => RebuildInv
  BY DEF Init, RebuildInv, EntriesUnfinished, HandledKept, AllWhole
<1> QED
  BY <1>1, StepRebuild, NothingLeftBehind, ReceiverTypeCorrect, PTL DEF Spec
=============================================================================

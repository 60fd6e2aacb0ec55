------------------------- MODULE AckDatagram_proofs -------------------------
(***************************************************************************)
(* For every sequence of ids, and bytes of any size: the ranges made of it *)
(* hold exactly its ids (AckRanges); and what sendAck writes of them fills *)
(* the buffer it sized before, and is what handleAck and handleNack look   *)
(* up (AckDatagram).                                                       *)
(*                                                                         *)
(* The reader is tied to the writer by where each range lies: Offset says  *)
(* how many bytes the first ranges take, in the buffer, in what is written *)
(* and in what is read.                                                    *)
(***************************************************************************)
EXTENDS AckDatagram, FiniteSetTheorems, TLAPS

-----------------------------------------------------------------------------
(* The ranges.                                                             *)

Covered == UNION {IdsOf(range) : range \in Range(ranges)}

Seen == {sequence[j] : j \in 1 .. i - 1}

\* The finished ranges and the one being grown hold the ids seen so far.
LoopInv ==
    /\ TypeOK
    /\ ~ done => /\ i \in 2 .. Len(sequence) + 1
                 /\ min <= max
                 /\ Covered \cup (min .. max) = Seen
    /\ RoundTrip

\* Appending an item adds it to what the sequence holds.
LEMMA AppendCovers ==
    ASSUME NEW S, NEW seq \in Seq(S), NEW item
    PROVE  Range(Append(seq, item)) = Range(seq) \cup {item}
<1>1. /\ DOMAIN Append(seq, item) = DOMAIN seq \cup {Len(seq) + 1}
      /\ \A j \in DOMAIN seq : Append(seq, item)[j] = seq[j]
      /\ Append(seq, item)[Len(seq) + 1] = item
  OBVIOUS
<1> QED
  BY <1>1 DEF Range

\* The loop's next turn sees the next id.
LEMMA SeenNext ==
    ASSUME NEW n \in Nat \ {0}, i = n, i' = n + 1, sequence' = sequence
    PROVE  Seen' = Seen \cup {sequence[n]}
<1>1. 1 .. (n + 1) - 1 = (1 .. n - 1) \cup {n}
  OBVIOUS
<1> QED
  BY <1>1 DEF Seen

\* It holds before the loop.
LEMMA InitLoop == Init => LoopInv
<1> SUFFICES ASSUME Init PROVE LoopInv
  OBVIOUS
<1>1. sequence \in Seq(Nat)
  BY SequencesAssumption DEF Init
<1>2. Covered = {}
  BY DEF Init, Covered, Range
<1>3. i = 2 /\ max = min /\ ranges = <<>> /\ done = (sequence = <<>>)
  BY DEF Init
<1>4. CASE sequence = <<>>
  <2>1. min = 0 /\ Range(sequence) = {}
    BY <1>4 DEF Init, Range
  <2>2. TypeOK
    BY <1>1, <1>3, <1>4, <2>1 DEF TypeOK
  <2>3. RoundTrip
    BY <1>2, <2>1 DEF RoundTrip, Covered
  <2> QED
    BY <1>3, <1>4, <2>2, <2>3 DEF LoopInv
<1>5. CASE sequence # <<>>
  <2>1. min = Head(sequence)
    BY <1>5 DEF Init
  <2>2. /\ min = sequence[1] /\ min \in Nat
        /\ Len(sequence) \in Nat \ {0}
    BY <1>1, <1>5, <2>1
  <2>3. ~ done
    BY <1>3, <1>5
  <2>4. Seen = {sequence[1]}
    BY <1>3 DEF Seen
  <2>5. min .. max = {sequence[1]}
    BY <1>3, <2>2
  <2>6. TypeOK
    BY <1>1, <1>3, <2>2, <2>3 DEF TypeOK
  <2>7. i \in 2 .. Len(sequence) + 1 /\ min <= max
    BY <1>3, <2>2
  <2> QED
    BY <1>2, <2>3, <2>4, <2>5, <2>6, <2>7 DEF LoopInv, RoundTrip
<1> QED
  BY <1>4, <1>5

\* It holds after each turn, and after the return.
LEMMA StepLoop == LoopInv /\ [Next]_vars => LoopInv'
<1> SUFFICES ASSUME LoopInv, [Next]_vars PROVE LoopInv'
  OBVIOUS
<1>1. CASE Extend
  <2>1. /\ i \in 2 .. Len(sequence) /\ ~ done /\ done' = done
        /\ i' = i + 1 /\ max' = max + 1 /\ max' = sequence[i]
        /\ UNCHANGED <<sequence, min, ranges>>
        /\ sequence \in Seq(Nat) /\ min \in Nat /\ max \in Nat /\ min <= max
        /\ Covered \cup (min .. max) = Seen
    BY <1>1 DEF Extend, InLoop, Continues, LoopInv, TypeOK
  <2>2. Seen' = Seen \cup {sequence[i]}
    BY <2>1, SeenNext
  <2>3. min' .. max' = (min .. max) \cup {sequence[i]}
    BY <2>1
  <2>4. Covered' = Covered
    BY <2>1 DEF Covered
  <2>5. TypeOK'
    BY <2>1 DEF LoopInv, TypeOK
  <2> QED
    BY <2>1, <2>2, <2>3, <2>4, <2>5 DEF LoopInv, RoundTrip
<1>2. ASSUME Split \/ Return
      PROVE  Covered' = Covered \cup (min .. max)
  <2>1. ranges' = Append(ranges, <<min, max>>) /\ ranges \in Seq(Nat \X Nat)
    BY <1>2 DEF Split, Return, LoopInv, TypeOK
  <2>2. Range(ranges') = Range(ranges) \cup {<<min, max>>}
    BY <2>1, AppendCovers
  <2>3. IdsOf(<<min, max>>) = min .. max
    BY DEF IdsOf
  <2> QED
    BY <2>2, <2>3, Zenon DEF Covered
<1>3. CASE Split
  <2>1. /\ i \in 2 .. Len(sequence) /\ ~ done /\ done' = done
        /\ i' = i + 1 /\ max' = sequence[i] /\ min' = sequence[i]
        /\ sequence' = sequence
        /\ ranges' = Append(ranges, <<min, max>>) /\ ranges \in Seq(Nat \X Nat)
        /\ sequence \in Seq(Nat) /\ min \in Nat /\ max \in Nat
        /\ Covered \cup (min .. max) = Seen
    BY <1>3 DEF Split, InLoop, LoopInv, TypeOK
  <2>2. Seen' = Seen \cup {sequence[i]}
    BY <2>1, SeenNext
  <2>3. min' .. max' = {sequence[i]}
    BY <2>1
  <2>4. TypeOK'
    BY <2>1 DEF LoopInv, TypeOK
  <2> QED
    BY <1>2, <1>3, <2>1, <2>2, <2>3, <2>4 DEF LoopInv, RoundTrip
<1>4. CASE Return
  <2>1. /\ i = Len(sequence) + 1 /\ ~ done /\ done' = TRUE
        /\ UNCHANGED <<sequence, i, min, max>>
        /\ ranges' = Append(ranges, <<min, max>>) /\ ranges \in Seq(Nat \X Nat)
        /\ sequence \in Seq(Nat) /\ min \in Nat /\ max \in Nat
        /\ Covered \cup (min .. max) = Seen
    BY <1>4 DEF Return, LoopInv, TypeOK
  <2>2. Seen = Range(sequence)
    BY <2>1 DEF Seen, Range
  <2>3. RoundTrip'
    BY <1>2, <1>4, <2>1, <2>2 DEF RoundTrip, Covered
  <2>4. TypeOK'
    BY <2>1 DEF LoopInv, TypeOK
  <2> QED
    BY <2>1, <2>3, <2>4 DEF LoopInv
<1>5. CASE UNCHANGED vars
  BY <1>5 DEF vars, LoopInv, TypeOK, RoundTrip, Covered, Seen
<1> QED
  BY <1>1, <1>3, <1>4, <1>5 DEF Next

\* What the reader of an ACK or NACK visits is what the writer meant, for every
\* sequence of ids.
THEOREM RangesRoundTrip == Spec => []RoundTrip
<1>1. LoopInv => RoundTrip
  BY DEF LoopInv
<1> QED
  BY <1>1, InitLoop, StepLoop, PTL DEF Spec
-----------------------------------------------------------------------------
(* Bytes of any number of values.                                          *)

\* A quotient is the one with a remainder below the divisor.
LEMMA DivisionUnique ==
  ASSUME NEW d \in Nat \ {0}, NEW q \in Nat, NEW r \in 0 .. d - 1
  PROVE  (q * d + r) \div d = q /\ (q * d + r) % d = r
<1> DEFINE n == q * d + r
           p == n \div d
           s == n % d
<1>1. q * d \in Nat /\ n \in Nat
  OBVIOUS
<1>2. p \in Int /\ s \in 0 .. d - 1 /\ n = p * d + s
  BY <1>1
<1>3. p * d \in Int /\ p * d + s = q * d + r
  BY <1>2
<1> HIDE DEF p, s, n
<1>4. CASE p > q
  <2>1. (p - q) * d >= d
    BY <1>2, <1>4
  <2>2. (p - q) * d = p * d - q * d
    BY <1>2
  <2> QED
    BY <1>1, <1>2, <1>3, <2>1, <2>2
<1>5. CASE p < q
  <2>1. (q - p) * d >= d
    BY <1>2, <1>5
  <2>2. (q - p) * d = q * d - p * d
    BY <1>2
  <2> QED
    BY <1>1, <1>2, <1>3, <2>1, <2>2
<1>6. CASE p = q
  BY <1>1, <1>2, <1>3, <1>6 DEF p, s, n
<1> QED
  BY <1>2, <1>4, <1>5, <1>6

\* Two bytes hold what is below the square of their values.
LEMMA TwoBytes ==
  ASSUME NEW B \in Nat \ {0}, NEW n \in 0 .. B * B - 1
  PROVE  ((n \div B) % B) * B + (n % B) = n
<1>1. /\ n \div B \in Nat /\ n % B \in 0 .. B - 1
      /\ n = (n \div B) * B + (n % B) /\ B * B \in Nat
  OBVIOUS
<1> DEFINE q == n \div B
<1> HIDE DEF q
<1>2. q < B
  <2>1. SUFFICES ASSUME q >= B PROVE FALSE
    BY <1>1 DEF q
  <2>2. q * B >= B * B
    BY <1>1, <2>1 DEF q
  <2> QED
    BY <1>1, <2>2 DEF q
<1>3. q % B = q
  BY <1>1, <1>2 DEF q
<1> QED
  BY <1>1, <1>3 DEF q

\* Three bytes hold what is below the cube.
LEMMA ThreeBytes ==
  ASSUME NEW B \in Nat \ {0}, NEW n \in 0 .. B * B * B - 1
  PROVE  (n % B) + ((n \div B) % B) * B + ((n \div (B * B)) % B) * (B * B) = n
<1> DEFINE q == n \div B
           r == n % B
           h == q \div B
           m == q % B
<1>1. q \in Nat /\ r \in 0 .. B - 1 /\ n = q * B + r
  OBVIOUS
<1> HIDE DEF q, r
<1>2. h \in Nat /\ m \in 0 .. B - 1 /\ q = h * B + m
  BY <1>1
<1> HIDE DEF h, m
<1>3. m * B + r \in 0 .. B * B - 1 /\ B * B \in Nat \ {0}
  <2>1. m * B <= (B - 1) * B /\ m * B \in Nat
    BY <1>2
  <2>2. (B - 1) * B = B * B - B /\ B * B \in Nat
    OBVIOUS
  <2>3. B * B > 0
    OBVIOUS
  <2> QED
    BY <1>1, <2>1, <2>2, <2>3
<1>4. n = h * (B * B) + (m * B + r)
  <2>1. q * B = (h * B) * B + m * B
    BY <1>2
  <2>2. (h * B) * B = h * (B * B)
    BY <1>2
  <2> QED
    BY <1>1, <1>2, <2>1, <2>2
<1>5. n \div (B * B) = h
  BY <1>2, <1>3, <1>4, DivisionUnique
<1>6. h < B
  <2>1. SUFFICES ASSUME h >= B PROVE FALSE
    BY <1>2
  <2>2. h * (B * B) >= B * (B * B)
    BY <1>2, <1>3, <2>1
  <2>3. B * (B * B) = B * B * B /\ B * B * B \in Nat /\ h * (B * B) \in Nat
    BY <1>2
  <2> QED
    BY <1>3, <1>4, <2>2, <2>3
<1>7. h % B = h
  BY <1>2, <1>6
<1>8. n \div B = q /\ n % B = r /\ q % B = m
  BY DEF q, r, m
<1> QED
  BY <1>1, <1>2, <1>3, <1>4, <1>5, <1>7, <1>8

-----------------------------------------------------------------------------
(* What the ranges are, once they are made.                                *)

\* No range is upside down, and one is made for each break in the ids.
RangesInv ==
    /\ sequence \in Sequences
    /\ \A k \in DOMAIN ranges : ranges[k][1] <= ranges[k][2]
    /\ ~ done => max = sequence[i - 1] /\ Len(ranges) = Cardinality(Breaks(sequence, i - 1))
    /\ done => Len(ranges) <= Cardinality(Breaks(sequence, Len(sequence))) + 1

\* One more id is one more break, or none.
LEMMA BreaksNext ==
    ASSUME NEW ids, NEW n \in Nat \ {0}
    PROVE  /\ Cardinality(Breaks(ids, n)) \in Nat
           /\ ids[n + 1] = ids[n] + 1 => Breaks(ids, n + 1) = Breaks(ids, n)
           /\ ids[n + 1] # ids[n] + 1 =>
                Cardinality(Breaks(ids, n + 1)) = Cardinality(Breaks(ids, n)) + 1
<1>1. IsFiniteSet(2 .. n) /\ Breaks(ids, n) \subseteq 2 .. n
  BY FS_Interval DEF Breaks
<1>2. IsFiniteSet(Breaks(ids, n)) /\ Cardinality(Breaks(ids, n)) \in Nat
  BY <1>1, FS_Subset, FS_CardinalityType
<1>3. 2 .. n + 1 = (2 .. n) \cup {n + 1} /\ n + 1 \notin 2 .. n /\ n + 1 - 1 = n
  OBVIOUS
<1>4. ASSUME ids[n + 1] = ids[n] + 1 PROVE Breaks(ids, n + 1) = Breaks(ids, n)
  BY <1>3, <1>4 DEF Breaks
<1>5. ASSUME ids[n + 1] # ids[n] + 1
      PROVE  Cardinality(Breaks(ids, n + 1)) = Cardinality(Breaks(ids, n)) + 1
  <2>1. Breaks(ids, n + 1) = Breaks(ids, n) \cup {n + 1} /\ n + 1 \notin Breaks(ids, n)
    BY <1>3, <1>5 DEF Breaks
  <2> QED
    BY <1>2, <2>1, FS_AddElement
<1> QED
  BY <1>2, <1>4, <1>5

\* It holds before the loop, and after each step of it.
LEMMA RangesKept ==
    /\ Init => RangesInv
    /\ LoopInv /\ RangesInv /\ [Next]_vars => RangesInv'
<1>1. ASSUME Init PROVE RangesInv
  <2>1. ranges = <<>> /\ i = 2 /\ sequence \in Sequences /\ sequence \in Seq(Nat)
    BY <1>1, SequencesAssumption DEF Init
  <2>2. Len(ranges) = 0 /\ Len(sequence) \in Nat /\ DOMAIN ranges = {}
    BY <2>1
  <2>3. ASSUME ~ done PROVE max = sequence[1]
    <3>1. sequence # <<>> /\ min = Head(sequence) /\ max = min
      BY <1>1, <2>3 DEF Init
    <3> QED
      BY <2>1, <3>1
  <2>4. Breaks(sequence, 1) = {} /\ i - 1 = 1
    BY <2>1 DEF Breaks
  <2>5. Cardinality(Breaks(sequence, 1)) = 0
    BY <2>4, FS_EmptySet
  <2>6. ASSUME done PROVE Cardinality(Breaks(sequence, Len(sequence))) + 1 = 1
    <3>1. sequence = <<>>
      BY <1>1, <2>6 DEF Init
    <3>2. Len(sequence) = 0
      BY <3>1
    <3>3. Breaks(sequence, Len(sequence)) = {}
      BY <3>2 DEF Breaks
    <3> QED
      BY <3>3, FS_EmptySet
  <2> QED
    BY <2>1, <2>2, <2>3, <2>4, <2>5, <2>6 DEF RangesInv
<1>2. ASSUME LoopInv, RangesInv, [Next]_vars PROVE RangesInv'
  <2> DEFINE made == Cardinality(Breaks(sequence, i - 1))
  <2>1. ASSUME ~ done
        PROVE  /\ made \in Nat /\ max = sequence[i - 1] /\ Len(ranges) = made
               /\ i - 1 \in Nat \ {0} /\ i \in Nat /\ i - 1 + 1 = i /\ i + 1 - 1 = i
               /\ i \in 2 .. Len(sequence) + 1 /\ Len(sequence) \in Nat
               /\ ranges \in Seq(Nat \X Nat) /\ min \in Nat /\ max \in Nat /\ min <= max
    <3>1. /\ i \in 2 .. Len(sequence) + 1 /\ i \in Nat /\ sequence \in Seq(Nat)
          /\ ranges \in Seq(Nat \X Nat) /\ min \in Nat /\ max \in Nat /\ min <= max
          /\ max = sequence[i - 1] /\ Len(ranges) = made
      BY <1>2, <2>1 DEF LoopInv, TypeOK, RangesInv
    <3>2. i - 1 \in Nat \ {0} /\ i - 1 + 1 = i /\ i + 1 - 1 = i /\ Len(sequence) \in Nat
      BY <3>1
    <3>3. made \in Nat
      BY <3>2, BreaksNext
    <3> QED
      BY <3>1, <3>2, <3>3
  <2> HIDE DEF made
  <2>2. CASE Extend
    <3>1. /\ UNCHANGED <<sequence, ranges, done>> /\ ~ done /\ i' = i + 1
          /\ max' = sequence[i] /\ sequence[i] = max + 1
      BY <2>2 DEF Extend, InLoop, Continues
    <3>2. Breaks(sequence, i) = Breaks(sequence, i - 1)
      BY <2>1, <3>1, BreaksNext
    <3>3. Len(ranges) = Cardinality(Breaks(sequence, i))
      BY <2>1, <3>1, <3>2 DEF made
    <3>4. i' - 1 = i
      BY <2>1, <3>1
    <3> QED
      BY <1>2, <3>1, <3>3, <3>4 DEF RangesInv
  <2>3. ASSUME Split \/ Return
        PROVE  /\ \A k \in DOMAIN ranges' : ranges'[k][1] <= ranges'[k][2]
               /\ Len(ranges') = made + 1 /\ sequence' = sequence
    <3>1. ranges' = Append(ranges, <<min, max>>) /\ ~ done /\ sequence' = sequence
      BY <2>3 DEF Split, Return, InLoop
    <3>2. <<min, max>> \in Nat \X Nat /\ ranges \in Seq(Nat \X Nat) /\ Len(ranges) \in Nat
      BY <2>1, <3>1
    <3>3. /\ Len(ranges') = Len(ranges) + 1
          /\ \A k \in DOMAIN ranges' :
               (k \in DOMAIN ranges /\ ranges'[k] = ranges[k]) \/ ranges'[k] = <<min, max>>
      BY <3>1, <3>2
    <3>4. \A k \in DOMAIN ranges' : ranges'[k][1] <= ranges'[k][2]
      BY <1>2, <2>1, <3>1, <3>3 DEF RangesInv
    <3> QED
      BY <2>1, <3>1, <3>3, <3>4
  <2>4. CASE Split
    <3>1. ~ done /\ done' = done /\ i' = i + 1 /\ max' = sequence[i] /\ sequence[i] # max + 1
      BY <2>4 DEF Split, InLoop, Continues
    <3>2. Cardinality(Breaks(sequence, i)) = made + 1
      BY <2>1, <3>1, BreaksNext DEF made
    <3>3. i' - 1 = i
      BY <2>1, <3>1
    <3> QED
      BY <1>2, <2>3, <2>4, <3>1, <3>2, <3>3 DEF RangesInv
  <2>5. CASE Return
    <3>1. ~ done /\ done' /\ i > Len(sequence)
      BY <2>5 DEF Return
    <3>2. i - 1 = Len(sequence)
      BY <2>1, <3>1
    <3>3. Len(ranges') <= Cardinality(Breaks(sequence, Len(sequence))) + 1
      BY <2>1, <2>3, <2>5, <3>1, <3>2 DEF made
    <3> QED
      BY <1>2, <2>3, <2>5, <3>1, <3>3 DEF RangesInv
  <2>6. CASE UNCHANGED vars
    BY <1>2, <2>6 DEF vars, RangesInv
  <2> QED
    BY <1>2, <2>2, <2>4, <2>5, <2>6 DEF Next
<1> QED
  BY <1>1, <1>2

\* The ids of the first ranges.
VisitedBy(n) == UNION {IdsOf(ranges[k]) : k \in 1 .. n}

\* The ranges that are written hold ids of the wire, those of the sequence.
LEMMA RangesMade ==
    ASSUME LoopInv, RangesInv, done
    PROVE  /\ Len(ranges) \in 0 .. Base * Base - 1 /\ DOMAIN ranges = 1 .. Len(ranges)
           /\ \A k \in 1 .. Len(ranges) :
                /\ ranges[k] \in Nat \X Nat /\ ranges[k][1] <= ranges[k][2]
                /\ ranges[k][2] \in 0 .. Uint24Values - 1
                /\ ranges[k][1] \in 0 .. Uint24Values - 1
           /\ \A n \in 0 .. Len(ranges) : VisitedBy(n) \subseteq Range(sequence)
           /\ VisitedBy(Len(ranges)) = Range(sequence)
<1>1. /\ ranges \in Seq(Nat \X Nat) /\ sequence \in Seq(Nat)
      /\ UNION {IdsOf(range) : range \in Range(ranges)} = Range(sequence)
  BY DEF LoopInv, TypeOK, RoundTrip
<1>2. Len(ranges) \in Nat /\ DOMAIN ranges = 1 .. Len(ranges) /\ Len(sequence) \in Nat
  BY <1>1
<1>3. /\ Cardinality(Breaks(sequence, Len(sequence))) + 1 < Base * Base
      /\ Range(sequence) \subseteq 0 .. Uint24Values - 1 /\ Base * Base \in Nat
  BY IdAssumption, WidthAssumption DEF RangesInv
<1>4. Cardinality(Breaks(sequence, Len(sequence))) \in Nat
  <2>1. IsFiniteSet(2 .. Len(sequence))
    BY <1>2, FS_Interval
  <2>2. Breaks(sequence, Len(sequence)) \subseteq 2 .. Len(sequence)
    BY DEF Breaks
  <2> QED
    BY <2>1, <2>2, FS_Subset, FS_CardinalityType
<1>5. VisitedBy(Len(ranges)) = Range(sequence)
  BY <1>1, <1>2 DEF VisitedBy, Range
<1>6. \A n \in 0 .. Len(ranges) : VisitedBy(n) \subseteq VisitedBy(Len(ranges))
  <2>1. \A n \in 0 .. Len(ranges) : 1 .. n \subseteq 1 .. Len(ranges)
    BY <1>2
  <2> QED
    BY <2>1 DEF VisitedBy
<1>7. ASSUME NEW k \in 1 .. Len(ranges)
      PROVE  /\ ranges[k] \in Nat \X Nat /\ ranges[k][1] <= ranges[k][2]
             /\ ranges[k][2] \in 0 .. Uint24Values - 1
             /\ ranges[k][1] \in 0 .. Uint24Values - 1
  <2>1. ranges[k] \in Nat \X Nat /\ ranges[k][1] <= ranges[k][2]
    <3>1. k \in DOMAIN ranges
      BY <1>2
    <3> QED
      BY <1>1, <3>1 DEF RangesInv
  <2>2. ranges[k][1] \in IdsOf(ranges[k]) /\ ranges[k][2] \in IdsOf(ranges[k])
    BY <2>1 DEF IdsOf
  <2>3. ranges[k][1] \in VisitedBy(Len(ranges)) /\ ranges[k][2] \in VisitedBy(Len(ranges))
    BY <2>2 DEF VisitedBy
  <2> QED
    BY <1>3, <1>5, <2>1, <2>3
<1>8. Len(ranges) \in 0 .. Base * Base - 1
  <2>1. Len(ranges) <= Cardinality(Breaks(sequence, Len(sequence))) + 1
    BY DEF RangesInv
  <2> QED
    BY <1>2, <1>3, <1>4, <2>1
<1> QED
  BY <1>2, <1>5, <1>6, <1>7, <1>8

-----------------------------------------------------------------------------
(* Where the ranges lie in the datagram.                                   *)

Pairs(n) == {k \in 1 .. n : ~ IsSingle(ranges[k])}

\* The bytes of the header and of the first n ranges.
Offset(n) == 3 + 4 * n + 3 * Cardinality(Pairs(n))

\* A range takes four bytes, or seven.
LEMMA OffsetNext ==
    ASSUME NEW n \in Nat
    PROVE  /\ Offset(n) \in Nat /\ Offset(n) >= 3
           /\ Offset(n + 1) = Offset(n) + IF IsSingle(ranges[n + 1]) THEN 4 ELSE 7
<1>1. IsFiniteSet(1 .. n) /\ Pairs(n) \subseteq 1 .. n
  BY FS_Interval DEF Pairs
<1>2. IsFiniteSet(Pairs(n)) /\ Cardinality(Pairs(n)) \in Nat
  BY <1>1, FS_Subset, FS_CardinalityType
<1>3. 1 .. n + 1 = (1 .. n) \cup {n + 1} /\ n + 1 \notin 1 .. n
  OBVIOUS
<1>4. CASE IsSingle(ranges[n + 1])
  <2>1. Pairs(n + 1) = Pairs(n)
    BY <1>3, <1>4 DEF Pairs
  <2> QED
    BY <1>2, <1>4, <2>1 DEF Offset
<1>5. CASE ~ IsSingle(ranges[n + 1])
  <2>1. Pairs(n + 1) = Pairs(n) \cup {n + 1} /\ n + 1 \notin Pairs(n)
    BY <1>3, <1>5 DEF Pairs
  <2>2. Cardinality(Pairs(n + 1)) = Cardinality(Pairs(n)) + 1
    BY <1>2, <2>1, FS_AddElement
  <2> QED
    BY <1>2, <1>5, <2>2 DEF Offset
<1> QED
  BY <1>4, <1>5

\* More ranges take no fewer bytes.
LEMMA OffsetGrows ==
    ASSUME NEW m \in Nat, NEW n \in 0 .. m
    PROVE  Offset(n) <= Offset(m)
<1>1. /\ IsFiniteSet(1 .. n) /\ Pairs(n) \subseteq 1 .. n
      /\ IsFiniteSet(1 .. m) /\ Pairs(m) \subseteq 1 .. m
  BY FS_Interval DEF Pairs
<1>2. IsFiniteSet(Pairs(m)) /\ Pairs(n) \subseteq Pairs(m)
  BY <1>1, FS_Subset DEF Pairs
<1>3. /\ Cardinality(Pairs(n)) <= Cardinality(Pairs(m))
      /\ Cardinality(Pairs(m)) \in Nat /\ Cardinality(Pairs(n)) \in Nat
  BY <1>1, <1>2, FS_Subset, FS_CardinalityType
<1> QED
  BY <1>3 DEF Offset

\* The buffer is sized for the header and all ranges.
LEMMA BufferOffset ==
    ASSUME ranges \in Seq(Nat \X Nat)
    PROVE  BufferSize = Offset(Len(ranges))
<1>1. DOMAIN ranges = 1 .. Len(ranges) /\ Len(ranges) \in Nat
  OBVIOUS
<1>2. {k \in DOMAIN ranges : ~ IsSingle(ranges[k])} = Pairs(Len(ranges))
  BY <1>1 DEF Pairs
<1>3. Cardinality(Pairs(Len(ranges))) \in Nat
  <2>1. IsFiniteSet(1 .. Len(ranges)) /\ Pairs(Len(ranges)) \subseteq 1 .. Len(ranges)
    BY <1>1, FS_Interval DEF Pairs
  <2> QED
    BY <2>1, FS_Subset, FS_CardinalityType
<1>4. BufferSize = 1 + 2 + (1 + 3) * Len(ranges) + 3 * Cardinality(Pairs(Len(ranges)))
  BY <1>2, Zenon DEF BufferSize
<1>5. Offset(Len(ranges)) = 3 + 4 * Len(ranges) + 3 * Cardinality(Pairs(Len(ranges)))
  BY DEF Offset
<1> HIDE DEF BufferSize, Offset
<1> QED
  BY <1>1, <1>3, <1>4, <1>5

\* The header takes three bytes.
LEMMA OffsetZero == Offset(0) = 3 /\ VisitedBy(0) = {}
<1>1. Pairs(0) = {} /\ VisitedBy(0) = {}
  BY DEF Pairs, VisitedBy
<1>2. Cardinality(Pairs(0)) = 0
  BY <1>1, FS_EmptySet
<1> QED
  BY <1>1, <1>2 DEF Offset

\* Sequence out begins with seq and goes on with t.
Joined(out, seq, t) ==
    /\ Len(out) = Len(seq) + Len(t)
    /\ \A j \in 1 .. Len(seq) : out[j] = seq[j]
    /\ \A j \in 1 .. Len(t) : out[Len(seq) + j] = t[j]

\* Two sequences end to end.
LEMMA EndToEnd ==
    ASSUME NEW S, NEW seq \in Seq(S), NEW t \in Seq(S)
    PROVE  seq \o t \in Seq(S) /\ Joined(seq \o t, seq, t)
  BY DEF Joined

\* Sequence out is seq, a flag f, the three bytes of u and t.
Placed(out, seq, f, u, t) ==
    /\ Len(out) = Len(seq) + 4 + Len(t)
    /\ \A j \in 1 .. Len(seq) : out[j] = seq[j]
    /\ out[Len(seq) + 1] = f
    /\ \A j \in 1 .. 3 : out[Len(seq) + 1 + j] = u[j]
    /\ \A j \in 1 .. Len(t) : out[Len(seq) + 4 + j] = t[j]

\* A flag, an id and perhaps another are put behind what is written.
LEMMA RangeAppended ==
    ASSUME NEW S, NEW seq \in Seq(S), NEW f \in S, NEW u \in Seq(S), Len(u) = 3,
           NEW t \in Seq(S)
    PROVE  /\ seq \o <<f>> \o u \o t \in Seq(S)
           /\ Placed(seq \o <<f>> \o u \o t, seq, f, u, t)
<1> DEFINE one == seq \o <<f>>
           two == one \o u
           out == two \o t
<1>0. Len(seq) \in Nat /\ Len(t) \in Nat
  OBVIOUS
<1>1. /\ one \in Seq(S) /\ Len(one) = Len(seq) + 1
      /\ \A j \in 1 .. Len(seq) : one[j] = seq[j]
      /\ one[Len(seq) + 1] = f
  OBVIOUS
<1> HIDE DEF one
<1>2. two \in Seq(S) /\ Joined(two, one, u)
  BY <1>1, EndToEnd
<1> HIDE DEF two
<1>3. out \in Seq(S) /\ Joined(out, two, t)
  BY <1>2, EndToEnd
<1> HIDE DEF out
<1>4. /\ Len(two) = Len(one) + 3
      /\ \A j \in 1 .. Len(one) : two[j] = one[j]
      /\ \A j \in 1 .. 3 : two[Len(one) + j] = u[j]
  BY <1>2 DEF Joined
<1>5. /\ Len(out) = Len(two) + Len(t)
      /\ \A j \in 1 .. Len(two) : out[j] = two[j]
      /\ \A j \in 1 .. Len(t) : out[Len(two) + j] = t[j]
  BY <1>3 DEF Joined
<1>6. Placed(out, seq, f, u, t)
  <2>1. \A j \in 1 .. Len(seq) : out[j] = seq[j]
    BY <1>0, <1>1, <1>4, <1>5
  <2>2. out[Len(seq) + 1] = f
    BY <1>0, <1>1, <1>4, <1>5
  <2>3. \A j \in 1 .. 3 : out[Len(seq) + 1 + j] = u[j]
    BY <1>0, <1>1, <1>4, <1>5
  <2>4. \A j \in 1 .. Len(t) : out[Len(seq) + 4 + j] = t[j]
    BY <1>0, <1>1, <1>4, <1>5
  <2>5. Len(out) = Len(seq) + 4 + Len(t)
    BY <1>0, <1>1, <1>4, <1>5
  <2> QED
    BY <2>1, <2>2, <2>3, <2>4, <2>5 DEF Placed
<1> QED
  BY <1>3, <1>6 DEF out, two, one

-----------------------------------------------------------------------------
(* What is written.                                                        *)

Bytes == Nat \cup {"ACK", "NACK"}

\* An id as the readers take it from bytes b behind place p.
Value(b, p) == b[p + 1] + b[p + 2] * Base + b[p + 3] * (Base * Base)

Width(range) == IF IsSingle(range) THEN 4 ELSE 7

\* A range lies in bytes b behind place p, in the form the readers take it.
Holds(b, p, range) ==
    /\ b[p + 1] = IF IsSingle(range) THEN 1 ELSE 0
    /\ Value(b, p + 1) = range[1]
    /\ ~ IsSingle(range) => Value(b, p + 4) = range[2]

\* The bytes of id n lie in bytes b behind place p.
HasId(b, p, n) == \A j \in 1 .. 3 : b[p + j] = Uint24(n)[j]

\* What the bytes of an id are, and what they are read as.
LEMMA Uint24Written ==
    ASSUME NEW n \in 0 .. Uint24Values - 1
    PROVE  /\ Uint24(n) \in Seq(Bytes) /\ Len(Uint24(n)) = 3
           /\ \A b : \A p \in Nat : HasId(b, p, n) => Value(b, p) = n
<1>1. Base \in Nat \ {0} /\ Base * Base \in Nat \ {0} /\ Uint24Values = Base * Base * Base
  BY WidthAssumption DEF Uint24Values
<1> DEFINE x == n % Base
           y == (n \div Base) % Base
           z == (n \div (Base * Base)) % Base
<1>2. n \in Nat /\ x + y * Base + z * (Base * Base) = n
  <2>1. n \in Nat /\ n \in 0 .. Base * Base * Base - 1
    BY <1>1
  <2> QED
    BY <1>1, <2>1, ThreeBytes
<1>3. x \in Bytes /\ y \in Bytes /\ z \in Bytes
  <2>1. \A a \in Nat, b \in Nat \ {0} : a % b \in Nat /\ a \div b \in Nat
    OBVIOUS
  <2>2. x \in Nat /\ y \in Nat /\ z \in Nat
    BY <1>1, <1>2, <2>1
  <2> QED
    BY <2>2 DEF Bytes
<1>4. Uint24(n) = <<x, y, z>>
  BY DEF Uint24
<1> HIDE DEF x, y, z
<1>5. Uint24(n) \in Seq(Bytes) /\ Len(Uint24(n)) = 3
  BY <1>3, <1>4
<1>6. ASSUME NEW b, NEW p \in Nat, HasId(b, p, n)
      PROVE  Value(b, p) = n
  <2>1. b[p + 1] = x /\ b[p + 2] = y /\ b[p + 3] = z
    BY <1>4, <1>6 DEF HasId
  <2> QED
    BY <1>2, <2>1 DEF Value
<1> QED
  BY <1>5, <1>6

\* A range is there if its flag and its ids are.
LEMMA PlacedHolds ==
    ASSUME NEW seq \in Seq(Bytes), NEW range,
           range[1] \in 0 .. Uint24Values - 1, range[2] \in 0 .. Uint24Values - 1,
           NEW flag, flag = IF IsSingle(range) THEN 1 ELSE 0,
           NEW rest, rest = IF IsSingle(range) THEN <<>> ELSE Uint24(range[2]),
           NEW out, Placed(out, seq, flag, Uint24(range[1]), rest)
    PROVE  Len(out) = Len(seq) + Width(range) /\ Holds(out, Len(seq), range)
<1>1. Len(seq) \in Nat /\ Len(seq) + 1 \in Nat /\ Len(seq) + 4 \in Nat
  OBVIOUS
<1>2. /\ Len(out) = Len(seq) + 4 + Len(rest) /\ out[Len(seq) + 1] = flag
      /\ \A j \in 1 .. 3 : out[Len(seq) + 1 + j] = Uint24(range[1])[j]
      /\ \A j \in 1 .. Len(rest) : out[Len(seq) + 4 + j] = rest[j]
  BY DEF Placed
<1>3. Value(out, Len(seq) + 1) = range[1]
  <2>1. HasId(out, Len(seq) + 1, range[1])
    BY <1>2 DEF HasId
  <2> QED
    BY <1>1, <2>1, Uint24Written
<1>4. CASE IsSingle(range)
  <2>1. Len(rest) = 0 /\ Width(range) = 4
    BY <1>4 DEF Width
  <2> QED
    BY <1>1, <1>2, <1>3, <1>4, <2>1 DEF Holds
<1>5. CASE ~ IsSingle(range)
  <2>1. rest = Uint24(range[2]) /\ Len(rest) = 3 /\ Width(range) = 7
    BY <1>5, Uint24Written DEF Width
  <2>2. HasId(out, Len(seq) + 4, range[2])
    BY <1>2, <2>1 DEF HasId
  <2>3. Value(out, Len(seq) + 4) = range[2]
    BY <1>1, <2>2, Uint24Written
  <2>4. Len(out) = Len(seq) + 7
    <3>1. \A a \in Nat : a + 4 + 3 = a + 7
      OBVIOUS
    <3>2. Len(out) = Len(seq) + 4 + 3
      BY <1>2, <2>1, Zenon
    <3> QED
      BY <1>1, <3>1, <3>2, Zenon
  <2>5. Holds(out, Len(seq), range)
    BY <1>2, <1>3, <1>5, <2>3, Zenon DEF Holds
  <2> QED
    BY <2>1, <2>4, <2>5
<1> QED
  BY <1>4, <1>5

\* sendAck's turn for a range puts it behind what is written.
LEMMA RangePut ==
    ASSUME NEW seq \in Seq(Bytes), NEW range,
           range[1] \in 0 .. Uint24Values - 1, range[2] \in 0 .. Uint24Values - 1,
           NEW out,
           out = seq \o <<IF IsSingle(range) THEN 1 ELSE 0>> \o Uint24(range[1])
                     \o IF IsSingle(range) THEN <<>> ELSE Uint24(range[2])
    PROVE  /\ out \in Seq(Bytes) /\ Len(out) = Len(seq) + Width(range)
           /\ \A j \in 1 .. Len(seq) : out[j] = seq[j]
           /\ Holds(out, Len(seq), range)
<1> DEFINE flag == IF IsSingle(range) THEN 1 ELSE 0
           rest == IF IsSingle(range) THEN <<>> ELSE Uint24(range[2])
           first == Uint24(range[1])
<1>1. out = seq \o <<flag>> \o first \o rest
  OBVIOUS
<1>2. first \in Seq(Bytes) /\ Len(first) = 3
  BY Uint24Written
<1>3. flag \in Bytes
  BY DEF Bytes
<1>4. rest \in Seq(Bytes)
  <2>1. <<>> \in Seq(Bytes) /\ Uint24(range[2]) \in Seq(Bytes)
    BY Uint24Written
  <2> QED
    BY <2>1
<1>5. /\ flag = IF IsSingle(range) THEN 1 ELSE 0
      /\ rest = IF IsSingle(range) THEN <<>> ELSE Uint24(range[2])
      /\ first = Uint24(range[1])
  OBVIOUS
<1> HIDE DEF flag, rest, first
<1>6. out \in Seq(Bytes) /\ Placed(out, seq, flag, first, rest)
  BY <1>1, <1>2, <1>3, <1>4, RangeAppended
<1>7. Placed(out, seq, flag, Uint24(range[1]), rest)
  BY <1>5, <1>6
<1>8. Len(out) = Len(seq) + Width(range) /\ Holds(out, Len(seq), range)
  BY <1>5, <1>7, PlacedHolds
<1> QED
  BY <1>6, <1>8 DEF Placed

\* What is put behind a range leaves it.
LEMMA RangeKept ==
    ASSUME NEW b, NEW p \in Nat, NEW range, Holds(b, p, range), NEW out,
           \A j \in 1 .. Width(range) : out[p + j] = b[p + j]
    PROVE  Holds(out, p, range)
<1>1. /\ out[p + 1] = b[p + 1] /\ out[p + 1 + 1] = b[p + 1 + 1]
      /\ out[p + 1 + 2] = b[p + 1 + 2] /\ out[p + 1 + 3] = b[p + 1 + 3]
  <2>1. /\ out[p + 1] = b[p + 1] /\ out[p + 2] = b[p + 2] /\ out[p + 3] = b[p + 3]
        /\ out[p + 4] = b[p + 4]
    BY DEF Width
  <2>2. p + 1 + 1 = p + 2 /\ p + 1 + 2 = p + 3 /\ p + 1 + 3 = p + 4
    OBVIOUS
  <2> QED
    BY <2>1, <2>2
<1>2. ASSUME ~ IsSingle(range)
      PROVE  /\ out[p + 4 + 1] = b[p + 4 + 1] /\ out[p + 4 + 2] = b[p + 4 + 2]
             /\ out[p + 4 + 3] = b[p + 4 + 3]
  <2>1. out[p + 5] = b[p + 5] /\ out[p + 6] = b[p + 6] /\ out[p + 7] = b[p + 7]
    BY <1>2 DEF Width
  <2>2. p + 4 + 1 = p + 5 /\ p + 4 + 2 = p + 6 /\ p + 4 + 3 = p + 7
    OBVIOUS
  <2> QED
    BY <2>1, <2>2
<1>3. Value(out, p + 1) = Value(b, p + 1)
  BY <1>1 DEF Value
<1>4. ~ IsSingle(range) => Value(out, p + 4) = Value(b, p + 4)
  BY <1>2 DEF Value
<1> QED
  BY <1>1, <1>3, <1>4 DEF Holds

\* The k-th range lies behind the ones before it.
HasRange(k) == Holds(bytes, Offset(k - 1), ranges[k])

\* How far sendAck is, and what it has written: the reader starts behind its end.
WriterInv ==
    /\ type \in {"ACK", "NACK"}
    /\ at \in {"writing", "sent", "range", "ids", "read"}
    /\ bytes \in Seq(Bytes)
    /\ writing \in -1 .. Len(ranges)
    /\ writing = -1 => bytes = <<>> /\ at = "writing"
    /\ writing # -1 =>
         /\ done /\ Len(bytes) = Offset(writing)
         /\ ReadUint16(1) = Len(ranges)
         /\ \A k \in 1 .. writing : HasRange(k)
    /\ at # "writing" => writing = Len(ranges)

\* The header: the id's byte and the number of ranges.
LEMMA HeaderWritten ==
    ASSUME LoopInv, RangesInv, WriterInv, WriteHeader
    PROVE  WriterInv'
<1>1. /\ done /\ writing = -1 /\ writing' = 0 /\ at = "writing" /\ at' = "writing"
      /\ bytes' = <<type>> \o Uint16(Len(ranges)) /\ type' = type
      /\ ranges' = ranges /\ done' = done
  BY DEF WriteHeader, vars
<1>2. Base \in Nat \ {0} /\ Len(ranges) \in 0 .. Base * Base - 1
  BY <1>1, RangesMade, WidthAssumption
<1> DEFINE n == Len(ranges)
           hi == (n \div Base) % Base
           lo == n % Base
           word == <<hi, lo>>
<1>3. hi \in Nat /\ lo \in Nat
  <2>1. \A a \in Nat, b \in Nat \ {0} : a % b \in Nat /\ a \div b \in Nat
    OBVIOUS
  <2> QED
    BY <1>2, <2>1
<1>4. hi * Base + lo = n
  BY <1>2, TwoBytes
<1>5. bytes' = <<type>> \o word
  BY <1>1 DEF Uint16
<1> HIDE DEF hi, lo
<1>6. /\ <<type>> \in Seq(Bytes) /\ Len(<<type>>) = 1
      /\ word \in Seq(Bytes) /\ Len(word) = 2 /\ word[1] = hi /\ word[2] = lo
  <2>1. type \in Bytes /\ hi \in Bytes /\ lo \in Bytes
    BY <1>3 DEF WriterInv, Bytes
  <2> QED
    BY <2>1
<1> HIDE DEF word
<1>7. bytes' \in Seq(Bytes) /\ Joined(bytes', <<type>>, word)
  BY <1>5, <1>6, EndToEnd
<1>8. Len(bytes') = 3 /\ bytes'[2] = hi /\ bytes'[3] = lo
  BY <1>6, <1>7 DEF Joined
<1>9. ReadUint16(1)' = n
  <2>1. bytes'[1 + 1] = hi /\ bytes'[1 + 2] = lo
    BY <1>8
  <2> QED
    BY <1>4, <2>1, Zenon DEF ReadUint16
<1>10. Offset(0)' = 3
  BY <1>1, OffsetZero DEF Offset, Pairs
<1>11. /\ writing' \in -1 .. Len(ranges') /\ writing' # -1
       /\ \A k \in 1 .. writing' : HasRange(k)'
  BY <1>1, <1>2
<1>12. type' \in {"ACK", "NACK"}
  BY <1>1 DEF WriterInv
<1> HIDE DEF n
<1>13. ReadUint16(1)' = Len(ranges')
  BY <1>1, <1>9 DEF n
<1> QED
  BY <1>1, <1>7, <1>8, <1>10, <1>11, <1>12, <1>13 DEF WriterInv

\* A range behind the ones before it.
LEMMA RangeWritten ==
    ASSUME LoopInv, RangesInv, WriterInv, WriteRange
    PROVE  WriterInv'
<1>0. PICK k : k = writing + 1
  OBVIOUS
<1> DEFINE range == ranges[k]
<1>1. /\ writing \in 0 .. Len(ranges) - 1 /\ writing' = k /\ at = "writing" /\ at' = at
      /\ type' = type /\ ranges' = ranges /\ done' = done
      /\ bytes' = bytes \o <<IF IsSingle(range) THEN 1 ELSE 0>> \o Uint24(range[1])
                        \o IF IsSingle(range) THEN <<>> ELSE Uint24(range[2])
  BY <1>0 DEF WriteRange, vars
<1>2. /\ done /\ Len(bytes) = Offset(writing) /\ bytes \in Seq(Bytes)
      /\ ReadUint16(1) = Len(ranges) /\ \A j \in 1 .. writing : HasRange(j)
      /\ type \in {"ACK", "NACK"}
  <2>1. writing # -1
    BY <1>1
  <2> QED
    BY <2>1 DEF WriterInv
<1>3. /\ k \in 1 .. Len(ranges) /\ writing \in Nat /\ k - 1 = writing
      /\ range[1] \in 0 .. Uint24Values - 1 /\ range[2] \in 0 .. Uint24Values - 1
      /\ Len(ranges) \in Nat
  <2>1. Len(ranges) \in Nat
    BY <1>2, RangesMade
  <2>2. k \in 1 .. Len(ranges) /\ writing \in Nat /\ k - 1 = writing
    BY <1>0, <1>1, <2>1
  <2> QED
    BY <1>2, <2>1, <2>2, RangesMade
<1> HIDE DEF range
<1>4. /\ bytes' \in Seq(Bytes) /\ Len(bytes') = Len(bytes) + Width(range)
      /\ \A j \in 1 .. Len(bytes) : bytes'[j] = bytes[j]
      /\ Holds(bytes', Len(bytes), range)
  BY <1>1, <1>2, <1>3, RangePut
<1>5. \A n : Offset(n)' = Offset(n)
  BY <1>1 DEF Offset, Pairs
<1>6. /\ Offset(writing) \in Nat /\ Offset(writing) >= 3
      /\ Offset(k) = Offset(writing) + Width(range)
  BY <1>0, <1>3, OffsetNext DEF Width, range
<1>7. Len(bytes') = Offset(k)'
  BY <1>2, <1>4, <1>5, <1>6
<1>8. HasRange(k)'
  <2>1. Holds(bytes', Offset(k - 1), ranges[k])
    BY <1>2, <1>3, <1>4 DEF range
  <2> QED
    BY <1>1, <1>5, <2>1 DEF HasRange
<1>9. ASSUME NEW j \in 1 .. writing PROVE HasRange(j)'
  <2>1. Holds(bytes, Offset(j - 1), ranges[j])
    BY <1>2 DEF HasRange
  <2>2. j - 1 \in Nat /\ j - 1 + 1 = j /\ j \in 0 .. writing
    BY <1>3
  <2>3. /\ Offset(j - 1) \in Nat /\ Offset(j) = Offset(j - 1) + Width(ranges[j])
        /\ Offset(j) <= Offset(writing)
    <3>1. /\ Offset(j - 1) \in Nat
          /\ Offset(j - 1 + 1) = Offset(j - 1) + Width(ranges[j - 1 + 1])
      BY <2>2, OffsetNext DEF Width
    <3>2. Offset(j) <= Offset(writing)
      BY <1>3, <2>2, OffsetGrows
    <3> QED
      BY <2>2, <3>1, <3>2
  <2>4. \A d \in 1 .. Width(ranges[j]) : bytes'[Offset(j - 1) + d] = bytes[Offset(j - 1) + d]
    <3>1. Width(ranges[j]) \in {4, 7}
      BY DEF Width
    <3>2. ASSUME NEW d \in 1 .. Width(ranges[j])
          PROVE  Offset(j - 1) + d \in 1 .. Len(bytes)
      BY <1>2, <1>6, <2>3, <3>1
    <3> QED
      BY <1>4, <3>2
  <2>5. Holds(bytes', Offset(j - 1), ranges[j])
    BY <2>1, <2>3, <2>4, RangeKept
  <2> QED
    BY <1>1, <1>5, <2>5 DEF HasRange
<1>10. ReadUint16(1)' = Len(ranges')
  <2>1. Len(bytes) \in Nat /\ 2 \in 1 .. Len(bytes) /\ 3 \in 1 .. Len(bytes)
    BY <1>2, <1>6
  <2>2. bytes'[1 + 1] = bytes[1 + 1] /\ bytes'[1 + 2] = bytes[1 + 2]
    BY <1>4, <2>1
  <2> QED
    BY <1>1, <1>2, <2>2, Zenon DEF ReadUint16
<1>11. \A j \in 1 .. k : HasRange(j)'
  <2>1. \A j \in 1 .. k : j \in 1 .. writing \/ j = k
    BY <1>0, <1>3
  <2> QED
    BY <1>8, <1>9, <2>1
<1>12. writing' \in -1 .. Len(ranges') /\ writing' # -1
  BY <1>1, <1>3
<1> QED
  BY <1>1, <1>2, <1>4, <1>7, <1>10, <1>11, <1>12 DEF WriterInv

-----------------------------------------------------------------------------
(* What is read.                                                           *)

\* The ranges that are read, the one at hand included.
Read == Len(ranges) - rangesLeft

\* Where the reader is: behind the ranges it has read, whose ids it has looked up,
\* those of the range at hand from its end of the range on.
ReaderInv ==
    /\ at \in {"writing", "sent"} => visited = {}
    /\ at \in {"range", "ids"} =>
         rangesLeft \in 0 .. Len(ranges) /\ pointer = Offset(Read)
    /\ at = "range" => visited = VisitedBy(Read)
    /\ at = "ids" =>
         /\ Read >= 1 /\ low = ranges[Read][1] /\ high = ranges[Read][2]
         /\ type = "ACK" =>
              id \in low .. high + 1 /\ visited = VisitedBy(Read - 1) \cup (low .. id - 1)
         /\ type = "NACK" =>
              id \in low - 1 .. high /\ visited = VisitedBy(Read - 1) \cup (id + 1 .. high)
    /\ at = "read" => pointer = Offset(Len(ranges)) /\ visited = VisitedBy(Len(ranges))

\* All of it.
DatagramInv == LoopInv /\ RangesInv /\ WriterInv /\ ReaderInv

\* The ids of one more range.
LEMMA VisitedNext ==
    ASSUME NEW n \in Nat
    PROVE  VisitedBy(n + 1) = VisitedBy(n) \cup (ranges[n + 1][1] .. ranges[n + 1][2])
<1>1. 1 .. n + 1 = (1 .. n) \cup {n + 1}
  OBVIOUS
<1> QED
  BY <1>1 DEF VisitedBy, IdsOf

\* The reader starts where the header ends.
LEMMA CountRead ==
    ASSUME DatagramInv, ReadCount
    PROVE  ReaderInv'
<1>1. /\ at = "sent" /\ rangesLeft' = ReadUint16(1) /\ pointer' = 3 /\ at' = "range"
      /\ ranges' = ranges /\ visited' = visited
  BY DEF ReadCount, vars
<1>2. done /\ ReadUint16(1) = Len(ranges) /\ visited = {}
  BY <1>1 DEF DatagramInv, WriterInv, ReaderInv
<1>3. Len(ranges) \in Nat
  BY <1>2, RangesMade DEF DatagramInv
<1>4. rangesLeft' = Len(ranges') /\ Len(ranges') \in Nat
  BY <1>1, <1>2, <1>3
<1>5. Read' = 0
  BY <1>4 DEF Read
<1>6. Offset(0)' = 3 /\ VisitedBy(0)' = {}
  BY OffsetZero, <1>1 DEF Offset, Pairs, VisitedBy
<1>7. Offset(Read)' = 3 /\ VisitedBy(Read)' = {}
  BY <1>1, <1>5, <1>6 DEF Offset, Pairs, VisitedBy
<1> QED
  BY <1>1, <1>2, <1>4, <1>7 DEF ReaderInv

\* A turn for a range takes the bytes sendAck wrote for it.
LEMMA RangeRead ==
    ASSUME DatagramInv, ReadRange
    PROVE  ReaderInv'
<1>1. /\ at = "range" /\ rangesLeft > 0 /\ rangesLeft' = rangesLeft - 1 /\ at' = "ids"
      /\ ranges' = ranges /\ type' = type /\ bytes' = bytes /\ visited' = visited
  BY DEF ReadRange, vars
<1>2. /\ done /\ writing = Len(ranges) /\ \A j \in 1 .. writing : HasRange(j)
      /\ type \in {"ACK", "NACK"}
  BY <1>1 DEF DatagramInv, WriterInv
<1>3. /\ rangesLeft \in 0 .. Len(ranges) /\ pointer = Offset(Read) /\ visited = VisitedBy(Read)
  BY <1>1 DEF DatagramInv, ReaderInv
<1>4. Len(ranges) \in Nat
  BY <1>2, RangesMade DEF DatagramInv
<1>5. PICK k : k = Read + 1
  OBVIOUS
<1>6. /\ k \in 1 .. Len(ranges) /\ k - 1 = Read /\ Read \in Nat /\ k \in Nat
      /\ Len(ranges) - (rangesLeft - 1) = k
      /\ rangesLeft - 1 \in 0 .. Len(ranges)
  BY <1>1, <1>3, <1>4, <1>5 DEF Read
<1>7. /\ ranges[k][1] \in Nat /\ ranges[k][2] \in Nat /\ ranges[k][1] <= ranges[k][2]
  BY <1>2, <1>6, RangesMade DEF DatagramInv
<1>8. Holds(bytes, pointer, ranges[k])
  BY <1>2, <1>3, <1>6 DEF HasRange
<1>9. /\ Offset(Read) \in Nat
      /\ Offset(k) = Offset(Read) + IF IsSingle(ranges[k]) THEN 4 ELSE 7
  BY <1>5, <1>6, OffsetNext
<1>10. /\ low' = ReadUint24(pointer + 1)
       /\ high' = IF bytes[pointer + 1] # 0 THEN low' ELSE ReadUint24(pointer + 4)
       /\ pointer' = pointer + (IF bytes[pointer + 1] # 0 THEN 4 ELSE 7)
       /\ id' = IF type = "ACK" THEN low' ELSE high'
  BY DEF ReadRange
<1>11. /\ bytes[pointer + 1] # 0 <=> IsSingle(ranges[k])
       /\ low' = ranges[k][1] /\ high' = ranges[k][2] /\ pointer' = Offset(k)
  <2>1. ReadUint24(pointer + 1) = ranges[k][1]
    BY <1>8 DEF Holds, Value, ReadUint24
  <2>2. CASE IsSingle(ranges[k])
    <3>1. bytes[pointer + 1] = 1 /\ ranges[k][2] = ranges[k][1]
      BY <1>8, <2>2 DEF Holds, IsSingle
    <3> QED
      BY <1>3, <1>9, <1>10, <2>1, <2>2, <3>1
  <2>3. CASE ~ IsSingle(ranges[k])
    <3>1. bytes[pointer + 1] = 0 /\ ReadUint24(pointer + 4) = ranges[k][2]
      BY <1>8, <2>3 DEF Holds, Value, ReadUint24
    <3> QED
      BY <1>3, <1>9, <1>10, <2>1, <2>3, <3>1
  <2> QED
    BY <2>2, <2>3
<1>12. Read' = k
  BY <1>1, <1>6 DEF Read
<1>13. /\ \A n : Offset(n)' = Offset(n)
       /\ \A n : VisitedBy(n)' = VisitedBy(n)
  BY <1>1 DEF Offset, Pairs, VisitedBy
<1>14. pointer' = Offset(Read)'
  <2>1. Offset(Read)' = Offset(k)'
    BY <1>12 DEF Offset, Pairs
  <2> QED
    BY <1>11, <1>13, <2>1
<1>15. VisitedBy(Read - 1)' = VisitedBy(Read)
  <2>1. VisitedBy(Read - 1)' = VisitedBy(k - 1)'
    BY <1>12 DEF VisitedBy
  <2> QED
    BY <1>6, <1>13, <2>1
<1>16. (type = "ACK" =>
         id \in low .. high + 1 /\ visited = VisitedBy(Read - 1) \cup (low .. id - 1))'
  <2>1. SUFFICES ASSUME type = "ACK"
                 PROVE  /\ id' \in low' .. high' + 1
                        /\ visited' = VisitedBy(Read - 1)' \cup (low' .. id' - 1)
    BY <1>1
  <2>2. id' = ranges[k][1]
    BY <1>10, <1>11, <2>1
  <2>3. ranges[k][1] .. ranges[k][1] - 1 = {}
    BY <1>7
  <2> QED
    BY <1>1, <1>3, <1>7, <1>11, <1>15, <2>2, <2>3
<1>17. (type = "NACK" =>
         id \in low - 1 .. high /\ visited = VisitedBy(Read - 1) \cup (id + 1 .. high))'
  <2>1. SUFFICES ASSUME type = "NACK"
                 PROVE  /\ id' \in low' - 1 .. high'
                        /\ visited' = VisitedBy(Read - 1)' \cup (id' + 1 .. high')
    BY <1>1
  <2>2. id' = ranges[k][2]
    BY <1>10, <1>11, <2>1
  <2>3. ranges[k][2] + 1 .. ranges[k][2] = {}
    BY <1>7
  <2> QED
    BY <1>1, <1>3, <1>7, <1>11, <1>15, <2>2, <2>3
<1>18. (Read >= 1 /\ low = ranges[Read][1] /\ high = ranges[Read][2])'
  BY <1>1, <1>6, <1>11, <1>12
<1>19. (rangesLeft \in 0 .. Len(ranges))'
  BY <1>1, <1>6
<1> QED
  BY <1>1, <1>14, <1>16, <1>17, <1>18, <1>19, Zenon DEF ReaderInv

\* What the ids of the range at hand are.
LEMMA RangeAtHand ==
    ASSUME DatagramInv, at = "ids"
    PROVE  /\ done /\ type \in {"ACK", "NACK"}
           /\ Read \in 1 .. Len(ranges) /\ Read - 1 \in Nat /\ Read - 1 + 1 = Read
           /\ low = ranges[Read][1] /\ high = ranges[Read][2]
           /\ low \in Nat /\ high \in Nat /\ low <= high /\ high < Uint24Values
           /\ id \in Int
<1>1. done /\ type \in {"ACK", "NACK"}
  BY DEF DatagramInv, WriterInv
<1>2. /\ rangesLeft \in 0 .. Len(ranges) /\ Read >= 1
      /\ low = ranges[Read][1] /\ high = ranges[Read][2]
  BY DEF DatagramInv, ReaderInv
<1>3. Len(ranges) \in Nat
  BY <1>1, RangesMade DEF DatagramInv
<1>4. Read \in 1 .. Len(ranges) /\ Read - 1 \in Nat /\ Read - 1 + 1 = Read
  BY <1>2, <1>3 DEF Read
<1>5. Uint24Values \in Nat
  BY WidthAssumption DEF Uint24Values
<1>6. low \in Nat /\ high \in Nat /\ low <= high /\ high < Uint24Values
  <2>1. /\ ranges[Read] \in Nat \X Nat /\ ranges[Read][1] <= ranges[Read][2]
        /\ ranges[Read][2] \in 0 .. Uint24Values - 1
    BY <1>1, <1>4, RangesMade DEF DatagramInv
  <2> QED
    BY <1>2, <1>5, <2>1
<1>7. id \in Int
  <2>1. id \in low .. high + 1 \/ id \in low - 1 .. high
    BY <1>1 DEF DatagramInv, ReaderInv
  <2> QED
    BY <1>6, <2>1
<1> QED
  BY <1>1, <1>2, <1>4, <1>6, <1>7

\* An id of the range is looked up, and no step leaves its integers.
LEMMA IdRead ==
    ASSUME DatagramInv, Visit
    PROVE  ReaderInv'
<1>1. /\ at = "ids" /\ at' = at /\ visited' = visited \cup {id}
      /\ id' = IF type = "ACK" THEN (id + 1) % Uint32Values ELSE id - 1
      /\ IF type = "ACK" THEN id <= high ELSE id >= low
      /\ ranges' = ranges /\ type' = type /\ pointer' = pointer
      /\ rangesLeft' = rangesLeft /\ low' = low /\ high' = high
  BY DEF Visit, StepDown, vars
<1>2. /\ type \in {"ACK", "NACK"} /\ low \in Nat /\ high \in Nat /\ high < Uint24Values
      /\ id \in Int
  BY <1>1, RangeAtHand
<1>3. /\ rangesLeft \in 0 .. Len(ranges) /\ pointer = Offset(Read)
      /\ Read >= 1 /\ low = ranges[Read][1] /\ high = ranges[Read][2]
      /\ type = "ACK" =>
           id \in low .. high + 1 /\ visited = VisitedBy(Read - 1) \cup (low .. id - 1)
      /\ type = "NACK" =>
           id \in low - 1 .. high /\ visited = VisitedBy(Read - 1) \cup (id + 1 .. high)
  BY <1>1 DEF DatagramInv, ReaderInv
<1>4. Read' = Read
  BY <1>1 DEF Read
<1>5. Offset(Read)' = Offset(Read) /\ VisitedBy(Read - 1)' = VisitedBy(Read - 1)
  BY <1>1, <1>4 DEF Offset, Pairs, VisitedBy
<1>6. ASSUME type = "ACK"
      PROVE  id' \in low .. high + 1 /\ visited' = VisitedBy(Read - 1) \cup (low .. id' - 1)
  <2>1. id \in low .. high /\ visited = VisitedBy(Read - 1) \cup (low .. id - 1)
    BY <1>1, <1>2, <1>3, <1>6
  <2>2. id + 1 \in Nat /\ id + 1 < Uint32Values /\ Uint32Values \in Nat
    <3>1. Uint24Values < Uint32Values \div 2 /\ Uint32Values \in Nat
      BY WidthAssumption
    <3>2. Uint24Values \in Nat
      BY WidthAssumption DEF Uint24Values
    <3> HIDE DEF Uint24Values
    <3> QED
      BY <1>2, <2>1, <3>1, <3>2
  <2>3. id' = id + 1
    <3>1. (id + 1) % Uint32Values = id + 1
      BY <2>2
    <3> QED
      BY <1>1, <1>6, <3>1
  <2>4. low .. id + 1 - 1 = (low .. id - 1) \cup {id}
    BY <1>2, <2>1
  <2> QED
    BY <1>1, <1>2, <2>1, <2>3, <2>4
<1>7. ASSUME type = "NACK"
      PROVE  id' \in low - 1 .. high /\ visited' = VisitedBy(Read - 1) \cup (id' + 1 .. high)
  <2>1. id \in low .. high /\ visited = VisitedBy(Read - 1) \cup (id + 1 .. high)
    BY <1>1, <1>2, <1>3, <1>7
  <2>2. id' = id - 1
    BY <1>1, <1>7
  <2>3. id - 1 + 1 .. high = (id + 1 .. high) \cup {id}
    BY <1>2, <2>1
  <2> QED
    BY <1>1, <1>2, <2>1, <2>2, <2>3
<1>8. (type = "ACK" =>
         id \in low .. high + 1 /\ visited = VisitedBy(Read - 1) \cup (low .. id - 1))'
  BY <1>1, <1>5, <1>6
<1>9. (type = "NACK" =>
         id \in low - 1 .. high /\ visited = VisitedBy(Read - 1) \cup (id + 1 .. high))'
  BY <1>1, <1>5, <1>7
<1>10. (/\ rangesLeft \in 0 .. Len(ranges) /\ pointer = Offset(Read)
        /\ Read >= 1 /\ low = ranges[Read][1] /\ high = ranges[Read][2])'
  BY <1>1, <1>3, <1>4, <1>5
<1> QED
  BY <1>1, <1>8, <1>9, <1>10 DEF ReaderInv

\* The ids of a range have all been looked up at its end.
LEMMA RangeEnds ==
    ASSUME DatagramInv, EndOfRange
    PROVE  ReaderInv'
<1>1. /\ at = "ids" /\ at' = "range" /\ ranges' = ranges /\ visited' = visited
      /\ IF type = "ACK" THEN id > high ELSE id < low
      /\ pointer' = pointer /\ rangesLeft' = rangesLeft
  BY DEF EndOfRange, vars, reader
<1>2. /\ type \in {"ACK", "NACK"} /\ low \in Nat /\ high \in Nat /\ id \in Int
      /\ Read - 1 \in Nat /\ Read - 1 + 1 = Read
      /\ low = ranges[Read][1] /\ high = ranges[Read][2]
  BY <1>1, RangeAtHand
<1>3. /\ rangesLeft \in 0 .. Len(ranges) /\ pointer = Offset(Read)
      /\ type = "ACK" =>
           id \in low .. high + 1 /\ visited = VisitedBy(Read - 1) \cup (low .. id - 1)
      /\ type = "NACK" =>
           id \in low - 1 .. high /\ visited = VisitedBy(Read - 1) \cup (id + 1 .. high)
  BY <1>1 DEF DatagramInv, ReaderInv
<1>4. visited = VisitedBy(Read - 1) \cup (low .. high)
  <2>1. CASE type = "ACK"
    <3>1. id = high + 1 /\ id - 1 = high
      <4>1. id > high /\ id \in low .. high + 1
        BY <1>1, <1>3, <2>1
      <4> QED
        BY <1>2, <4>1
    <3> QED
      BY <1>3, <2>1, <3>1
  <2>2. CASE type = "NACK"
    <3>1. id = low - 1 /\ id + 1 = low
      BY <1>1, <1>2, <1>3, <2>2
    <3> QED
      BY <1>3, <2>2, <3>1
  <2> QED
    BY <1>2, <2>1, <2>2
<1>5. visited = VisitedBy(Read)
  <2>1. VisitedBy(Read - 1 + 1) =
          VisitedBy(Read - 1) \cup (ranges[Read - 1 + 1][1] .. ranges[Read - 1 + 1][2])
    BY <1>2, VisitedNext
  <2> QED
    BY <1>2, <1>4, <2>1
<1>6. Read' = Read
  BY <1>1 DEF Read
<1>7. Offset(Read)' = Offset(Read) /\ VisitedBy(Read)' = VisitedBy(Read)
  BY <1>1, <1>6 DEF Offset, Pairs, VisitedBy
<1> QED
  BY <1>1, <1>3, <1>5, <1>7 DEF ReaderInv

\* The reader is at the end of what was written.
LEMMA PacketEnds ==
    ASSUME DatagramInv, EndOfPacket
    PROVE  ReaderInv'
<1>1. /\ at = "range" /\ rangesLeft = 0 /\ at' = "read" /\ ranges' = ranges
      /\ visited' = visited /\ pointer' = pointer
  BY DEF EndOfPacket, vars, reader
<1>2. pointer = Offset(Read) /\ visited = VisitedBy(Read) /\ done
  BY <1>1 DEF DatagramInv, ReaderInv, WriterInv
<1>3. Len(ranges) \in Nat
  BY <1>2, RangesMade DEF DatagramInv
<1>4. Read = Len(ranges)
  BY <1>1, <1>3 DEF Read
<1>5. /\ Offset(Len(ranges))' = Offset(Len(ranges))
      /\ VisitedBy(Len(ranges))' = VisitedBy(Len(ranges))
  BY <1>1 DEF Offset, Pairs, VisitedBy
<1> QED
  BY <1>1, <1>2, <1>4, <1>5 DEF ReaderInv

-----------------------------------------------------------------------------
(* From the ids to the ids.                                                *)

\* Before the first step nothing is written, read or looked up.
LEMMA InitDatagram == DatagramInit => DatagramInv
<1> SUFFICES ASSUME DatagramInit PROVE DatagramInv
  OBVIOUS
<1>1. Init /\ LoopInv /\ RangesInv
  BY InitLoop, RangesKept DEF DatagramInit
<1>2. WriterInv
  <2>1. ranges = <<>> /\ writing = -1 /\ bytes = <<>> /\ at = "writing"
        /\ type \in {"ACK", "NACK"}
    BY DEF DatagramInit, Init
  <2>2. bytes \in Seq(Bytes) /\ writing \in -1 .. Len(ranges)
    BY <2>1
  <2> QED
    BY <2>1, <2>2 DEF WriterInv
<1>3. ReaderInv
  BY DEF DatagramInit, ReaderInv
<1> QED
  BY <1>1, <1>2, <1>3 DEF DatagramInv

\* A step of the loop comes before the header.
LEMMA LoopStep ==
    ASSUME DatagramInv, Next, UNCHANGED datagram
    PROVE  DatagramInv'
<1>1. LoopInv' /\ RangesInv'
  BY StepLoop, RangesKept DEF DatagramInv
<1>2. ~ done
  BY DEF Next, Extend, Split, Return, InLoop
<1>3. /\ type' = type /\ writing' = writing /\ bytes' = bytes /\ at' = at
      /\ visited' = visited
  BY DEF datagram, reader
<1>4. writing = -1 /\ bytes = <<>> /\ at = "writing" /\ type \in {"ACK", "NACK"}
      /\ visited = {} /\ bytes \in Seq(Bytes)
  BY <1>2 DEF DatagramInv, WriterInv, ReaderInv
<1>5. writing' \in -1 .. Len(ranges')
  <2>1. ranges' \in Seq(Nat \X Nat)
    BY <1>1 DEF LoopInv, TypeOK
  <2>2. Len(ranges') \in Nat
    BY <2>1
  <2> QED
    BY <1>3, <1>4, <2>2
<1>6. WriterInv'
  BY <1>3, <1>4, <1>5 DEF WriterInv
<1>7. ReaderInv'
  BY <1>3, <1>4 DEF ReaderInv
<1> QED
  BY <1>1, <1>6, <1>7 DEF DatagramInv

\* Every step keeps it.
LEMMA StepDatagram == DatagramInv /\ [DatagramNext]_<<vars, datagram>> => DatagramInv'
<1> SUFFICES ASSUME DatagramInv, [DatagramNext]_<<vars, datagram>> PROVE DatagramInv'
  OBVIOUS
<1>1. LoopInv /\ RangesInv /\ WriterInv /\ ReaderInv
  BY DEF DatagramInv
<1>2. ASSUME UNCHANGED vars PROVE LoopInv' /\ RangesInv'
  BY <1>1, <1>2, StepLoop, RangesKept
<1>3. ASSUME UNCHANGED <<vars, type, writing, bytes>>,
             at' # "writing" => writing = Len(ranges),
             at' \in {"writing", "sent", "range", "ids", "read"},
             writing = -1 => at' = "writing"
      PROVE  WriterInv'
  <2>1. /\ ranges' = ranges /\ done' = done
        /\ type' = type /\ writing' = writing /\ bytes' = bytes
    BY <1>3 DEF vars
  <2>2. Offset(writing)' = Offset(writing) /\ ReadUint16(1)' = ReadUint16(1)
    BY <2>1 DEF Offset, Pairs, ReadUint16
  <2>3. \A k : HasRange(k)' <=> HasRange(k)
    BY <2>1 DEF HasRange, Offset, Pairs
  <2> QED
    BY <1>1, <1>3, <2>1, <2>2, <2>3 DEF WriterInv
<1>4. CASE Next /\ UNCHANGED datagram
  BY <1>4, LoopStep
<1>5. CASE WriteHeader
  <2>1. WriterInv'
    BY <1>1, <1>5, HeaderWritten
  <2>2. UNCHANGED vars /\ at = "writing" /\ at' = at /\ visited' = visited
    BY <1>5 DEF WriteHeader, reader
  <2>3. ReaderInv'
    BY <1>1, <2>2 DEF ReaderInv
  <2> QED
    BY <1>2, <2>1, <2>2, <2>3 DEF DatagramInv
<1>6. CASE WriteRange
  <2>1. WriterInv'
    BY <1>1, <1>6, RangeWritten
  <2>2. UNCHANGED vars /\ at = "writing" /\ at' = at /\ visited' = visited
    BY <1>6 DEF WriteRange, reader
  <2>3. ReaderInv'
    BY <1>1, <2>2 DEF ReaderInv
  <2> QED
    BY <1>2, <2>1, <2>2, <2>3 DEF DatagramInv
<1>7. CASE Send
  <2>1. /\ UNCHANGED <<vars, type, writing, bytes>> /\ at = "writing" /\ at' = "sent"
        /\ writing = Len(ranges) /\ visited' = visited
    BY <1>7 DEF Send, reader
  <2>2. writing # -1
    <3>1. ranges \in Seq(Nat \X Nat)
      BY <1>1 DEF LoopInv, TypeOK
    <3>2. Len(ranges) \in Nat
      BY <3>1
    <3> QED
      BY <2>1, <3>2
  <2>3. WriterInv'
    BY <1>3, <2>1, <2>2
  <2>4. ReaderInv'
    BY <1>1, <2>1 DEF ReaderInv
  <2> QED
    BY <1>2, <2>1, <2>3, <2>4 DEF DatagramInv
<1>8. ASSUME ReadCount \/ ReadRange \/ Visit \/ EndOfRange \/ EndOfPacket
      PROVE  DatagramInv'
  <2>1. /\ UNCHANGED <<vars, type, writing, bytes>> /\ at # "writing"
        /\ at' \in {"range", "ids", "read"}
    BY <1>8 DEF ReadCount, ReadRange, Visit, EndOfRange, EndOfPacket
  <2>2. writing = Len(ranges) /\ writing # -1
    BY <1>1, <2>1 DEF WriterInv
  <2>3. WriterInv'
    BY <1>3, <2>1, <2>2
  <2>4. ReaderInv'
    BY <1>8, CountRead, RangeRead, IdRead, RangeEnds, PacketEnds
  <2> QED
    BY <1>2, <2>1, <2>3, <2>4 DEF DatagramInv
<1>9. CASE UNCHANGED <<vars, datagram>>
  <2>1. /\ UNCHANGED <<vars, type, writing, bytes>> /\ ranges' = ranges
        /\ at' = at /\ pointer' = pointer /\ rangesLeft' = rangesLeft
        /\ low' = low /\ high' = high /\ id' = id /\ visited' = visited
    BY <1>9 DEF vars, datagram, reader
  <2>2. WriterInv'
    BY <1>1, <1>3, <2>1 DEF WriterInv
  <2>3. ReaderInv'
    <3>1. Read' = Read
      BY <2>1 DEF Read
    <3>2. /\ Offset(Read)' = Offset(Read) /\ VisitedBy(Read)' = VisitedBy(Read)
          /\ VisitedBy(Read - 1)' = VisitedBy(Read - 1)
          /\ Offset(Len(ranges))' = Offset(Len(ranges))
          /\ VisitedBy(Len(ranges))' = VisitedBy(Len(ranges))
      BY <2>1, <3>1 DEF Offset, Pairs, VisitedBy
    <3>3. type' = type
      BY <2>1
    <3> QED
      BY <1>1, <2>1, <3>1, <3>2, <3>3 DEF ReaderInv
  <2> QED
    BY <1>2, <2>1, <2>2, <2>3 DEF DatagramInv
<1> QED
  BY <1>4, <1>5, <1>6, <1>7, <1>8, <1>9 DEF DatagramNext

\* What was written ends at the end of the buffer, and what was looked up is among
\* the ids of the ranges.
LEMMA DatagramSafe == DatagramInv => IdsVisited
<1> SUFFICES ASSUME DatagramInv PROVE IdsVisited
  OBVIOUS
<1>1. LoopInv /\ RangesInv /\ WriterInv /\ ReaderInv /\ ranges \in Seq(Nat \X Nat)
  BY DEF DatagramInv, LoopInv, TypeOK
<1>2. Len(ranges) \in Nat /\ BufferSize = Offset(Len(ranges))
  BY <1>1, BufferOffset
<1>3. CASE writing = -1
  <2>1. bytes = <<>> /\ at = "writing" /\ visited = {}
    BY <1>1, <1>3 DEF WriterInv, ReaderInv
  <2>2. Len(bytes) = 0 /\ BufferSize \in Nat
    BY <1>2, <2>1, OffsetNext
  <2> QED
    BY <2>1, <2>2 DEF IdsVisited
<1>4. CASE writing # -1
  <2>1. /\ done /\ Len(bytes) = Offset(writing) /\ writing \in 0 .. Len(ranges)
        /\ at \in {"writing", "sent", "range", "ids", "read"}
        /\ at # "writing" => writing = Len(ranges)
    BY <1>1, <1>2, <1>4 DEF WriterInv
  <2>2. /\ Len(bytes) <= BufferSize
        /\ at # "writing" => Len(bytes) = BufferSize
    BY <1>2, <2>1, OffsetGrows
  <2>3. /\ \A n \in 0 .. Len(ranges) : VisitedBy(n) \subseteq Range(sequence)
        /\ VisitedBy(Len(ranges)) = Range(sequence)
    BY <1>1, <2>1, RangesMade
  <2>4. CASE at \in {"writing", "sent"}
    BY <1>1, <2>2, <2>4 DEF IdsVisited, ReaderInv
  <2>5. CASE at = "range"
    <3>1. visited = VisitedBy(Read) /\ rangesLeft \in 0 .. Len(ranges)
      BY <1>1, <2>5 DEF ReaderInv
    <3>2. Read \in 0 .. Len(ranges)
      BY <1>2, <3>1 DEF Read
    <3> QED
      BY <2>2, <2>3, <2>5, <3>1, <3>2 DEF IdsVisited
  <2>6. CASE at = "ids"
    <3>1. /\ Read \in 1 .. Len(ranges) /\ Read - 1 \in Nat /\ Read - 1 + 1 = Read
          /\ low = ranges[Read][1] /\ high = ranges[Read][2] /\ type \in {"ACK", "NACK"}
          /\ low \in Nat /\ high \in Nat /\ id \in Int
      BY <2>6, RangeAtHand
    <3>2. VisitedBy(Read) = VisitedBy(Read - 1) \cup (low .. high)
      <4>1. VisitedBy(Read - 1 + 1) =
              VisitedBy(Read - 1) \cup (ranges[Read - 1 + 1][1] .. ranges[Read - 1 + 1][2])
        BY <3>1, VisitedNext
      <4> QED
        BY <3>1, <4>1
    <3>3. visited \subseteq VisitedBy(Read)
      <4>1. CASE type = "ACK"
        <5>1. id \in low .. high + 1 /\ visited = VisitedBy(Read - 1) \cup (low .. id - 1)
          BY <1>1, <2>6, <4>1 DEF ReaderInv
        <5>2. low .. id - 1 \subseteq low .. high
          BY <3>1, <5>1
        <5> QED
          BY <3>2, <5>1, <5>2
      <4>2. CASE type = "NACK"
        <5>1. id \in low - 1 .. high /\ visited = VisitedBy(Read - 1) \cup (id + 1 .. high)
          BY <1>1, <2>6, <4>2 DEF ReaderInv
        <5>2. id + 1 .. high \subseteq low .. high
          BY <3>1, <5>1
        <5> QED
          BY <3>2, <5>1, <5>2
      <4> QED
        BY <3>1, <4>1, <4>2
    <3>4. VisitedBy(Read) \subseteq Range(sequence)
      BY <1>2, <2>3, <3>1
    <3> QED
      BY <2>2, <2>6, <3>3, <3>4 DEF IdsVisited
  <2>7. CASE at = "read"
    <3>1. pointer = Offset(Len(ranges)) /\ visited = VisitedBy(Len(ranges))
      BY <1>1, <2>7 DEF ReaderInv
    <3> QED
      BY <1>2, <2>2, <2>3, <2>7, <3>1 DEF IdsVisited
  <2> QED
    BY <2>1, <2>4, <2>5, <2>6, <2>7
<1> QED
  BY <1>3, <1>4

\* sendAck fills the buffer it sized and never writes behind its end, and handleAck or
\* handleNack looks up the ids that were to be sent and no others, up to the last byte:
\* with bytes of any size, for ids up to the largest and down to 0.
THEOREM IdsAlwaysVisited == DatagramSpec => [](RoundTrip /\ IdsVisited)
<1>1. DatagramSpec => []DatagramInv
  BY InitDatagram, StepDatagram, PTL DEF DatagramSpec
<1>2. DatagramInv => RoundTrip /\ IdsVisited
  BY DatagramSafe DEF DatagramInv, LoopInv
<1> QED
  BY <1>1, <1>2, PTL

=============================================================================
